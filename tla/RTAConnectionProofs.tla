------------------------ MODULE RTAConnectionProofs ------------------------
(***************************************************************************)
(* Machine-checked facts about RTAConnection, for any set of clients,      *)
(* resources and service ids, any dispatch order and any bounds.           *)
(***************************************************************************)
EXTENDS RTAConnection, TLAPS

\* Taking one message out of a queue leaves a queue of messages.
LEMMA RemoveAtType ==
    ASSUME NEW S, NEW s \in Seq(S), NEW k \in 1..Len(s)
    PROVE  RemoveAt(s, k) \in Seq(S)
BY DEF RemoveAt

\* An element of a queue of messages is a message.
LEMMA MessageType ==
    ASSUME inbox \in Seq(Message), NEW k \in 1..Len(inbox)
    PROVE  /\ inbox[k] \in Message
           /\ inbox[k].clientId \in SubIds \union {0}
           /\ inbox[k].serviceId \in ServiceIds \union {0}
<1>1. inbox[k] \in Message
  OBVIOUS
<1>. QED
  BY <1>1 DEF Message

\* Completing calls with an outcome keeps the table of results well-typed.
LEMMA CompletedType ==
    ASSUME NEW res \in [OpIds -> Results], NEW ops, NEW r \in Results
    PROVE  Completed(res, ops, r) \in [OpIds -> Results]
BY DEF Completed

\* The fields of a subscription object, and what they may be replaced with.
LEMMA SubFields ==
    ASSUME NEW sub \in ServiceSubscription
    PROVE  /\ sub.uri \in Uris \union {NoUri}
           /\ sub.status \in Status
           /\ sub.serviceId \in ServiceIds \union {0}
           /\ sub.clientSubscriptions \in SUBSET Clients
           /\ sub.subscribeOps \in SUBSET OpIds
           /\ sub.unsubscribeOps \in SUBSET OpIds
BY DEF ServiceSubscription

\* A new status keeps a subscription object typed.
LEMMA SubStatus ==
    ASSUME NEW sub \in ServiceSubscription, NEW st \in Status
    PROVE  [sub EXCEPT !.status = st] \in ServiceSubscription
BY DEF ServiceSubscription

\* So does a change of its set of clients,
LEMMA SubClients ==
    ASSUME NEW sub \in ServiceSubscription, NEW cs \in SUBSET Clients
    PROVE  [sub EXCEPT !.clientSubscriptions = cs] \in ServiceSubscription
BY DEF ServiceSubscription

\* the loss of its waiting calls,
LEMMA SubWithoutOps ==
    ASSUME NEW sub \in ServiceSubscription
    PROVE  WithoutOps(sub) \in ServiceSubscription
BY DEF ServiceSubscription, WithoutOps

\* and what a disconnect makes of it.
LEMMA SubDisconnected ==
    ASSUME NEW sub \in ServiceSubscription
    PROVE  Disconnected(sub) \in ServiceSubscription
BY DEF ServiceSubscription, Disconnected, Status

\* AddSubscription, in each of its four cases, keeps the state typed.
LEMMA AddSubscriptionType ==
    ASSUME TypeOK, NEW c \in Clients, AddSubscription(c), UNCHANGED phase
    PROVE  TypeOK'
<1>. DEFINE u       == UriOf[c]
            i       == IF byUri[u] = 0 THEN nextSubId ELSE byUri[u]
            sub     == [subs[i] EXCEPT !.uri = u, !.clientSubscriptions = @ \union {c},
                                       !.status = StatusAfterAdd(@)]
            waiting == [sub EXCEPT !.subscribeOps = @ \union {nextOp}]
            joined  == [waiting EXCEPT !.unsubscribeOps = {}]
<1>1. u \in Uris
  BY NamesAssumption
<1>2. i \in SubIds /\ nextOp \in OpIds
  BY DEF AddSubscription
<1>3. subs[i] \in ServiceSubscription
  BY <1>2 DEF TypeOK
<1>4. subs' \in [SubIds -> ServiceSubscription]
  <2>1. StatusAfterAdd(subs[i].status) \in Status
    BY <1>3 DEF ServiceSubscription, StatusAfterAdd, Status
  <2>2. sub \in ServiceSubscription
    BY Zenon, <1>1, <1>3, <2>1 DEF ServiceSubscription
  <2>3. waiting \in ServiceSubscription
    <3>. HIDE DEF sub
    <3>. QED  BY <1>2, <2>2 DEF ServiceSubscription
  <2>4. joined \in ServiceSubscription
    <3>. HIDE DEF waiting
    <3>. QED  BY <2>3 DEF ServiceSubscription
  <2>5. \/ subs' = [subs EXCEPT ![i] = sub]
        \/ subs' = [subs EXCEPT ![i] = waiting]
        \/ subs' = [subs EXCEPT ![i] = joined]
    BY DEF AddSubscription
  <2>6. subs \in [SubIds -> ServiceSubscription]
    BY DEF TypeOK
  <2>. HIDE DEF i, sub, waiting, joined
  <2>. QED
    BY <1>2, <2>2, <2>3, <2>4, <2>5, <2>6
<1>5. result' \in [OpIds -> Results]
  <2>1. /\ result \in [OpIds -> Results]
        /\ {"E_ABORT", "S_OK", "pending"} \subseteq Results
    BY SMTT(30) DEF TypeOK, Results
  <2>2. \/ result' = [Completed(result, {}, "E_ABORT") EXCEPT ![nextOp] = "pending"]
        \/ result' = [Completed(result, sub.unsubscribeOps, "E_ABORT") EXCEPT ![nextOp] = "pending"]
        \/ result' = [result EXCEPT ![nextOp] = "S_OK"]
    BY Zenon DEF AddSubscription, Waits, IsDone
  <2>. HIDE DEF sub
  <2>. QED
    BY <1>2, <2>1, <2>2, CompletedType
<1>6. outbox' \in [Request -> Nat]
  <2>1. outbox \in [Request -> Nat] /\ SubscribeMessage(i) \in Request
    BY <1>2 DEF TypeOK, SubscribeMessage, Request
  <2>2. UNCHANGED outbox \/ ToSend(SubscribeMessage(i))
    BY DEF AddSubscription
  <2>. HIDE DEF i
  <2>. QED
    BY <2>1, <2>2 DEF ToSend
<1>7. /\ byClientId' \in SUBSET SubIds
      /\ byUri' \in [Uris -> SubIds \union {0}]
      /\ nextSubId' \in 1..(MaxSubId + 1)
      /\ nextOp' \in 1..(MaxOps + 1)
      /\ held' \in SUBSET Clients
  <2>1. /\ byClientId' = byClientId \union {i}
        /\ byUri' = [byUri EXCEPT ![u] = i]
        /\ nextSubId' = IF byUri[u] = 0 THEN nextSubId + 1 ELSE nextSubId
        /\ held' = held \union {c}
        /\ nextOp' = nextOp + 1
    BY DEF AddSubscription
  <2>2. byUri[u] = 0 => nextSubId \in SubIds
    BY <1>2
  <2>. HIDE DEF i, u
  <2>. QED
    BY <1>1, <1>2, <2>1, <2>2, BoundsAssumption DEF TypeOK, SubIds, OpIds
<1>. QED
  BY <1>4, <1>5, <1>6, <1>7 DEF TypeOK, AddSubscription, connVars, sockVars

\* RemoveSubscription of a resource the connection does not know.
LEMMA RemoveUnknownType ==
    ASSUME TypeOK, NEW c \in Clients, RemoveUnknown(c), UNCHANGED phase
    PROVE  TypeOK'
<1>1. nextOp' \in 1..(MaxOps + 1)
  BY BoundsAssumption DEF RemoveUnknown, TypeOK, OpIds
<1>. QED
  BY <1>1 DEF TypeOK, RemoveUnknown, connVars, mapVars, sockVars

\* RemoveSubscription that leaves another client on the resource.
LEMMA RemoveSharedType ==
    ASSUME TypeOK, NEW c \in Clients, RemoveShared(c), UNCHANGED phase
    PROVE  TypeOK'
<1>1. result' \in [OpIds -> Results]
  BY DEF RemoveShared, IsDone, TypeOK, Results
<1>2. nextOp' \in 1..(MaxOps + 1)
  BY BoundsAssumption DEF RemoveShared, TypeOK, OpIds
<1>3. subs' \in [SubIds -> ServiceSubscription]
  <2>. DEFINE i == byUri[UriOf[c]]
  <2>1. i \in SubIds /\ subs \in [SubIds -> ServiceSubscription]
    BY NamesAssumption DEF RemoveShared, TypeOK
  <2>2. subs' = [subs EXCEPT ![i] = [subs[i] EXCEPT !.clientSubscriptions = @ \ {c}]]
    BY DEF RemoveShared
  <2>. HIDE DEF i
  <2>3. subs[i] \in ServiceSubscription /\ subs[i].clientSubscriptions \ {c} \in SUBSET Clients
    BY <2>1, SubFields
  <2>4. [subs[i] EXCEPT !.clientSubscriptions = @ \ {c}] \in ServiceSubscription
    BY <2>3, SubClients
  <2>. QED
    BY <2>1, <2>2, <2>4
<1>. QED
  BY <1>1, <1>2, <1>3 DEF TypeOK, RemoveShared, connVars, mapVars, sockVars

\* RemoveSubscription of the last client, in each status.
LEMMA RemoveLastType ==
    ASSUME TypeOK, NEW c \in Clients, RemoveLast(c), UNCHANGED phase
    PROVE  TypeOK'
<1>. DEFINE i       == byUri[UriOf[c]]
            sub     == [subs[i] EXCEPT !.clientSubscriptions = @ \ {c},
                                       !.status = StatusAfterRemove(@)]
            waiting == [sub EXCEPT !.unsubscribeOps = @ \union {nextOp}]
            left    == [waiting EXCEPT !.subscribeOps = {}]
<1>1. i \in SubIds /\ nextOp \in OpIds
  BY NamesAssumption DEF RemoveLast, TypeOK
<1>2. subs[i] \in ServiceSubscription
  BY <1>1 DEF TypeOK
<1>3. sub \in ServiceSubscription
  <2>1. StatusAfterRemove(subs[i].status) \in Status
    BY <1>2 DEF ServiceSubscription, StatusAfterRemove, Status
  <2>. QED
    BY <1>2, <2>1 DEF ServiceSubscription
<1>4. subs' \in [SubIds -> ServiceSubscription]
  <2>1. waiting \in ServiceSubscription /\ WithoutOps(sub) \in ServiceSubscription
    <3>. HIDE DEF sub
    <3>. QED  BY <1>1, <1>3 DEF ServiceSubscription, WithoutOps
  <2>2. left \in ServiceSubscription
    <3>. HIDE DEF waiting
    <3>. QED  BY <2>1 DEF ServiceSubscription
  <2>3. \/ subs' = [subs EXCEPT ![i] = WithoutOps(sub)]
        \/ subs' = [subs EXCEPT ![i] = waiting]
        \/ subs' = [subs EXCEPT ![i] = left]
    BY DEF RemoveLast
  <2>4. subs \in [SubIds -> ServiceSubscription]
    BY DEF TypeOK
  <2>. HIDE DEF i, sub, waiting, left
  <2>. QED
    BY <1>1, <2>1, <2>2, <2>3, <2>4
<1>5. result' \in [OpIds -> Results]
  <2>1. /\ result \in [OpIds -> Results]
        /\ {"E_ABORT", "S_OK", "pending"} \subseteq Results
    BY DEF TypeOK, Results
  <2>2. \/ result' = [Completed(result, {}, "E_ABORT") EXCEPT ![nextOp] = "pending"]
        \/ result' = [Completed(result, sub.subscribeOps, "E_ABORT") EXCEPT ![nextOp] = "pending"]
        \/ result' = [result EXCEPT ![nextOp] = "S_OK"]
    BY Zenon DEF RemoveLast, Waits, IsDone
  <2>. HIDE DEF sub
  <2>. QED
    BY SMTT(30), <1>1, <2>1, <2>2, CompletedType
<1>6. outbox' \in [Request -> Nat]
  <2>1. sub.serviceId \in ServiceIds \union {0}
    <3>. HIDE DEF sub
    <3>. QED  BY <1>3 DEF ServiceSubscription
  <2>2. outbox \in [Request -> Nat] /\ UnsubscribeMessage(i, sub.serviceId) \in Request
    <3>. HIDE DEF i, sub
    <3>. QED  BY <1>1, <2>1 DEF TypeOK, UnsubscribeMessage, Request
  <2>3. UNCHANGED outbox \/ ToSend(UnsubscribeMessage(i, sub.serviceId))
    BY DEF RemoveLast
  <2>. HIDE DEF i, sub
  <2>. QED
    BY <2>2, <2>3 DEF ToSend
<1>7. UNCHANGED mapVars \/ EraseSub(i)
  BY DEF RemoveLast
<1>8. /\ byClientId' \in SUBSET SubIds
      /\ byUri' \in [Uris -> SubIds \union {0}]
      /\ nextSubId' \in 1..(MaxSubId + 1)
  <2>. HIDE DEF i
  <2>. QED  BY <1>7 DEF TypeOK, EraseSub, mapVars
<1>9. failedAsserts' \in SUBSET AssertSites
  <2>1. UNCHANGED failedAsserts \/ AssertAt("291: serviceId == 0", sub.serviceId = 0)
    BY DEF RemoveLast
  <2>. QED
    BY <2>1 DEF AssertAt, AssertSites, TypeOK
<1>10. /\ nextOp' \in 1..(MaxOps + 1)
       /\ held' \in SUBSET Clients
  <2>1. nextOp' = nextOp + 1 /\ held' = held \ {c}
    BY DEF RemoveLast
  <2>. QED
    BY <1>1, <2>1, BoundsAssumption DEF TypeOK, OpIds
<1>. QED
  BY <1>4, <1>5, <1>6, <1>8, <1>9, <1>10 DEF TypeOK, RemoveLast, connVars, sockVars

\* Cleanup collects calls that exist.
LEMMA CleanupType ==
    ASSUME TypeOK, Cleanup
    PROVE  TypeOK'
<1>1. subs' \in [SubIds -> ServiceSubscription]
  BY SubWithoutOps DEF Cleanup, TypeOK
<1>2. aborting' \in SUBSET OpIds
  <2>1. \A i \in byClientId : subs[i].subscribeOps \union subs[i].unsubscribeOps \subseteq OpIds
    BY DEF TypeOK, ServiceSubscription
  <2>. QED
    BY <2>1 DEF Cleanup
<1>. QED
  BY <1>1, <1>2 DEF TypeOK, Cleanup, connVars, mapVars, sockVars, opVars

\* The terminated queue's callback completes calls with E_ABORT.
LEMMA QueueTerminatedType ==
    ASSUME TypeOK, QueueTerminated
    PROVE  TypeOK'
<1>1. result' \in [OpIds -> Results]
  BY CompletedType DEF QueueTerminated, TypeOK, Results
<1>. QED
  BY <1>1 DEF TypeOK, QueueTerminated, connVars, mapVars, sockVars

\* Sending takes a request out of the outbox, onto the wire or nowhere.
LEMMA SendAssembledMessageType ==
    ASSUME TypeOK, NEW m \in Request, SendAssembledMessage(m), UNCHANGED phase
    PROVE  TypeOK'
<1>1. outbox' \in [Request -> Nat] /\ requests' \in Seq(Request)
  BY DEF SendAssembledMessage, TypeOK
<1>. QED
  BY <1>1 DEF TypeOK, SendAssembledMessage, connVars, mapVars, opVars

\* The throttle retry.
LEMMA RetrySubscribeType ==
    ASSUME TypeOK, NEW i \in SubIds, RetrySubscribe(i), UNCHANGED phase
    PROVE  TypeOK'
<1>1. subs' \in [SubIds -> ServiceSubscription]
  <2>1. UNCHANGED subs \/ subs' = [subs EXCEPT ![i] = [subs[i] EXCEPT !.status = "Subscribing"]]
    BY DEF RetrySubscribe
  <2>2. subs \in [SubIds -> ServiceSubscription] /\ "Subscribing" \in Status
    BY DEF TypeOK, Status
  <2>. QED
    BY <2>1, <2>2, SubStatus
<1>2. outbox' \in [Request -> Nat]
  BY DEF RetrySubscribe, TypeOK, ToSend, SubscribeMessage, Request
<1>3. retryTimers' \in [SubIds -> Nat]
  BY DEF RetrySubscribe, TypeOK
<1>. QED
  BY <1>1, <1>2, <1>3 DEF TypeOK, RetrySubscribe, connVars, mapVars, sockVars, opVars

\* The connect timer, whether the websocket can be set up or not.
LEMMA ConnectTimerType ==
    ASSUME TypeOK, ConnectTimerFires \/ ConnectTimerFails, UNCHANGED phase
    PROVE  TypeOK'
<1>1. CASE ConnectTimerFires
  <2>1. /\ connectTimers' \in Nat
        /\ registered' \in [ServiceIds -> SubIds \union {0}]
        /\ requests' \in Seq(Request)
    BY <1>1 DEF TypeOK, ConnectTimerFires
  <2>. QED
    BY <1>1, <2>1 DEF TypeOK, ConnectTimerFires, mapVars, opVars
<1>2. CASE ConnectTimerFails
  <2>1. connectAttempt' \in 0..4
    BY <1>2 DEF TypeOK, ConnectTimerFails
  <2>. QED
    BY <1>2, <2>1 DEF TypeOK, ConnectTimerFails, mapVars, sockVars, opVars
<1>. QED
  BY <1>1, <1>2

\* ConnectCompleteHandler with a success code.
LEMMA ConnectSucceededType ==
    ASSUME TypeOK, ConnectSucceeded, UNCHANGED phase
    PROVE  TypeOK'
<1>1. subs' \in [SubIds -> ServiceSubscription]
  <2>1. /\ subs \in [SubIds -> ServiceSubscription] /\ "Subscribing" \in Status
        /\ subs' = [i \in SubIds |-> IF i \in byClientId
                                     THEN [subs[i] EXCEPT !.status = "Subscribing"]
                                     ELSE subs[i]]
    BY DEF ConnectSucceeded, TypeOK, Status
  <2>. QED
    BY <2>1, SubStatus
<1>2. outbox' \in [Request -> Nat]
  <2>1. /\ outbox \in [Request -> Nat]
        /\ outbox' = [m \in Request |-> IF m.type = "Subscribe" /\ m.clientId \in byClientId
                                        THEN outbox[m] + 1 ELSE outbox[m]]
    BY DEF ConnectSucceeded, TypeOK
  <2>. QED
    BY <2>1
<1>3. failedAsserts' \in SUBSET AssertSites
  <2>1. /\ failedAsserts \in SUBSET AssertSites
        /\ \E A \in SUBSET {"663: m_subsByServiceId.empty()"} :
           \E B \in SUBSET {"668: status == Inactive"} :
               failedAsserts' = failedAsserts \union A \union B
    BY DEF ConnectSucceeded, TypeOK
  <2>. QED
    BY <2>1 DEF AssertSites
<1>4. /\ state' = "Connected" /\ connectAttempt' = 0 /\ completion' = "none"
      /\ UNCHANGED <<phase, connectTimers, mapVars, byServiceId, retryTimers, wire, requests,
                     registered, closes, inbox, opVars, aborting>>
  BY DEF ConnectSucceeded
<1>. QED
  BY <1>1, <1>2, <1>3, <1>4 DEF TypeOK, mapVars, opVars

\* ConnectCompleteHandler with a failure.
LEMMA ConnectFailedType ==
    ASSUME TypeOK, ConnectFailed, UNCHANGED phase
    PROVE  TypeOK'
<1>1. connectTimers' \in Nat /\ connectAttempt' \in 0..4
  BY DEF TypeOK, ConnectFailed, ScheduleConnect
<1>. QED
  BY <1>1 DEF TypeOK, ConnectFailed, mapVars, opVars

\* DisconnectHandler.
LEMMA DisconnectHandlerType ==
    ASSUME TypeOK, DisconnectHandler, UNCHANGED phase
    PROVE  TypeOK'
<1>1. subs' \in [SubIds -> ServiceSubscription]
  BY SubDisconnected DEF DisconnectHandler, TypeOK
<1>2. result' \in [OpIds -> Results]
  <2>1. /\ result \in [OpIds -> Results]
        /\ {"S_OK", "E_XBL_RTA_GENERIC_ERROR"} \subseteq Results
    BY DEF TypeOK, Results
  <2>2. \E A, B : result' = Completed(Completed(result, A, "S_OK"), B, "E_XBL_RTA_GENERIC_ERROR")
    BY DEF DisconnectHandler
  <2>. QED
    BY <2>1, <2>2, CompletedType
<1>3. /\ byClientId' \in SUBSET SubIds
      /\ byUri' \in [Uris -> SubIds \union {0}]
  <2>1. /\ \E R : byClientId' = byClientId \ R
        /\ \E R : byUri' = [u \in Uris |-> IF \E i \in R : subs[i].uri = u THEN 0 ELSE byUri[u]]
    BY DEF DisconnectHandler
  <2>. QED
    BY <2>1 DEF TypeOK
<1>4. /\ byServiceId' \in [ServiceIds \union {0} -> SubIds \union {0}]
      /\ registered' \in [ServiceIds -> SubIds \union {0}]
      /\ requests' \in Seq(Request)
      /\ wire' = "closed"
      /\ closes' \in Nat
  <2>1. /\ byServiceId' = [s \in ServiceIds \union {0} |-> 0]
        /\ registered' = [s \in ServiceIds |-> 0]
        /\ requests' = <<>> /\ wire' = "closed" /\ closes' = closes + 1 /\ closes \in Nat
    BY DEF DisconnectHandler, TypeOK
  <2>. QED
    BY <2>1
<1>5. connectTimers' \in Nat /\ connectAttempt' \in 0..4
  <2>1. ScheduleConnect
    BY DEF DisconnectHandler
  <2>. QED
    BY <2>1 DEF TypeOK, ScheduleConnect
<1>6. UNCHANGED <<phase, state, nextSubId, retryTimers, outbox, completion, inbox, nextOp, held,
                  aborting, failedAsserts>>
  BY DEF DisconnectHandler
<1>. QED
  BY <1>1, <1>2, <1>3, <1>4, <1>5, <1>6 DEF TypeOK

\* The network and the service send well-formed messages only.
LEMMA EnvironmentType ==
    ASSUME TypeOK, Environment, UNCHANGED phase
    PROVE  TypeOK'
<1>1. CASE NetworkConnects \/ NetworkRefuses
  BY <1>1 DEF TypeOK, NetworkConnects, NetworkRefuses, connVars, mapVars, opVars
<1>2. ASSUME NEW m \in Message, Reply(m),
             registered' \in [ServiceIds -> SubIds \union {0}],
             requests' \in Seq(Request)
      PROVE  TypeOK'
  BY <1>2 DEF TypeOK, Reply, connVars, mapVars, opVars
<1>3. requests # <<>> => Head(requests) \in Request /\ Tail(requests) \in Seq(Request)
  BY DEF TypeOK
<1>4. requests # <<>> => Head(requests).clientId \in SubIds
  BY <1>3 DEF Request
<1>5. CASE \E sid \in ServiceIds : ServiceGrants(sid)
  BY <1>2, <1>3, <1>4, <1>5 DEF ServiceGrants, Message, TypeOK
<1>6. CASE \E sid \in ServiceIds : ServiceRaisesEvent(sid)
  BY <1>2, <1>6 DEF ServiceRaisesEvent, Message, TypeOK
<1>7. CASE \E code \in Codes : ServiceDeclines(code)
  BY <1>2, <1>3, <1>4, <1>7 DEF ServiceDeclines, Message, TypeOK
<1>8. CASE \E code \in UnsubscribeCodes : ServiceReleases(code)
  BY <1>2, <1>3, <1>4, <1>8 DEF ServiceReleases, Message, TypeOK
<1>. QED
  BY <1>1, <1>5, <1>6, <1>7, <1>8 DEF Environment

\* Handling a message: one lemma per handler, then the dequeuing around them.
LEMMA SubscribeSucceededType ==
    ASSUME TypeOK, NEW m \in Message, SubscribeSucceeded(m)
    PROVE  /\ subs' \in [SubIds -> ServiceSubscription]
           /\ byServiceId' \in [ServiceIds \union {0} -> SubIds \union {0}]
           /\ result' \in [OpIds -> Results]
           /\ outbox' \in [Request -> Nat]
           /\ failedAsserts' \in SUBSET AssertSites
           /\ UNCHANGED <<phase, mapVars, retryTimers>>
<1>. DEFINE i   == m.clientId
            sub == [subs[i] EXCEPT !.serviceId = m.serviceId, !.subscribeOps = {}]
<1>1. i \in SubIds /\ m.serviceId \in ServiceIds \union {0}
  BY DEF SubscribeSucceeded, TypeOK, Message
<1>2. subs[i] \in ServiceSubscription /\ subs \in [SubIds -> ServiceSubscription]
  BY <1>1 DEF TypeOK
<1>3. sub \in ServiceSubscription
  BY <1>1, <1>2 DEF ServiceSubscription
<1>4. subs' \in [SubIds -> ServiceSubscription]
  <2>1. \/ subs' = [subs EXCEPT ![i] = [sub EXCEPT !.status = "Active"]]
        \/ subs' = [subs EXCEPT ![i] = [sub EXCEPT !.status = "Unsubscribing"]]
        \/ subs' = [subs EXCEPT ![i] = sub]
    BY DEF SubscribeSucceeded
  <2>2. /\ [sub EXCEPT !.status = "Active"] \in ServiceSubscription
        /\ [sub EXCEPT !.status = "Unsubscribing"] \in ServiceSubscription
    <3>. HIDE DEF sub
    <3>. QED  BY <1>3, SubStatus DEF Status
  <2>. HIDE DEF i, sub
  <2>. QED
    BY <1>1, <1>2, <1>3, <2>1, <2>2
<1>5. byServiceId' \in [ServiceIds \union {0} -> SubIds \union {0}]
  BY <1>1 DEF SubscribeSucceeded, BindServiceId, TypeOK
<1>6. result' \in [OpIds -> Results]
  BY CompletedType DEF SubscribeSucceeded, TypeOK, Results
<1>7. outbox' \in [Request -> Nat]
  <2>1. outbox \in [Request -> Nat] /\ UnsubscribeMessage(i, m.serviceId) \in Request
    BY <1>1 DEF TypeOK, UnsubscribeMessage, Request
  <2>2. UNCHANGED outbox \/ ToSend(UnsubscribeMessage(i, m.serviceId))
    BY DEF SubscribeSucceeded
  <2>. QED
    BY <2>1, <2>2 DEF ToSend
<1>8. failedAsserts' \in SUBSET AssertSites
  <2>1. UNCHANGED failedAsserts \/ AssertAt("461: status", FALSE)
    BY DEF SubscribeSucceeded
  <2>. QED
    BY <2>1 DEF TypeOK, AssertAt, AssertSites
<1>. QED
  BY <1>4, <1>5, <1>6, <1>7, <1>8 DEF SubscribeSucceeded

\* SubscribeResponseHandler for a throttled request.
LEMMA SubscribeThrottledType ==
    ASSUME TypeOK, NEW m \in Message, SubscribeThrottled(m)
    PROVE  /\ subs' \in [SubIds -> ServiceSubscription]
           /\ byClientId' \in SUBSET SubIds
           /\ byUri' \in [Uris -> SubIds \union {0}]
           /\ retryTimers' \in [SubIds -> Nat]
           /\ result' \in [OpIds -> Results]
           /\ failedAsserts' \in SUBSET AssertSites
           /\ UNCHANGED <<phase, nextSubId, byServiceId, outbox>>
<1>. DEFINE i   == m.clientId
            sub == [subs[i] EXCEPT !.status = "Inactive"]
<1>1. i \in SubIds
  BY DEF SubscribeThrottled, TypeOK
<1>2. subs[i] \in ServiceSubscription /\ subs \in [SubIds -> ServiceSubscription]
  BY <1>1 DEF TypeOK
<1>3. sub \in ServiceSubscription /\ WithoutOps(sub) \in ServiceSubscription
  BY <1>2, SubStatus, SubWithoutOps DEF Status
<1>4. subs' \in [SubIds -> ServiceSubscription]
  <2>1. subs' = [subs EXCEPT ![i] = sub] \/ subs' = [subs EXCEPT ![i] = WithoutOps(sub)]
    BY DEF SubscribeThrottled
  <2>. HIDE DEF i, sub
  <2>. QED
    BY <1>1, <1>2, <1>3, <2>1
<1>5. result' \in [OpIds -> Results]
  <2>1. /\ result \in [OpIds -> Results] /\ "S_OK" \in Results
        /\ ConvertRTAErrorCode("Throttled") \in Results
    BY DEF TypeOK, Results, ConvertRTAErrorCode
  <2>2. \/ UNCHANGED result
        \/ result' = Completed(Completed(result, sub.subscribeOps, ConvertRTAErrorCode("Throttled")),
                              sub.unsubscribeOps, "S_OK")
    BY DEF SubscribeThrottled
  <2>. HIDE DEF sub
  <2>3. Completed(result, sub.subscribeOps, ConvertRTAErrorCode("Throttled")) \in [OpIds -> Results]
    BY <2>1, CompletedType
  <2>. QED
    BY <2>1, <2>2, <2>3, CompletedType
<1>6. /\ byClientId' \in SUBSET SubIds
      /\ byUri' \in [Uris -> SubIds \union {0}]
      /\ UNCHANGED nextSubId
  <2>1. UNCHANGED mapVars \/ EraseSub(i)
    BY DEF SubscribeThrottled
  <2>. QED
    BY <2>1 DEF TypeOK, EraseSub, mapVars
<1>7. retryTimers' \in [SubIds -> Nat]
  <2>1. UNCHANGED retryTimers \/ retryTimers' = [retryTimers EXCEPT ![i] = @ + 1]
    BY DEF SubscribeThrottled
  <2>2. retryTimers \in [SubIds -> Nat]
    BY DEF TypeOK
  <2>. HIDE DEF i
  <2>. QED
    BY <1>1, <2>1, <2>2
<1>8. failedAsserts' \in SUBSET AssertSites
  <2>1. UNCHANGED failedAsserts \/ AssertAt("547: status", FALSE)
    BY DEF SubscribeThrottled
  <2>. QED
    BY <2>1 DEF TypeOK, AssertAt, AssertSites
<1>. QED
  BY <1>4, <1>5, <1>6, <1>7, <1>8 DEF SubscribeThrottled

\* UnsubscribeResponseHandler.
LEMMA UnsubscribeResponseType ==
    ASSUME TypeOK, NEW m \in Message, UnsubscribeResponse(m)
    PROVE  /\ subs' \in [SubIds -> ServiceSubscription]
           /\ byClientId' \in SUBSET SubIds
           /\ byUri' \in [Uris -> SubIds \union {0}]
           /\ byServiceId' \in [ServiceIds \union {0} -> SubIds \union {0}]
           /\ result' \in [OpIds -> Results]
           /\ outbox' \in [Request -> Nat]
           /\ failedAsserts' \in SUBSET AssertSites
           /\ UNCHANGED <<phase, nextSubId, retryTimers>>
<1>. DEFINE i   == m.clientId
            sub == [subs[i] EXCEPT !.serviceId = 0, !.unsubscribeOps = {}]
<1>1. i \in SubIds
  BY DEF UnsubscribeResponse, TypeOK
<1>2. subs[i] \in ServiceSubscription /\ subs \in [SubIds -> ServiceSubscription]
  BY <1>1 DEF TypeOK
<1>3. sub \in ServiceSubscription
  BY <1>2 DEF ServiceSubscription
<1>4. subs' \in [SubIds -> ServiceSubscription]
  <2>1. \/ subs' = [subs EXCEPT ![i] = [sub EXCEPT !.status = "Inactive"]]
        \/ subs' = [subs EXCEPT ![i] = [sub EXCEPT !.status = "Subscribing"]]
        \/ subs' = [subs EXCEPT ![i] = sub]
    BY DEF UnsubscribeResponse
  <2>2. /\ [sub EXCEPT !.status = "Inactive"] \in ServiceSubscription
        /\ [sub EXCEPT !.status = "Subscribing"] \in ServiceSubscription
    <3>. HIDE DEF sub
    <3>. QED  BY <1>3, SubStatus DEF Status
  <2>. HIDE DEF i, sub
  <2>. QED
    BY <1>1, <1>2, <1>3, <2>1, <2>2
<1>5. byServiceId' \in [ServiceIds \union {0} -> SubIds \union {0}]
  <2>1. subs[i].serviceId \in ServiceIds \union {0}
    BY <1>2, SubFields
  <2>2. BindServiceId(subs[i].serviceId, 0)
    BY DEF UnsubscribeResponse
  <2>. QED
    BY <2>1, <2>2 DEF BindServiceId, TypeOK
<1>6. result' \in [OpIds -> Results]
  <2>1. ConvertRTAErrorCode(m.code) \in Results
    BY DEF ConvertRTAErrorCode, Results
  <2>2. \E A : result' = Completed(result, A, ConvertRTAErrorCode(m.code))
    BY DEF UnsubscribeResponse
  <2>. QED
    BY <2>1, <2>2, CompletedType DEF TypeOK
<1>7. outbox' \in [Request -> Nat]
  <2>1. outbox \in [Request -> Nat] /\ SubscribeMessage(i) \in Request
    BY <1>1 DEF TypeOK, SubscribeMessage, Request
  <2>2. UNCHANGED outbox \/ ToSend(SubscribeMessage(i))
    BY DEF UnsubscribeResponse
  <2>. QED
    BY <2>1, <2>2 DEF ToSend
<1>8. /\ byClientId' \in SUBSET SubIds
      /\ byUri' \in [Uris -> SubIds \union {0}]
      /\ UNCHANGED nextSubId
  <2>1. UNCHANGED mapVars \/ EraseSub(i)
    BY DEF UnsubscribeResponse
  <2>. QED
    BY <2>1 DEF TypeOK, EraseSub, mapVars
<1>9. failedAsserts' \in SUBSET AssertSites
  <2>1. UNCHANGED failedAsserts \/ AssertAt("609: status", FALSE)
    BY DEF UnsubscribeResponse
  <2>. QED
    BY <2>1 DEF TypeOK, AssertAt, AssertSites
<1>. QED
  BY <1>4, <1>5, <1>6, <1>7, <1>8, <1>9 DEF UnsubscribeResponse

\* Whichever message is handled, the state stays typed.
LEMMA WebsocketMessageReceivedType ==
    ASSUME TypeOK, NEW k \in 1..Len(inbox), WebsocketMessageReceived(k)
    PROVE  TypeOK'
<1>. DEFINE m == inbox[k]
<1>1. m \in Message
  BY MessageType DEF TypeOK
<1>2. inbox' \in Seq(Message)
  BY RemoveAtType DEF WebsocketMessageReceived, Dequeue, TypeOK
<1>3. UNCHANGED <<connVars, sockVars, nextOp, held, aborting>>
  BY DEF WebsocketMessageReceived
<1>4. \/ IgnoreResponse(m) \/ SubscribeSucceeded(m) \/ SubscribeDenied(m)
      \/ SubscribeThrottled(m) \/ UnsubscribeResponse(m) \/ EventHandler(m)
  BY DEF WebsocketMessageReceived
<1>. HIDE DEF m
<1>5. CASE IgnoreResponse(m) \/ SubscribeDenied(m)
  BY <1>2, <1>3, <1>5
     DEF TypeOK, IgnoreResponse, SubscribeDenied, connVars, mapVars, sockVars
<1>6. CASE SubscribeSucceeded(m)
  BY <1>1, <1>2, <1>3, <1>6, SubscribeSucceededType DEF TypeOK, connVars, mapVars, sockVars
<1>7. CASE SubscribeThrottled(m)
  BY <1>1, <1>2, <1>3, <1>7, SubscribeThrottledType DEF TypeOK, connVars, sockVars
<1>8. CASE UnsubscribeResponse(m)
  BY <1>1, <1>2, <1>3, <1>8, UnsubscribeResponseType DEF TypeOK, connVars, sockVars
<1>9. CASE EventHandler(m)
  <2>1. phase' \in {"live", "cleaned", "crashed"} /\ failedAsserts' \in SUBSET AssertSites
    BY <1>9 DEF EventHandler, TypeOK, AssertAt, AssertSites
  <2>2. UNCHANGED <<subs, mapVars, byServiceId, retryTimers, outbox, result>>
    BY <1>9 DEF EventHandler
  <2>. QED
    BY <1>2, <1>3, <2>1, <2>2 DEF TypeOK, connVars, mapVars, sockVars
<1>. QED
  BY <1>4, <1>5, <1>6, <1>7, <1>8, <1>9

\* Every step keeps the state well-typed.
LEMMA NextType ==
    ASSUME TypeOK, [Next]_vars
    PROVE  TypeOK'
<1>1. CASE UNCHANGED vars
  BY <1>1 DEF TypeOK, vars, connVars, mapVars, sockVars, opVars
<1>2. ASSUME Component, UNCHANGED phase
      PROVE  TypeOK'
  BY <1>2, AddSubscriptionType, RemoveUnknownType, RemoveSharedType, RemoveLastType,
     SendAssembledMessageType, RetrySubscribeType, ConnectTimerType, ConnectSucceededType,
     ConnectFailedType, DisconnectHandlerType
     DEF Component
<1>. QED
  BY <1>1, <1>2, EnvironmentType, WebsocketMessageReceivedType, CleanupType,
     QueueTerminatedType
     DEF Next

\* The initial state is typed.
LEMMA InitType == Init => TypeOK
<1>. SUFFICES ASSUME Init PROVE TypeOK
  OBVIOUS
<1>1. subs \in [SubIds -> ServiceSubscription]
  <2>1. NewSub \in ServiceSubscription
    BY DEF NewSub, ServiceSubscription, Status
  <2>. QED
    BY <2>1 DEF Init
<1>2. nextSubId \in 1..(MaxSubId + 1) /\ nextOp \in 1..(MaxOps + 1)
  BY BoundsAssumption DEF Init
<1>3. result \in [OpIds -> Results]
  BY DEF Init, Results
<1>. QED
  BY <1>1, <1>2, <1>3 DEF Init, TypeOK

\* Type correctness: whatever the service answers, in whatever order m_queue
\* runs its callbacks and however often the connection is lost, every call
\* ends, if at all, with an HRESULT of the code, and every map refers to
\* subscriptions that were created.
THEOREM TypeCorrect == Spec => []TypeOK
<1>1. Init => TypeOK
  BY InitType
<1>2. TypeOK /\ [Next]_vars => TypeOK'
  BY NextType
<1>. QED
  BY <1>1, <1>2, PTL DEF Spec

-----------------------------------------------------------------------------
\* Whatever fails or is lost, a connection has exactly one thing that will take
\* it further: an attempt scheduled, an attempt under way, an open socket, or a
\* failure waiting for its handler.  It has none once a Connect has failed
\* before it started, and only then.
THEOREM OneDriverHolds == Spec => []OneDriver
<1>1. Init => OneDriver
  BY DEF Init, OneDriver, Drivers
<1>2. ASSUME TypeOK, OneDriver, [Next]_vars
      PROVE  OneDriver'
  <2>. USE <1>2 DEF OneDriver, Drivers
  <2>0. connectTimers \in Nat
    BY DEF TypeOK
  <2>1. CASE ConnectTimerFires
    BY <2>0, <2>1 DEF ConnectTimerFires
  <2>2. CASE ConnectTimerFails
    BY <2>2 DEF ConnectTimerFails, sockVars
  <2>3. CASE ConnectSucceeded
    BY <2>3 DEF ConnectSucceeded
  <2>4. CASE ConnectFailed
    BY <2>0, <2>4 DEF ConnectFailed, ScheduleConnect
  <2>5. CASE DisconnectHandler
    <3>1. wire = "open" /\ wire' = "closed" /\ ScheduleConnect /\ UNCHANGED completion
      BY <2>5 DEF DisconnectHandler
    <3>. QED
      BY <2>0, <3>1 DEF ScheduleConnect
  <2>6. CASE NetworkConnects
    BY <2>0, <2>6 DEF NetworkConnects, connVars
  <2>7. CASE NetworkRefuses
    BY <2>0, <2>7 DEF NetworkRefuses, connVars
  <2>8. ASSUME UNCHANGED <<connectTimers, wire, completion>>
        PROVE  OneDriver'
    BY <2>8
  <2>9. CASE \E c \in Clients : AddSubscription(c) \/ RemoveUnknown(c) \/ RemoveShared(c) \/ RemoveLast(c)
    <3>1. PICK c \in Clients : AddSubscription(c) \/ RemoveUnknown(c) \/ RemoveShared(c) \/ RemoveLast(c)
      BY Zenon, <2>9
    <3>2. UNCHANGED <<connVars, sockVars>>
      BY Zenon, <3>1 DEF AddSubscription, RemoveUnknown, RemoveShared, RemoveLast
    <3>. QED
      BY <2>8, <3>2 DEF connVars, sockVars
  <2>10. CASE \E m \in Request : SendAssembledMessage(m)
    BY <2>8, <2>10 DEF SendAssembledMessage, connVars
  <2>11. CASE \E i \in SubIds : RetrySubscribe(i)
    BY <2>8, <2>11 DEF RetrySubscribe, connVars, sockVars
  <2>12. CASE \/ \E sid \in ServiceIds : ServiceGrants(sid) \/ ServiceRaisesEvent(sid)
              \/ \E code \in Codes : ServiceDeclines(code)
              \/ \E code \in UnsubscribeCodes : ServiceReleases(code)
    <3>1. \E m : Reply(m)
      BY <2>12 DEF ServiceGrants, ServiceRaisesEvent, ServiceDeclines, ServiceReleases
    <3>. QED
      BY <2>8, <3>1 DEF Reply, connVars
  <2>13. CASE \E k \in 1..Len(inbox) : WebsocketMessageReceived(k)
    BY <2>8, <2>13 DEF WebsocketMessageReceived, connVars, sockVars
  <2>14. CASE Cleanup \/ QueueTerminated
    BY <2>8, <2>14 DEF Cleanup, QueueTerminated, connVars, sockVars
  <2>15. CASE UNCHANGED vars
    BY <2>8, <2>15 DEF vars, connVars, sockVars
  <2>. HIDE DEF OneDriver, Drivers
  <2>. QED
    BY <2>1, <2>2, <2>3, <2>4, <2>5, <2>6, <2>7, <2>9, <2>10, <2>11, <2>12, <2>13, <2>14, <2>15
       DEF Next, Component, Environment
<1>. QED
  BY <1>1, <1>2, TypeCorrect, PTL DEF Spec

-----------------------------------------------------------------------------
\* The statuses of a subscription on its way out.
Leaving == {"PendingUnsubscribe", "Unsubscribing"}

\* A step that leaves the maps and the clients alone, and puts no subscription
\* on its way out, keeps the tracking invariant.
LEMMA SameTracking ==
    ASSUME TypeOK, TrackingInv, UNCHANGED <<byClientId, byUri, nextSubId>>, held' \subseteq held,
           \A i \in byClientId : /\ subs'[i].uri = subs[i].uri
                                 /\ subs'[i].clientSubscriptions = subs[i].clientSubscriptions
                                 /\ subs'[i].status \in Leaving => subs[i].status \in Leaving
    PROVE  TrackingInv'
<1>1. MapsAgree'
  BY DEF TrackingInv, MapsAgree
<1>2. FreshIds'
  BY DEF TrackingInv, FreshIds
<1>3. LeavingIsUnwanted'
  BY DEF TrackingInv, LeavingIsUnwanted, Leaving
<1>4. HeldIsTracked'
  BY DEF TrackingInv, HeldIsTracked
<1>. QED
  BY <1>1, <1>2, <1>3, <1>4 DEF TrackingInv

\* Erasing a subscription nobody holds on to keeps the tracking invariant.
LEMMA EraseTracking ==
    ASSUME TypeOK, TrackingInv, NEW i \in byClientId, EraseSub(i), held' \subseteq held,
           \A c \in held' : byUri[UriOf[c]] # i,
           \A j \in byClientId \ {i} : subs'[j] = subs[j]
    PROVE  TrackingInv'
<1>. USE DEF EraseSub
<1>1. subs[i].uri \in Uris /\ byUri[subs[i].uri] = i
  BY DEF TrackingInv, MapsAgree
<1>2. byUri \in [Uris -> SubIds \union {0}] /\ UriOf \in [Clients -> Uris] /\ held \subseteq Clients
  BY NamesAssumption DEF TypeOK
<1>3. MapsAgree'
  BY <1>1, <1>2 DEF TrackingInv, MapsAgree
<1>4. FreshIds'
  BY DEF TrackingInv, FreshIds
<1>5. LeavingIsUnwanted'
  BY DEF TrackingInv, LeavingIsUnwanted
<1>6. HeldIsTracked'
  <2>1. SUFFICES ASSUME NEW c \in held'
                 PROVE  LET j == byUri'[UriOf[c]]
                        IN  j # 0 /\ j \in byClientId' /\ c \in subs'[j].clientSubscriptions
    BY DEF HeldIsTracked
  <2>2. byUri'[UriOf[c]] = byUri[UriOf[c]]
    BY <1>1, <1>2
  <2>. QED
    BY <2>2 DEF TrackingInv, HeldIsTracked
<1>. QED
  BY <1>3, <1>4, <1>5, <1>6 DEF TrackingInv

\* No client holds on to a subscription that is on its way out.
LEMMA LeavingIsNotHeld ==
    ASSUME TypeOK, TrackingInv, NEW i \in byClientId, subs[i].status \in Leaving
    PROVE  \A c \in held : byUri[UriOf[c]] # i
BY DEF TrackingInv, LeavingIsUnwanted, HeldIsTracked, Leaving

\* AddSubscription makes the subscription tracked, and none of the others less so.
LEMMA AddSubscriptionTracking ==
    ASSUME TypeOK, TrackingInv, NEW c \in Clients, AddSubscription(c)
    PROVE  TrackingInv'
<1>. DEFINE u == UriOf[c]
            i == IF byUri[u] = 0 THEN nextSubId ELSE byUri[u]
<1>1. u \in Uris /\ UriOf \in [Clients -> Uris]
  BY NamesAssumption
<1>2. i \in SubIds
  BY DEF AddSubscription
<1>3. /\ byClientId' = byClientId \union {i}
      /\ byUri' = [byUri EXCEPT ![u] = i]
      /\ nextSubId' = IF byUri[u] = 0 THEN nextSubId + 1 ELSE nextSubId
      /\ held' = held \union {c}
  BY DEF AddSubscription
<1>4. /\ subs \in [SubIds -> ServiceSubscription]
      /\ byUri \in [Uris -> SubIds \union {0}]
      /\ nextSubId \in Nat /\ byClientId \subseteq SubIds /\ held \subseteq Clients
  BY DEF TypeOK
<1>5. subs[i] \in ServiceSubscription
  BY <1>2, <1>4
<1>6. /\ subs'[i].uri = u
      /\ subs'[i].clientSubscriptions = subs[i].clientSubscriptions \union {c}
      /\ subs'[i].status \notin Leaving
      /\ \A j \in SubIds \ {i} : subs'[j] = subs[j]
  <2>. DEFINE sub     == [subs[i] EXCEPT !.uri = u, !.clientSubscriptions = @ \union {c},
                                         !.status = StatusAfterAdd(@)]
              waiting == [sub EXCEPT !.subscribeOps = @ \union {nextOp}]
              joined  == [waiting EXCEPT !.unsubscribeOps = {}]
              new     == {sub, waiting, joined}
  <2>1. \E s \in new : subs' = [subs EXCEPT ![i] = s]
    BY Zenon DEF AddSubscription
  <2>2. StatusAfterAdd(subs[i].status) \notin Leaving
    BY DEF StatusAfterAdd, Leaving
  <2>3. \A s \in new : /\ s.uri = u
                       /\ s.clientSubscriptions = subs[i].clientSubscriptions \union {c}
                       /\ s.status \notin Leaving
    <3>. HIDE DEF i, u
    <3>. QED
      BY <1>5, <2>2 DEF ServiceSubscription
  <2>. HIDE DEF i, new
  <2>. QED
    BY Zenon, <1>2, <1>4, <2>1, <2>3
<1>. HIDE DEF i
<1>7. (byUri[u] = 0 /\ i = nextSubId /\ i \notin byClientId) \/ (byUri[u] # 0 /\ i = byUri[u] /\ i \in byClientId)
  <2>1. \A j \in byClientId : j < nextSubId
    BY DEF TrackingInv, FreshIds
  <2>2. byUri[u] # 0 => byUri[u] \in byClientId
    BY <1>1 DEF TrackingInv, MapsAgree
  <2>. QED
    BY <1>4, <2>1, <2>2 DEF i
<1>. HIDE DEF u
<1>8. MapsAgree'
  <2>1. ASSUME NEW v \in Uris, byUri'[v] # 0
        PROVE  byUri'[v] \in byClientId' /\ subs'[byUri'[v]].uri = v
    <3>1. CASE v = u
      BY <1>1, <1>3, <1>4, <1>6, <3>1
    <3>2. CASE v # u
      <4>1. byUri'[v] = byUri[v] /\ byUri[v] \in byClientId /\ subs[byUri[v]].uri = v
        BY <1>3, <1>4, <2>1, <3>2 DEF TrackingInv, MapsAgree
      <4>2. byUri[v] # i
        BY <1>1, <1>7, <3>2, <4>1 DEF TrackingInv, MapsAgree
      <4>. QED
        BY <1>3, <1>4, <1>6, <4>1, <4>2
    <3>. QED
      BY <3>1, <3>2
  <2>2. ASSUME NEW j \in byClientId'
        PROVE  subs'[j].uri \in Uris /\ byUri'[subs'[j].uri] = j
    <3>1. CASE j = i
      BY <1>1, <1>3, <1>4, <1>6, <3>1
    <3>2. CASE j # i
      <4>1. j \in byClientId /\ subs'[j] = subs[j]
        BY <1>3, <1>4, <1>6, <2>2, <3>2
      <4>2. subs[j].uri \in Uris /\ byUri[subs[j].uri] = j
        BY <4>1 DEF TrackingInv, MapsAgree
      <4>3. subs[j].uri # u
        BY <1>4, <1>7, <3>2, <4>1, <4>2 DEF SubIds
      <4>. QED
        BY <1>3, <1>4, <4>1, <4>2, <4>3
    <3>. QED
      BY <3>1, <3>2
  <2>. QED
    BY <2>1, <2>2 DEF MapsAgree
<1>9. FreshIds'
  <2>1. \A j \in byClientId : j < nextSubId /\ j \in Nat
    BY <1>4 DEF TrackingInv, FreshIds, SubIds
  <2>. QED
    BY <1>3, <1>4, <1>7, <2>1 DEF FreshIds
<1>10. LeavingIsUnwanted'
  BY <1>3, <1>4, <1>6 DEF TrackingInv, LeavingIsUnwanted, Leaving
<1>11. HeldIsTracked'
  <2>1. SUFFICES ASSUME NEW d \in held'
                 PROVE  LET j == byUri'[UriOf[d]]
                        IN  j # 0 /\ j \in byClientId' /\ d \in subs'[j].clientSubscriptions
    BY DEF HeldIsTracked
  <2>2. i # 0
    BY <1>2 DEF SubIds
  <2>3. CASE d = c
    BY <1>1, <1>3, <1>4, <1>6, <2>2, <2>3 DEF u
  <2>4. CASE d # c
    <3>1. d \in held /\ UriOf[d] \in Uris
      BY <1>1, <1>3, <1>4, <2>4
    <3>2. /\ byUri[UriOf[d]] # 0 /\ byUri[UriOf[d]] \in byClientId
          /\ d \in subs[byUri[UriOf[d]]].clientSubscriptions
      BY <3>1 DEF TrackingInv, HeldIsTracked
    <3>3. byUri'[UriOf[d]] = byUri[UriOf[d]]
      BY <1>1, <1>3, <1>4, <1>7, <3>1, <3>2
    <3>4. subs'[byUri[UriOf[d]]].clientSubscriptions
            \in {subs[byUri[UriOf[d]]].clientSubscriptions,
                 subs[byUri[UriOf[d]]].clientSubscriptions \union {c}}
      BY <1>4, <1>6, <3>2
    <3>. QED
      BY <1>3, <3>2, <3>3, <3>4
  <2>. QED
    BY <2>3, <2>4
<1>. QED
  BY <1>8, <1>9, <1>10, <1>11 DEF TrackingInv

\* A removal that leaves another client keeps the subscription.
LEMMA RemoveSharedTracking ==
    ASSUME TypeOK, TrackingInv, NEW c \in Clients, RemoveShared(c)
    PROVE  TrackingInv'
<1>. DEFINE i == byUri[UriOf[c]]
<1>1. /\ i \in SubIds /\ subs \in [SubIds -> ServiceSubscription]
      /\ byUri \in [Uris -> SubIds \union {0}]
      /\ UriOf \in [Clients -> Uris] /\ held \subseteq Clients /\ byClientId \subseteq SubIds
  BY NamesAssumption DEF TypeOK, RemoveShared
<1>2. /\ UNCHANGED mapVars
      /\ held' = held \ {c}
      /\ subs[i].clientSubscriptions \ {c} # {}
      /\ subs' = [subs EXCEPT ![i] = [subs[i] EXCEPT !.clientSubscriptions = @ \ {c}]]
  <2>1. [subs[i] EXCEPT !.clientSubscriptions = @ \ {c}].clientSubscriptions
            = subs[i].clientSubscriptions \ {c}
    <3>. HIDE DEF i
    <3>. QED  BY <1>1 DEF ServiceSubscription
  <2>. QED
    BY <2>1 DEF RemoveShared
<1>. HIDE DEF i
<1>3. \A j \in SubIds :
         /\ subs'[j].uri = subs[j].uri
         /\ subs'[j].status = subs[j].status
         /\ subs'[j].clientSubscriptions = IF j = i THEN subs[i].clientSubscriptions \ {c}
                                                    ELSE subs[j].clientSubscriptions
  BY <1>1, <1>2 DEF ServiceSubscription
<1>4. MapsAgree'
  BY <1>1, <1>2, <1>3 DEF TrackingInv, MapsAgree, mapVars
<1>5. FreshIds'
  BY <1>2 DEF TrackingInv, FreshIds, mapVars
<1>6. LeavingIsUnwanted'
  BY <1>1, <1>2, <1>3 DEF TrackingInv, LeavingIsUnwanted, mapVars
<1>7. HeldIsTracked'
  <2>1. SUFFICES ASSUME NEW d \in held'
                 PROVE  LET j == byUri'[UriOf[d]]
                        IN  j # 0 /\ j \in byClientId' /\ d \in subs'[j].clientSubscriptions
    BY DEF HeldIsTracked
  <2>2. /\ byUri[UriOf[d]] # 0 /\ byUri[UriOf[d]] \in byClientId
        /\ d \in subs[byUri[UriOf[d]]].clientSubscriptions
    BY <1>2 DEF TrackingInv, HeldIsTracked
  <2>. QED
    BY <1>1, <1>2, <1>3, <2>2 DEF mapVars
<1>. QED
  BY <1>4, <1>5, <1>6, <1>7 DEF TrackingInv

\* The last removal erases or dooms a subscription nobody else holds.
LEMMA RemoveLastTracking ==
    ASSUME TypeOK, TrackingInv, NEW c \in Clients, RemoveLast(c)
    PROVE  TrackingInv'
<1>. DEFINE i       == byUri[UriOf[c]]
            sub     == [subs[i] EXCEPT !.clientSubscriptions = @ \ {c},
                                       !.status = StatusAfterRemove(@)]
            waiting == [sub EXCEPT !.unsubscribeOps = @ \union {nextOp}]
            left    == [waiting EXCEPT !.subscribeOps = {}]
<1>1. /\ i \in SubIds /\ subs \in [SubIds -> ServiceSubscription]
      /\ byUri \in [Uris -> SubIds \union {0}]
      /\ UriOf \in [Clients -> Uris] /\ held \subseteq Clients /\ byClientId \subseteq SubIds
  BY NamesAssumption DEF TypeOK, RemoveLast
<1>2. subs[i] \in ServiceSubscription
  BY <1>1
<1>3. i \in byClientId
  BY <1>1 DEF RemoveLast, TrackingInv, MapsAgree
<1>4. held' = held \ {c} /\ subs[i].clientSubscriptions \ {c} = {}
  <2>1. sub.clientSubscriptions = subs[i].clientSubscriptions \ {c}
    <3>. HIDE DEF i
    <3>. QED  BY <1>2 DEF ServiceSubscription
  <2>. QED
    BY <2>1 DEF RemoveLast
<1>5. \A d \in held' : byUri[UriOf[d]] # i
  <2>. HIDE DEF i
  <2>. QED
    BY <1>4 DEF TrackingInv, HeldIsTracked
<1>6. \/ EraseSub(i) /\ subs' = [subs EXCEPT ![i] = WithoutOps(sub)]
      \/ UNCHANGED mapVars /\ \E s \in {waiting, left} : subs' = [subs EXCEPT ![i] = s]
  BY DEF RemoveLast
<1>7. CASE EraseSub(i) /\ subs' = [subs EXCEPT ![i] = WithoutOps(sub)]
  <2>. HIDE DEF i, sub
  <2>. QED
    BY <1>1, <1>3, <1>4, <1>5, <1>7, EraseTracking
<1>8. CASE UNCHANGED mapVars /\ \E s \in {waiting, left} : subs' = [subs EXCEPT ![i] = s]
  <2>1. \A s \in {waiting, left} : s.uri = subs[i].uri /\ s.clientSubscriptions = {}
    <3>. HIDE DEF i
    <3>. QED  BY <1>2, <1>4 DEF ServiceSubscription
  <2>. DEFINE new == {waiting, left}
  <2>2. PICK s \in new : subs' = [subs EXCEPT ![i] = s]
    BY <1>8
  <2>3. s.uri = subs[i].uri /\ s.clientSubscriptions = {}
    BY <2>1
  <2>. HIDE DEF i, new
  <2>4. subs'[i] = s /\ \A j \in SubIds \ {i} : subs'[j] = subs[j]
    BY <1>1, <2>2
  <2>5. MapsAgree'
    BY <1>1, <1>8, <2>3, <2>4 DEF TrackingInv, MapsAgree, mapVars
  <2>6. FreshIds'
    BY <1>8 DEF TrackingInv, FreshIds, mapVars
  <2>7. LeavingIsUnwanted'
    BY <1>1, <1>8, <2>3, <2>4 DEF TrackingInv, LeavingIsUnwanted, mapVars
  <2>8. HeldIsTracked'
    BY <1>1, <1>4, <1>5, <1>8, <2>4 DEF TrackingInv, HeldIsTracked, mapVars
  <2>. QED
    BY <2>5, <2>6, <2>7, <2>8 DEF TrackingInv
<1>. QED
  BY <1>6, <1>7, <1>8

\* DisconnectHandler erases only what is on its way out, which nobody holds.
LEMMA DisconnectHandlerTracking ==
    ASSUME TypeOK, TrackingInv, DisconnectHandler
    PROVE  TrackingInv'
<1>. DEFINE removed == {i \in byClientId : subs[i].status \in Leaving}
<1>1. /\ byClientId' = byClientId \ removed
      /\ byUri' = [u \in Uris |-> IF \E i \in removed : subs[i].uri = u THEN 0 ELSE byUri[u]]
      /\ subs' = [i \in SubIds |-> IF i \in byClientId THEN Disconnected(subs[i]) ELSE subs[i]]
      /\ UNCHANGED <<nextSubId, held>>
  BY DEF DisconnectHandler, Leaving
<1>2. /\ subs \in [SubIds -> ServiceSubscription] /\ byClientId \subseteq SubIds
      /\ byUri \in [Uris -> SubIds \union {0}]
      /\ UriOf \in [Clients -> Uris] /\ held \subseteq Clients
  BY NamesAssumption DEF TypeOK
<1>3. \A i \in byClientId : /\ subs'[i].uri = subs[i].uri
                            /\ subs'[i].clientSubscriptions = subs[i].clientSubscriptions
                            /\ subs'[i].status \notin Leaving
  <2>1. ASSUME NEW s \in ServiceSubscription
        PROVE  /\ Disconnected(s).uri = s.uri
               /\ Disconnected(s).clientSubscriptions = s.clientSubscriptions
               /\ Disconnected(s).status \notin Leaving
    BY DEF ServiceSubscription, Disconnected, Leaving
  <2>. QED
    BY <1>1, <1>2, <2>1
<1>4. \A i \in byClientId : subs[i].uri \in Uris /\ byUri[subs[i].uri] = i
  BY DEF TrackingInv, MapsAgree
<1>5. \A u \in Uris : byUri[u] \in removed => byUri'[u] = 0
  <2>1. ASSUME NEW u \in Uris, byUri[u] \in removed
        PROVE  byUri'[u] = 0
    <3>1. byUri[u] # 0
      BY <1>2, <2>1 DEF SubIds
    <3>2. subs[byUri[u]].uri = u
      BY <3>1 DEF TrackingInv, MapsAgree
    <3>. HIDE DEF removed
    <3>. QED
      BY <1>1, <2>1, <3>2
  <2>. QED
    BY <2>1
<1>6. \A u \in Uris : byUri[u] \notin removed => byUri'[u] = byUri[u]
  BY <1>1, <1>4
<1>7. MapsAgree'
  <2>1. ASSUME NEW u \in Uris, byUri'[u] # 0
        PROVE  byUri'[u] \in byClientId' /\ subs'[byUri'[u]].uri = u
    <3>1. byUri[u] \notin removed /\ byUri'[u] = byUri[u]
      BY <1>5, <1>6, <2>1
    <3>2. byUri[u] \in byClientId /\ subs[byUri[u]].uri = u
      BY <2>1, <3>1 DEF TrackingInv, MapsAgree
    <3>. HIDE DEF removed
    <3>. QED
      BY <1>1, <1>3, <3>1, <3>2
  <2>2. ASSUME NEW i \in byClientId'
        PROVE  subs'[i].uri \in Uris /\ byUri'[subs'[i].uri] = i
    <3>. HIDE DEF removed
    <3>. QED
      BY ZenonT(30), <1>1, <1>3, <1>4, <1>6, <2>2
  <2>. QED
    BY <2>1, <2>2 DEF MapsAgree
<1>8. FreshIds'
  BY <1>1 DEF TrackingInv, FreshIds
<1>9. LeavingIsUnwanted'
  BY <1>1, <1>3 DEF TrackingInv, LeavingIsUnwanted, Leaving
<1>10. HeldIsTracked'
  <2>1. SUFFICES ASSUME NEW c \in held
                 PROVE  LET j == byUri'[UriOf[c]]
                        IN  j # 0 /\ j \in byClientId' /\ c \in subs'[j].clientSubscriptions
    BY <1>1 DEF HeldIsTracked
  <2>2. /\ byUri[UriOf[c]] # 0 /\ byUri[UriOf[c]] \in byClientId
        /\ c \in subs[byUri[UriOf[c]]].clientSubscriptions
    BY DEF TrackingInv, HeldIsTracked
  <2>3. byUri[UriOf[c]] \notin removed
    BY LeavingIsNotHeld
  <2>. HIDE DEF removed
  <2>. QED
    BY <1>1, <1>2, <1>3, <1>6, <2>2, <2>3
<1>. QED
  BY <1>7, <1>8, <1>9, <1>10 DEF TrackingInv

\* A response erases only a subscription nobody holds, and dooms none that is held.
LEMMA ResponseTracking ==
    ASSUME TypeOK, TrackingInv, NEW m \in Message, UNCHANGED held,
           SubscribeSucceeded(m) \/ SubscribeThrottled(m) \/ UnsubscribeResponse(m)
    PROVE  TrackingInv'
<1>. DEFINE i == m.clientId
<1>1. i \in byClientId /\ byClientId \subseteq SubIds /\ subs \in [SubIds -> ServiceSubscription]
  BY DEF SubscribeSucceeded, SubscribeThrottled, UnsubscribeResponse, TypeOK
<1>2. subs[i] \in ServiceSubscription
  BY <1>1
<1>3. ASSUME EraseSub(i), subs[i].status \in Leaving, NEW s, subs' = [subs EXCEPT ![i] = s]
      PROVE  TrackingInv'
  <2>1. \A c \in held' : byUri[UriOf[c]] # i
    BY <1>1, <1>3, LeavingIsNotHeld
  <2>. HIDE DEF i
  <2>. QED
    BY <1>1, <1>3, <2>1, EraseTracking
<1>4. ASSUME UNCHANGED mapVars, NEW s, subs' = [subs EXCEPT ![i] = s],
             s.uri = subs[i].uri, s.clientSubscriptions = subs[i].clientSubscriptions,
             s.status \in Leaving => subs[i].status \in Leaving
      PROVE  TrackingInv'
  <2>. HIDE DEF i
  <2>1. \A j \in byClientId : subs'[j] = IF j = i THEN s ELSE subs[j]
    BY <1>1, <1>4
  <2>. QED
    BY <1>4, <2>1, SameTracking DEF mapVars
<1>5. CASE SubscribeSucceeded(m)
  <2>. DEFINE sub == [subs[i] EXCEPT !.serviceId = m.serviceId, !.subscribeOps = {}]
              active == [sub EXCEPT !.status = "Active"]
              leaving == [sub EXCEPT !.status = "Unsubscribing"]
  <2>1. /\ UNCHANGED mapVars
        /\ \/ subs' = [subs EXCEPT ![i] = active]
           \/ sub.status \in Leaving /\ subs' = [subs EXCEPT ![i] = leaving]
           \/ subs' = [subs EXCEPT ![i] = sub]
    BY <1>5 DEF SubscribeSucceeded, Leaving
  <2>2. \A s \in {active, leaving, sub} :
            s.uri = subs[i].uri /\ s.clientSubscriptions = subs[i].clientSubscriptions
    <3>. HIDE DEF i
    <3>. QED  BY <1>2 DEF ServiceSubscription
  <2>3. active.status = "Active" /\ sub.status = subs[i].status
    <3>. HIDE DEF i
    <3>. QED  BY <1>2 DEF ServiceSubscription
  <2>. HIDE DEF i, sub, active, leaving
  <2>. QED
    BY <1>4, <2>1, <2>2, <2>3 DEF Leaving
<1>6. CASE SubscribeThrottled(m)
  <2>. DEFINE sub == [subs[i] EXCEPT !.status = "Inactive"]
  <2>1. \/ UNCHANGED mapVars /\ subs' = [subs EXCEPT ![i] = sub]
        \/ /\ EraseSub(i) /\ subs[i].status \in Leaving
           /\ subs' = [subs EXCEPT ![i] = WithoutOps(sub)]
    BY <1>6 DEF SubscribeThrottled, Leaving
  <2>2. /\ sub.uri = subs[i].uri /\ sub.clientSubscriptions = subs[i].clientSubscriptions
        /\ sub.status = "Inactive"
    <3>. HIDE DEF i
    <3>. QED  BY <1>2 DEF ServiceSubscription
  <2>. HIDE DEF i, sub
  <2>. QED
    BY <1>3, <1>4, <2>1, <2>2 DEF Leaving
<1>7. CASE UnsubscribeResponse(m)
  <2>. DEFINE sub == [subs[i] EXCEPT !.serviceId = 0, !.unsubscribeOps = {}]
              gone == [sub EXCEPT !.status = "Inactive"]
              again == [sub EXCEPT !.status = "Subscribing"]
  <2>1. \/ EraseSub(i) /\ sub.status \in Leaving /\ subs' = [subs EXCEPT ![i] = gone]
        \/ UNCHANGED mapVars /\ subs' = [subs EXCEPT ![i] = again]
        \/ UNCHANGED mapVars /\ subs' = [subs EXCEPT ![i] = sub]
    BY <1>7 DEF UnsubscribeResponse, Leaving
  <2>2. \A s \in {again, sub} :
            s.uri = subs[i].uri /\ s.clientSubscriptions = subs[i].clientSubscriptions
    <3>. HIDE DEF i
    <3>. QED  BY <1>2 DEF ServiceSubscription
  <2>3. again.status = "Subscribing" /\ sub.status = subs[i].status
    <3>. HIDE DEF i
    <3>. QED  BY <1>2 DEF ServiceSubscription
  <2>. HIDE DEF i, sub, gone, again
  <2>. QED
    BY <1>3, <1>4, <2>1, <2>2, <2>3 DEF Leaving
<1>. QED
  BY <1>5, <1>6, <1>7

\* Every step keeps the tracking invariant.
LEMMA NextTracking ==
    ASSUME TypeOK, TrackingInv, [Next]_vars
    PROVE  TrackingInv'
<1>1. ASSUME UNCHANGED <<subs, mapVars, held>>
      PROVE  TrackingInv'
  BY <1>1, SameTracking DEF mapVars
<1>2. CASE \E c \in Clients : RemoveUnknown(c)
  BY <1>2, SameTracking DEF RemoveUnknown, mapVars
<1>3. CASE \E m \in Request : SendAssembledMessage(m)
  BY <1>1, <1>3 DEF SendAssembledMessage, opVars
<1>4. CASE \E i \in SubIds : RetrySubscribe(i)
  <2>1. PICK i \in SubIds : RetrySubscribe(i)
    BY <1>4
  <2>2. /\ UNCHANGED <<mapVars, held>>
        /\ UNCHANGED subs \/ subs' = [subs EXCEPT ![i] = [subs[i] EXCEPT !.status = "Subscribing"]]
    BY <2>1 DEF RetrySubscribe, opVars
  <2>3. subs \in [SubIds -> ServiceSubscription] /\ byClientId \subseteq SubIds
    BY DEF TypeOK
  <2>4. \A j \in byClientId : /\ subs'[j].uri = subs[j].uri
                              /\ subs'[j].clientSubscriptions = subs[j].clientSubscriptions
                              /\ subs'[j].status \in Leaving => subs[j].status \in Leaving
    BY <2>2, <2>3 DEF ServiceSubscription, Leaving
  <2>. QED
    BY <2>2, <2>4, SameTracking DEF mapVars
<1>5. CASE ConnectTimerFires \/ ConnectTimerFails \/ ConnectFailed
  BY <1>1, <1>5 DEF ConnectTimerFires, ConnectTimerFails, ConnectFailed, opVars
<1>6. CASE ConnectSucceeded
  <2>1. /\ UNCHANGED <<mapVars, held>>
        /\ subs' = [i \in SubIds |-> IF i \in byClientId
                                     THEN [subs[i] EXCEPT !.status = "Subscribing"]
                                     ELSE subs[i]]
    BY <1>6 DEF ConnectSucceeded, opVars
  <2>2. subs \in [SubIds -> ServiceSubscription] /\ byClientId \subseteq SubIds
    BY DEF TypeOK
  <2>3. \A j \in byClientId : /\ subs'[j].uri = subs[j].uri
                              /\ subs'[j].clientSubscriptions = subs[j].clientSubscriptions
                              /\ subs'[j].status = "Subscribing"
    BY <2>1, <2>2 DEF ServiceSubscription
  <2>. QED
    BY <2>1, <2>3, SameTracking DEF mapVars, Leaving
<1>7. CASE Environment
  BY <1>1, <1>7 DEF Environment, NetworkConnects, NetworkRefuses, ServiceGrants, ServiceDeclines,
     ServiceReleases, ServiceRaisesEvent, Reply, opVars
<1>8. CASE \E k \in 1..Len(inbox) : WebsocketMessageReceived(k)
  <2>1. PICK k \in 1..Len(inbox) : WebsocketMessageReceived(k)
    BY <1>8
  <2>2. inbox[k] \in Message
    BY MessageType DEF TypeOK
  <2>3. CASE IgnoreResponse(inbox[k]) \/ SubscribeDenied(inbox[k]) \/ EventHandler(inbox[k])
    BY <1>1, <2>1, <2>3 DEF IgnoreResponse, SubscribeDenied, EventHandler, WebsocketMessageReceived
  <2>. QED
    BY <2>1, <2>2, <2>3, ResponseTracking DEF WebsocketMessageReceived
<1>9. CASE Cleanup
  <2>1. /\ UNCHANGED <<mapVars, held>>
        /\ subs' = [i \in SubIds |-> IF i \in byClientId THEN WithoutOps(subs[i]) ELSE subs[i]]
    BY <1>9 DEF Cleanup, opVars
  <2>2. subs \in [SubIds -> ServiceSubscription] /\ byClientId \subseteq SubIds
    BY DEF TypeOK
  <2>3. \A j \in byClientId : /\ subs'[j].uri = subs[j].uri
                              /\ subs'[j].clientSubscriptions = subs[j].clientSubscriptions
                              /\ subs'[j].status = subs[j].status
    BY <2>1, <2>2 DEF ServiceSubscription, WithoutOps
  <2>. QED
    BY <2>1, <2>3, SameTracking DEF mapVars
<1>10. CASE QueueTerminated
  BY <1>1, <1>10 DEF QueueTerminated
<1>11. CASE UNCHANGED vars
  BY <1>1, <1>11 DEF vars, opVars
<1>. QED
  BY <1>2, <1>3, <1>4, <1>5, <1>6, <1>7, <1>8, <1>9, <1>10, <1>11,
     AddSubscriptionTracking, RemoveSharedTracking, RemoveLastTracking, DisconnectHandlerTracking
     DEF Next, Component

\* The initial state has the tracking invariant.
LEMMA InitTracking == Init => TrackingInv
BY DEF Init, TrackingInv, MapsAgree, FreshIds, LeavingIsUnwanted, HeldIsTracked

\* The invariant behind the two theorems below.
THEOREM Tracking == Spec => []TrackingInv
<1>1. Init => TrackingInv
  BY InitTracking
<1>2. TypeOK /\ TrackingInv /\ [Next]_vars => TrackingInv'
  BY NextTracking
<1>. QED
  BY <1>1, <1>2, TypeCorrect, PTL DEF Spec

\* m_subsByUri and m_subsByClientId always describe the same subscriptions.
THEOREM MapsAlwaysAgree == Spec => []MapsAgree
<1>1. TrackingInv => MapsAgree
  BY DEF TrackingInv
<1>. QED
  BY <1>1, Tracking, PTL

\* No subscription that a client holds on to is ever dropped by a throttle, a
\* disconnect, a late response or another client's removal.
THEOREM HeldAlwaysTracked == Spec => []HeldIsTracked
<1>1. TrackingInv => HeldIsTracked
  BY DEF TrackingInv
<1>. QED
  BY <1>1, Tracking, PTL

\* A subscription that a client wants is never on its way out.
THEOREM LeavingAlwaysUnwanted == Spec => []LeavingIsUnwanted
<1>1. TrackingInv => LeavingIsUnwanted
  BY DEF TrackingInv
<1>. QED
  BY <1>1, Tracking, PTL

-----------------------------------------------------------------------------
\* What a call's AsyncContext can be completed with.
Outcomes == Results \ {"none", "pending"}

\* Completing a set of calls changes these calls only.
LEMMA CompletedAt ==
    ASSUME NEW res, NEW ops, NEW r, NEW o \in OpIds
    PROVE  Completed(res, ops, r)[o] = IF o \in ops THEN r ELSE res[o]
BY DEF Completed

\* The calls in a subscription's lists, after an update of one subscription.
LEMMA ListedAt ==
    ASSUME NEW i
    PROVE  /\ Listed(i) = subs[i].subscribeOps \union subs[i].unsubscribeOps
           /\ Listed(i)' = subs'[i].subscribeOps \union subs'[i].unsubscribeOps
BY DEF Listed

\* The call o is completed by this step, out of the lists of a subscription it
\* is no longer in.
CompletesListed(o) ==
    /\ result'[o] \in Outcomes
    /\ \E i \in byClientId : o \in Listed(i)
    /\ \A i \in byClientId' : o \notin Listed(i)'

\* A step of the connection, not of a client: it completes listed calls only,
\* and lists no call anew.
SettlesListed ==
    /\ UNCHANGED <<nextOp, nextSubId, aborting>>
    /\ byClientId' \subseteq byClientId
    /\ \A i \in SubIds \ byClientId : subs'[i] = subs[i]
    /\ \A i \in byClientId' : /\ subs'[i].subscribeOps \subseteq subs[i].subscribeOps
                              /\ subs'[i].unsubscribeOps \subseteq subs[i].unsubscribeOps
    /\ \A o \in OpIds : result'[o] # result[o] => CompletesListed(o)

\* Such a step keeps the waiting invariant of a live connection.
LEMMA SettlingWaiting ==
    ASSUME TypeOK, TypeOK', WaitingInv, FreshIds, phase = "live", phase' \in {"live", "crashed"},
           SettlesListed
    PROVE  WaitingInv'
<1>. USE DEF SettlesListed
<1>1. /\ nextOp \in Nat /\ nextSubId \in Nat /\ byClientId \subseteq SubIds
      /\ \A i \in SubIds : Listed(i) \subseteq OpIds
  <2>1. \A i \in SubIds : subs[i] \in ServiceSubscription
    BY DEF TypeOK
  <2>2. \A i \in SubIds : Listed(i) \subseteq OpIds
    BY <2>1, ListedAt, SubFields
  <2>. QED
    BY <2>2 DEF TypeOK
<1>2. \A i \in byClientId' : Listed(i)' \subseteq Listed(i)
  BY ListedAt
<1>3. aborting = {} /\ aborting' = {}
  BY DEF WaitingInv, AbortsWhenCleaned
<1>4. \A i \in byClientId : \A o \in Listed(i) : result[o] = "pending"
  BY DEF WaitingInv, WaitsOnce
<1>5. WaitsOnce'
  <2>1. ASSUME NEW i \in byClientId', NEW o \in Listed(i)'
        PROVE  result'[o] = "pending"
    <3>1. i \in byClientId /\ o \in Listed(i) /\ o \in OpIds
      BY <1>1, <1>2, <2>1
    <3>2. ~CompletesListed(o)
      BY <2>1 DEF CompletesListed
    <3>. QED
      BY <1>4, <3>1, <3>2
  <2>2. \A i, j \in byClientId' : i # j => Listed(i)' \intersect Listed(j)' = {}
    BY <1>2 DEF WaitingInv, WaitsOnce
  <2>3. \A i \in byClientId' : subs'[i].subscribeOps \intersect subs'[i].unsubscribeOps = {}
    BY DEF WaitingInv, WaitsOnce
  <2>. QED
    BY <1>3, <2>1, <2>2, <2>3 DEF WaitsOnce
<1>6. FreshCalls'
  <2>1. ASSUME NEW o \in OpIds, o >= nextOp
        PROVE  result'[o] = "none"
    <3>1. result[o] = "none"
      BY <2>1 DEF WaitingInv, FreshCalls
    <3>2. ~CompletesListed(o)
      BY <1>4, <3>1 DEF CompletesListed
    <3>. QED
      BY <3>1, <3>2
  <2>2. ASSUME NEW i \in SubIds, i >= nextSubId
        PROVE  Listed(i)' = {}
    <3>1. i \notin byClientId
      BY <1>1, <2>2 DEF FreshIds, SubIds
    <3>2. subs'[i] = subs[i] /\ Listed(i) = {}
      BY <2>2, <3>1 DEF WaitingInv, FreshCalls
    <3>. QED
      BY <3>2, ListedAt
  <2>. QED
    BY <2>1, <2>2 DEF FreshCalls
<1>7. AbortsWhenCleaned'
  BY <1>3 DEF AbortsWhenCleaned
<1>. QED
  BY <1>5, <1>6, <1>7 DEF WaitingInv

\* A step that leaves the calls and their lists alone is such a step.
LEMMA SameListsSettles ==
    ASSUME TypeOK, UNCHANGED <<mapVars, result, nextOp, aborting>>,
           \A i \in SubIds \ byClientId : subs'[i] = subs[i],
           \A i \in byClientId : /\ subs'[i].subscribeOps = subs[i].subscribeOps
                                 /\ subs'[i].unsubscribeOps = subs[i].unsubscribeOps
    PROVE  SettlesListed
BY DEF SettlesListed, mapVars

\* A response completes calls of the subscription it is about, and takes
\* what it completes out of the lists.
LEMMA ResponseSettles ==
    ASSUME TypeOK, WaitsOnce, NEW m \in Message, UNCHANGED <<nextOp, aborting>>,
           SubscribeSucceeded(m) \/ SubscribeThrottled(m) \/ UnsubscribeResponse(m)
    PROVE  SettlesListed
<1>. DEFINE i == m.clientId
<1>1. /\ i \in byClientId /\ byClientId \subseteq SubIds
      /\ subs \in [SubIds -> ServiceSubscription] /\ result \in [OpIds -> Results]
  BY DEF SubscribeSucceeded, SubscribeThrottled, UnsubscribeResponse, TypeOK
<1>2. subs[i] \in ServiceSubscription /\ subs[i].subscribeOps \intersect subs[i].unsubscribeOps = {}
  BY <1>1 DEF WaitsOnce
<1>3. \A j \in byClientId : i # j => Listed(i) \intersect Listed(j) = {}
  BY <1>1 DEF WaitsOnce
<1>4. Listed(i) = subs[i].subscribeOps \union subs[i].unsubscribeOps
  BY ListedAt
<1>. HIDE DEF i
<1>5. ASSUME NEW s, subs' = [subs EXCEPT ![i] = s],
             s.subscribeOps \subseteq subs[i].subscribeOps,
             s.unsubscribeOps \subseteq subs[i].unsubscribeOps,
             byClientId' \subseteq byClientId, UNCHANGED nextSubId,
             \A o \in OpIds : result'[o] # result[o] =>
                 /\ result'[o] \in Outcomes
                 /\ o \in Listed(i)
                 /\ i \in byClientId' => o \notin s.subscribeOps \union s.unsubscribeOps
      PROVE  SettlesListed
  <2>1. subs'[i] = s /\ \A j \in SubIds \ {i} : subs'[j] = subs[j]
    BY <1>1, <1>5
  <2>2. Listed(i)' = s.subscribeOps \union s.unsubscribeOps
    BY <2>1, ListedAt
  <2>3. \A j \in byClientId' : j # i => Listed(j)' = Listed(j)
    BY <1>1, <1>5, <2>1, ListedAt
  <2>4. ASSUME NEW o \in OpIds, result'[o] # result[o]
        PROVE  CompletesListed(o)
    <3>1. result'[o] \in Outcomes /\ o \in Listed(i) /\ (i \in byClientId' => o \notin Listed(i)')
      BY <1>5, <2>2, <2>4
    <3>2. \A j \in byClientId' : o \notin Listed(j)'
      BY <1>3, <1>5, <2>3, <3>1
    <3>. QED
      BY <1>1, <3>1, <3>2 DEF CompletesListed
  <2>5. \A j \in byClientId' : /\ subs'[j].subscribeOps \subseteq subs[j].subscribeOps
                               /\ subs'[j].unsubscribeOps \subseteq subs[j].unsubscribeOps
    BY <1>1, <1>5, <2>1
  <2>. QED
    BY <1>1, <1>5, <2>1, <2>4, <2>5 DEF SettlesListed
<1>6. ASSUME UNCHANGED mapVars \/ EraseSub(i)
      PROVE  byClientId' \subseteq byClientId /\ UNCHANGED nextSubId
  BY <1>6 DEF mapVars, EraseSub
<1>7. CASE SubscribeSucceeded(m)
  <2>. DEFINE sub == [subs[i] EXCEPT !.serviceId = m.serviceId, !.subscribeOps = {}]
  <2>1. \E s : /\ subs' = [subs EXCEPT ![i] = s]
               /\ s.subscribeOps = {} /\ s.unsubscribeOps = subs[i].unsubscribeOps
    <3>1. \/ subs' = [subs EXCEPT ![i] = [sub EXCEPT !.status = "Active"]]
          \/ subs' = [subs EXCEPT ![i] = [sub EXCEPT !.status = "Unsubscribing"]]
          \/ subs' = [subs EXCEPT ![i] = sub]
      BY <1>7 DEF SubscribeSucceeded, i
    <3>2. \A s \in {sub, [sub EXCEPT !.status = "Active"], [sub EXCEPT !.status = "Unsubscribing"]} :
              s.subscribeOps = {} /\ s.unsubscribeOps = subs[i].unsubscribeOps
      BY <1>2 DEF ServiceSubscription
    <3>. HIDE DEF sub
    <3>. QED
      BY <3>1, <3>2
  <2>2. /\ UNCHANGED mapVars
        /\ result' = Completed(result, subs[i].subscribeOps, "S_OK")
    BY <1>7 DEF SubscribeSucceeded, i
  <2>3. \A o \in OpIds : result'[o] # result[o] => result'[o] \in Outcomes /\ o \in subs[i].subscribeOps
    BY <2>2, CompletedAt DEF Outcomes, Results
  <2>. QED
    BY <1>2, <1>4, <1>5, <1>6, <2>1, <2>2, <2>3
<1>8. CASE SubscribeThrottled(m)
  <2>. DEFINE sub == [subs[i] EXCEPT !.status = "Inactive"]
  <2>1. /\ sub.subscribeOps = subs[i].subscribeOps /\ sub.unsubscribeOps = subs[i].unsubscribeOps
        /\ WithoutOps(sub).subscribeOps = {} /\ WithoutOps(sub).unsubscribeOps = {}
    BY <1>2 DEF ServiceSubscription, WithoutOps
  <2>2. \/ UNCHANGED <<mapVars, result>> /\ subs' = [subs EXCEPT ![i] = sub]
        \/ /\ EraseSub(i) /\ subs' = [subs EXCEPT ![i] = WithoutOps(sub)]
           /\ result' = Completed(Completed(result, sub.subscribeOps, ConvertRTAErrorCode("Throttled")),
                                  sub.unsubscribeOps, "S_OK")
    BY <1>8 DEF SubscribeThrottled, i
  <2>3. ConvertRTAErrorCode("Throttled") \in Outcomes /\ "S_OK" \in Outcomes
    BY DEF ConvertRTAErrorCode, Outcomes, Results
  <2>. HIDE DEF sub
  <2>4. CASE UNCHANGED <<mapVars, result>> /\ subs' = [subs EXCEPT ![i] = sub]
    BY <1>5, <1>6, <2>1, <2>4
  <2>5. CASE EraseSub(i) /\ subs' = [subs EXCEPT ![i] = WithoutOps(sub)]
             /\ result' = Completed(Completed(result, sub.subscribeOps, ConvertRTAErrorCode("Throttled")),
                                    sub.unsubscribeOps, "S_OK")
    <3>1. \A o \in OpIds : result'[o] # result[o] => result'[o] \in Outcomes /\ o \in Listed(i)
      BY <1>4, <2>1, <2>3, <2>5, CompletedAt
    <3>. HIDE DEF Outcomes
    <3>. QED
      BY <1>5, <1>6, <2>1, <2>5, <3>1
  <2>. QED
    BY <2>2, <2>4, <2>5
<1>9. CASE UnsubscribeResponse(m)
  <2>. DEFINE sub == [subs[i] EXCEPT !.serviceId = 0, !.unsubscribeOps = {}]
  <2>1. \E s : /\ subs' = [subs EXCEPT ![i] = s]
               /\ s.unsubscribeOps = {} /\ s.subscribeOps = subs[i].subscribeOps
    <3>1. \/ subs' = [subs EXCEPT ![i] = [sub EXCEPT !.status = "Inactive"]]
          \/ subs' = [subs EXCEPT ![i] = [sub EXCEPT !.status = "Subscribing"]]
          \/ subs' = [subs EXCEPT ![i] = sub]
      BY <1>9 DEF UnsubscribeResponse, i
    <3>2. \A s \in {sub, [sub EXCEPT !.status = "Inactive"], [sub EXCEPT !.status = "Subscribing"]} :
              s.unsubscribeOps = {} /\ s.subscribeOps = subs[i].subscribeOps
      BY <1>2 DEF ServiceSubscription
    <3>. HIDE DEF sub
    <3>. QED
      BY <3>1, <3>2
  <2>2. /\ UNCHANGED mapVars \/ EraseSub(i)
        /\ result' = Completed(result, subs[i].unsubscribeOps, ConvertRTAErrorCode(m.code))
    BY <1>9 DEF UnsubscribeResponse, i
  <2>3. ConvertRTAErrorCode(m.code) \in Outcomes
    BY DEF ConvertRTAErrorCode, Outcomes, Results
  <2>4. \A o \in OpIds : result'[o] # result[o] => result'[o] \in Outcomes /\ o \in subs[i].unsubscribeOps
    BY <2>2, <2>3, CompletedAt
  <2>. QED
    BY <1>2, <1>4, <1>5, <1>6, <2>1, <2>2, <2>4
<1>. QED
  BY <1>7, <1>8, <1>9

\* A disconnect completes the removals it fulfils and the Adds it abandons.
LEMMA DisconnectHandlerSettles ==
    ASSUME TypeOK, WaitsOnce, DisconnectHandler
    PROVE  SettlesListed
<1>. DEFINE removed == {i \in byClientId : subs[i].status \in Leaving}
            Of(st)  == {i \in byClientId : subs[i].status \in st}
            unsubscribed == UNION {subs[i].unsubscribeOps : i \in removed \union Of({"PendingSubscribe"})}
            abandoned    == UNION {subs[i].subscribeOps : i \in Of({"PendingUnsubscribe"})}
<1>1. /\ byClientId' = byClientId \ removed
      /\ subs' = [i \in SubIds |-> IF i \in byClientId THEN Disconnected(subs[i]) ELSE subs[i]]
      /\ result' = Completed(Completed(result, unsubscribed, "S_OK"),
                             abandoned, "E_XBL_RTA_GENERIC_ERROR")
      /\ UNCHANGED <<nextSubId, nextOp, aborting>>
  BY DEF DisconnectHandler, Leaving
<1>2. /\ byClientId \subseteq SubIds /\ result \in [OpIds -> Results]
      /\ \A i \in SubIds : subs[i] \in ServiceSubscription
  BY DEF TypeOK
<1>3. \A i \in byClientId :
          /\ subs'[i].subscribeOps = IF subs[i].status = "PendingUnsubscribe" THEN {}
                                     ELSE subs[i].subscribeOps
          /\ subs'[i].unsubscribeOps =
                 IF subs[i].status \in {"PendingSubscribe", "PendingUnsubscribe", "Unsubscribing"}
                 THEN {} ELSE subs[i].unsubscribeOps
  <2>1. ASSUME NEW s \in ServiceSubscription
        PROVE  /\ Disconnected(s).subscribeOps = IF s.status = "PendingUnsubscribe" THEN {}
                                                 ELSE s.subscribeOps
               /\ Disconnected(s).unsubscribeOps =
                      IF s.status \in {"PendingSubscribe", "PendingUnsubscribe", "Unsubscribing"}
                      THEN {} ELSE s.unsubscribeOps
    BY DEF ServiceSubscription, Disconnected
  <2>. QED
    BY <1>1, <1>2, <2>1
<1>4. ASSUME NEW o \in OpIds, result'[o] # result[o]
      PROVE  CompletesListed(o)
  <2>1. result'[o] = IF o \in abandoned THEN "E_XBL_RTA_GENERIC_ERROR"
                     ELSE IF o \in unsubscribed THEN "S_OK" ELSE result[o]
    <3>. HIDE DEF abandoned, unsubscribed
    <3>. QED  BY <1>1, CompletedAt
  <2>2. result'[o] \in Outcomes /\ (o \in abandoned \/ o \in unsubscribed)
    <3>. HIDE DEF abandoned, unsubscribed
    <3>. QED  BY <1>4, <2>1 DEF Outcomes, Results
  <2>3. PICK i \in byClientId :
             \/ subs[i].status = "PendingUnsubscribe" /\ o \in subs[i].subscribeOps
             \/ /\ subs[i].status \in {"PendingSubscribe", "PendingUnsubscribe", "Unsubscribing"}
                /\ o \in subs[i].unsubscribeOps
    BY <2>2 DEF Leaving
  <2>4. o \in Listed(i)
    BY <2>3, ListedAt
  <2>5. ASSUME NEW j \in byClientId'
        PROVE  o \notin Listed(j)'
    <3>1. j \in byClientId /\ subs[j].status \notin Leaving
      BY <1>1, <2>5
    <3>2. Listed(j)' \subseteq Listed(j)
      BY <1>3, <3>1, ListedAt
    <3>3. CASE j # i
      BY <2>4, <3>1, <3>2, <3>3 DEF WaitsOnce
    <3>4. CASE j = i
      <4>1. subs[i].status = "PendingSubscribe" /\ o \in subs[i].unsubscribeOps
        BY <2>3, <3>1, <3>4 DEF Leaving
      <4>2. o \notin subs[i].subscribeOps
        BY <4>1 DEF WaitsOnce
      <4>3. subs'[i].unsubscribeOps = {} /\ subs'[i].subscribeOps = subs[i].subscribeOps
        BY <1>3, <4>1
      <4>. QED
        BY <3>4, <4>2, <4>3, ListedAt
    <3>. QED
      BY <3>3, <3>4
  <2>. QED
    BY <2>2, <2>4, <2>5 DEF CompletesListed
<1>. HIDE DEF removed, unsubscribed, abandoned
<1>5. /\ byClientId' \subseteq byClientId
      /\ \A i \in SubIds \ byClientId : subs'[i] = subs[i]
  BY <1>1
<1>6. \A i \in byClientId' : /\ subs'[i].subscribeOps \subseteq subs[i].subscribeOps
                             /\ subs'[i].unsubscribeOps \subseteq subs[i].unsubscribeOps
  BY <1>3, <1>5
<1>. QED
  BY <1>1, <1>4, <1>5, <1>6 DEF SettlesListed

\* A client's call about the subscription i: it takes the next call id, lists
\* it at most once and only if it waits, and cancels calls of i only.
CallsOnce(i) ==
    /\ nextOp \in OpIds /\ nextOp' = nextOp + 1 /\ UNCHANGED aborting
    /\ i \in byClientId \/ i = nextSubId
    /\ nextSubId' >= nextSubId /\ i < nextSubId'
    /\ byClientId' \subseteq byClientId \union {i}
    /\ \A j \in SubIds \ {i} : subs'[j] = subs[j]
    /\ subs'[i].subscribeOps \subseteq subs[i].subscribeOps \union {nextOp}
    /\ subs'[i].unsubscribeOps \subseteq subs[i].unsubscribeOps \union {nextOp}
    /\ nextOp \notin subs'[i].subscribeOps \intersect subs'[i].unsubscribeOps
    /\ result'[nextOp] \in Outcomes \union {"pending"}
    /\ nextOp \in Listed(i)' => result'[nextOp] = "pending"
    /\ \A o \in OpIds \ {nextOp} : result'[o] # result[o] =>
           result'[o] \in Outcomes /\ o \in Listed(i) /\ o \notin Listed(i)'

\* Such a call keeps the waiting invariant.
LEMMA CallingWaiting ==
    ASSUME TypeOK, TypeOK', WaitingInv, FreshIds, UNCHANGED phase, phase = "live",
           NEW i \in SubIds, CallsOnce(i)
    PROVE  WaitingInv'
<1>. USE DEF CallsOnce
<1>1. /\ nextOp \in Nat /\ nextSubId \in Nat /\ nextSubId' \in Nat /\ nextOp \in OpIds
      /\ byClientId \subseteq SubIds /\ byClientId' \subseteq SubIds
      /\ \A j \in SubIds : subs[j] \in ServiceSubscription /\ subs'[j] \in ServiceSubscription
  BY DEF TypeOK
<1>2. \A j \in SubIds : Listed(j) \subseteq OpIds /\ Listed(j)' \subseteq OpIds
  <2>1. \A j \in SubIds : /\ subs[j].subscribeOps \subseteq OpIds
                          /\ subs[j].unsubscribeOps \subseteq OpIds
                          /\ subs'[j].subscribeOps \subseteq OpIds
                          /\ subs'[j].unsubscribeOps \subseteq OpIds
    BY <1>1, SubFields
  <2>. QED
    BY <2>1, ListedAt
<1>3. aborting = {} /\ aborting' = {}
  BY DEF WaitingInv, AbortsWhenCleaned
<1>4. \A j \in byClientId : \A o \in Listed(j) : result[o] = "pending"
  BY DEF WaitingInv, WaitsOnce
<1>5. result[nextOp] = "none"
  BY <1>1 DEF WaitingInv, FreshCalls
<1>6. i \notin byClientId => Listed(i) = {}
  BY <1>1 DEF WaitingInv, FreshCalls
<1>7. \A j \in byClientId \union {i} : nextOp \notin Listed(j)
  BY <1>4, <1>5, <1>6
<1>8. \A j \in SubIds \ {i} : Listed(j)' = Listed(j)
  BY ListedAt
<1>9. Listed(i)' \subseteq Listed(i) \union {nextOp}
  BY ListedAt
<1>10. \A j \in byClientId : j # i => Listed(j) \intersect Listed(i) = {}
  BY <1>6 DEF WaitingInv, WaitsOnce
<1>11. WaitsOnce'
  <2>1. ASSUME NEW j \in byClientId', NEW o \in Listed(j)'
        PROVE  result'[o] = "pending"
    <3>1. CASE o = nextOp
      <4>1. j = i
        BY <1>1, <1>7, <1>8, <2>1, <3>1
      <4>. QED
        BY <2>1, <3>1, <4>1
    <3>2. CASE o # nextOp
      <4>1. o \in Listed(j) /\ o \in OpIds /\ j \in byClientId
        BY <1>1, <1>2, <1>6, <1>8, <1>9, <2>1, <3>2
      <4>2. result[o] = "pending"
        BY <1>4, <4>1
      <4>3. result'[o] = result[o]
        BY <1>10, <2>1, <3>2, <4>1
      <4>. QED
        BY <4>2, <4>3
    <3>. QED
      BY <3>1, <3>2
  <2>2. ASSUME NEW j \in byClientId', NEW k \in byClientId', j # k
        PROVE  Listed(j)' \intersect Listed(k)' = {}
    <3>1. ASSUME NEW a \in byClientId', NEW b \in byClientId', a # b, b # i
          PROVE  Listed(a)' \intersect Listed(b)' = {}
      <4>1. b \in byClientId /\ Listed(b)' = Listed(b) /\ nextOp \notin Listed(b)
        <5>1. b \in byClientId /\ b \in SubIds \ {i}
          BY <1>1, <3>1
        <5>. QED
          BY <1>7, <1>8, <5>1
      <4>2. CASE a = i
        <5>1. Listed(i)' \intersect Listed(b)' = {}
          BY <1>9, <1>10, <3>1, <4>1
        <5>. QED
          BY <4>2, <5>1, ListedAt
      <4>3. CASE a # i
        <5>1. a \in byClientId /\ Listed(a)' = Listed(a)
          BY <1>1, <1>8, <3>1, <4>3
        <5>. QED
          BY <3>1, <4>1, <5>1 DEF WaitingInv, WaitsOnce
      <4>. QED
        BY <4>2, <4>3
    <3>2. CASE k # i
      BY <2>2, <3>1, <3>2
    <3>3. CASE j # i
      BY <2>2, <3>1, <3>3
    <3>. QED
      BY <2>2, <3>2, <3>3
  <2>3. ASSUME NEW j \in byClientId'
        PROVE  subs'[j].subscribeOps \intersect subs'[j].unsubscribeOps = {}
    <3>1. CASE j = i
      <4>1. subs[i].subscribeOps \intersect subs[i].unsubscribeOps = {}
        BY <1>6, ListedAt DEF WaitingInv, WaitsOnce
      <4>2. nextOp \notin subs[i].subscribeOps /\ nextOp \notin subs[i].unsubscribeOps
        BY <1>7, ListedAt
      <4>. QED
        BY <3>1, <4>1, <4>2
    <3>2. CASE j # i
      BY <1>1, <2>3, <3>2 DEF WaitingInv, WaitsOnce
    <3>. QED
      BY <3>1, <3>2
  <2>. QED
    BY <1>3, <2>1, <2>2, <2>3 DEF WaitsOnce
<1>12. FreshCalls'
  <2>1. ASSUME NEW o \in OpIds, o >= nextOp'
        PROVE  result'[o] = "none"
    <3>1. o \in Nat /\ o >= nextOp /\ o # nextOp
      BY <1>1, <2>1 DEF OpIds
    <3>2. result[o] = "none"
      BY <3>1 DEF WaitingInv, FreshCalls
    <3>3. o \notin Listed(i)
      BY <1>4, <1>6, <3>2
    <3>. QED
      BY <3>1, <3>2, <3>3
  <2>2. ASSUME NEW j \in SubIds, j >= nextSubId'
        PROVE  Listed(j)' = {}
    <3>1. j \in Nat /\ j # i /\ j >= nextSubId
      BY <1>1, <2>2 DEF SubIds
    <3>. QED
      BY <1>8, <3>1 DEF WaitingInv, FreshCalls
  <2>. QED
    BY <2>1, <2>2 DEF FreshCalls
<1>13. AbortsWhenCleaned'
  BY <1>3 DEF AbortsWhenCleaned
<1>. QED
  BY <1>11, <1>12, <1>13 DEF WaitingInv

\* AddSubscription lists its call at most once, and cancels only removals of
\* the subscription it revives.
LEMMA AddSubscriptionCalls ==
    ASSUME TypeOK, WaitingInv, TrackingInv, NEW c \in Clients, AddSubscription(c)
    PROVE  \E i \in SubIds : CallsOnce(i)
<1>. DEFINE u       == UriOf[c]
<1>0. PICK i \in SubIds : i = IF byUri[u] = 0 THEN nextSubId ELSE byUri[u]
  BY DEF AddSubscription
<1>. DEFINE sub     == [subs[i] EXCEPT !.uri = u, !.clientSubscriptions = @ \union {c},
                                       !.status = StatusAfterAdd(@)]
            waiting == [sub EXCEPT !.subscribeOps = @ \union {nextOp}]
            joined  == [waiting EXCEPT !.unsubscribeOps = {}]
<1>1. /\ u \in Uris /\ i \in SubIds /\ nextOp \in OpIds
      /\ nextOp' = nextOp + 1 /\ UNCHANGED aborting
      /\ byClientId' = byClientId \union {i}
      /\ nextSubId' = IF byUri[u] = 0 THEN nextSubId + 1 ELSE nextSubId
  BY <1>0, NamesAssumption DEF AddSubscription
<1>2. /\ subs \in [SubIds -> ServiceSubscription] /\ result \in [OpIds -> Results]
      /\ nextSubId \in Nat /\ subs[i] \in ServiceSubscription
  BY <1>1 DEF TypeOK
<1>3. \/ subs' = [subs EXCEPT ![i] = waiting] /\ Waits({})
      \/ subs' = [subs EXCEPT ![i] = joined] /\ Waits(sub.unsubscribeOps)
      \/ subs' = [subs EXCEPT ![i] = sub] /\ IsDone
  BY <1>0 DEF AddSubscription
<1>4. /\ i \in byClientId \/ i = nextSubId
      /\ nextSubId' >= nextSubId /\ i < nextSubId'
  <2>1. byUri[u] # 0 => byUri[u] \in byClientId /\ byUri[u] < nextSubId
    BY <1>1 DEF TrackingInv, MapsAgree, FreshIds
  <2>. QED
    BY <1>0, <1>1, <1>2, <2>1
<1>5. /\ sub.subscribeOps = subs[i].subscribeOps
      /\ sub.unsubscribeOps = subs[i].unsubscribeOps
      /\ waiting.subscribeOps = subs[i].subscribeOps \union {nextOp}
      /\ waiting.unsubscribeOps = subs[i].unsubscribeOps
      /\ joined.subscribeOps = subs[i].subscribeOps \union {nextOp}
      /\ joined.unsubscribeOps = {}
  <2>. QED
    BY <1>2 DEF ServiceSubscription
<1>. HIDE DEF sub, waiting, joined
<1>6. i \in byClientId \/ Listed(i) = {}
  BY <1>1, <1>2, <1>4 DEF WaitingInv, FreshCalls
<1>7. /\ nextOp \notin Listed(i) /\ subs[i].subscribeOps \intersect subs[i].unsubscribeOps = {}
  BY <1>1, <1>6, ListedAt DEF WaitingInv, FreshCalls, WaitsOnce, TypeOK
<1>8. nextOp \notin subs[i].subscribeOps /\ nextOp \notin subs[i].unsubscribeOps
  BY <1>7, ListedAt
<1>9. ASSUME NEW s, subs' = [subs EXCEPT ![i] = s],
             s.subscribeOps \subseteq subs[i].subscribeOps \union {nextOp},
             s.unsubscribeOps \subseteq subs[i].unsubscribeOps,
             result'[nextOp] \in Outcomes \union {"pending"},
             nextOp \in s.subscribeOps => result'[nextOp] = "pending",
             \A o \in OpIds \ {nextOp} : result'[o] # result[o] =>
                 /\ result'[o] \in Outcomes
                 /\ o \in subs[i].unsubscribeOps /\ s.unsubscribeOps = {}
      PROVE  CallsOnce(i)
  <2>1. subs'[i] = s /\ \A j \in SubIds \ {i} : subs'[j] = subs[j]
    BY <1>1, <1>2, <1>9
  <2>2. Listed(i)' = s.subscribeOps \union s.unsubscribeOps
    BY <2>1, ListedAt
  <2>3. \A o \in OpIds \ {nextOp} : o \in subs[i].unsubscribeOps /\ s.unsubscribeOps = {} =>
            o \in Listed(i) /\ o \notin Listed(i)'
    BY <1>7, <1>9, <2>2, ListedAt
  <2>4. nextOp \in Listed(i)' => result'[nextOp] = "pending"
    BY <1>8, <1>9, <2>2
  <2>5. nextOp \notin s.unsubscribeOps
    BY <1>8, <1>9
  <2>. HIDE DEF Outcomes
  <2>. QED
    BY <1>1, <1>4, <1>9, <2>1, <2>3, <2>4, <2>5 DEF CallsOnce
<1>10. CASE subs' = [subs EXCEPT ![i] = waiting] /\ Waits({})
  <2>1. result' = [Completed(result, {}, "E_ABORT") EXCEPT ![nextOp] = "pending"]
    BY <1>10 DEF Waits
  <2>2. result'[nextOp] = "pending" /\ \A o \in OpIds \ {nextOp} : result'[o] = result[o]
    BY <1>1, <2>1 DEF Completed
  <2>. QED
    BY <1>5, <1>9, <1>10, <2>2
<1>11. CASE subs' = [subs EXCEPT ![i] = joined] /\ Waits(sub.unsubscribeOps)
  <2>1. result' = [Completed(result, subs[i].unsubscribeOps, "E_ABORT") EXCEPT ![nextOp] = "pending"]
    BY <1>5, <1>11 DEF Waits
  <2>2. /\ result'[nextOp] = "pending"
        /\ \A o \in OpIds \ {nextOp} :
               result'[o] = IF o \in subs[i].unsubscribeOps THEN "E_ABORT" ELSE result[o]
    BY <1>1, <2>1 DEF Completed
  <2>3. "E_ABORT" \in Outcomes
    BY DEF Outcomes, Results
  <2>. QED
    BY <1>5, <1>9, <1>11, <2>2, <2>3
<1>12. CASE subs' = [subs EXCEPT ![i] = sub] /\ IsDone
  <2>1. result' = [result EXCEPT ![nextOp] = "S_OK"] /\ "S_OK" \in Outcomes
    BY <1>12 DEF IsDone, Outcomes, Results
  <2>2. result'[nextOp] = "S_OK" /\ \A o \in OpIds \ {nextOp} : result'[o] = result[o]
    BY <1>1, <1>2, <2>1
  <2>. QED
    BY <1>5, <1>8, <1>9, <1>12, <2>1, <2>2
<1>. QED
  BY <1>1, <1>3, <1>10, <1>11, <1>12

\* A removal that leaves another client lists nothing.
LEMMA RemoveSharedCalls ==
    ASSUME TypeOK, WaitingInv, TrackingInv, NEW c \in Clients, RemoveShared(c)
    PROVE  \E i \in SubIds : CallsOnce(i)
<1>0. PICK i \in SubIds : i = byUri[UriOf[c]]
  BY NamesAssumption DEF RemoveShared, TypeOK
<1>. DEFINE s == [subs[i] EXCEPT !.clientSubscriptions = @ \ {c}]
<1>1. /\ i \in SubIds /\ nextOp \in OpIds
      /\ nextOp' = nextOp + 1 /\ UNCHANGED <<aborting, mapVars>>
      /\ subs' = [subs EXCEPT ![i] = s] /\ IsDone
  BY <1>0 DEF RemoveShared
<1>2. /\ subs \in [SubIds -> ServiceSubscription] /\ result \in [OpIds -> Results]
      /\ nextSubId \in Nat /\ subs[i] \in ServiceSubscription
  BY <1>1 DEF TypeOK
<1>3. i \in byClientId /\ i < nextSubId
  BY <1>0, <1>1, NamesAssumption DEF TrackingInv, MapsAgree, FreshIds, SubIds
<1>4. s.subscribeOps = subs[i].subscribeOps /\ s.unsubscribeOps = subs[i].unsubscribeOps
  <2>. QED  BY <1>2 DEF ServiceSubscription
<1>. HIDE DEF s
<1>5. subs'[i] = s /\ \A j \in SubIds \ {i} : subs'[j] = subs[j]
  BY <1>1, <1>2
<1>6. result[nextOp] = "none"
  BY <1>1 DEF WaitingInv, FreshCalls, OpIds
<1>7. nextOp \notin Listed(i)' /\ nextOp \notin subs'[i].subscribeOps
  <2>1. nextOp \notin Listed(i)
    BY <1>3, <1>6 DEF WaitingInv, WaitsOnce
  <2>. QED
    BY <1>4, <1>5, <2>1, ListedAt
<1>8. /\ result'[nextOp] \in Outcomes
      /\ \A o \in OpIds \ {nextOp} : result'[o] = result[o]
  BY <1>1, <1>2 DEF IsDone, Outcomes, Results
<1>. QED
  BY <1>1, <1>2, <1>3, <1>4, <1>5, <1>7, <1>8 DEF CallsOnce, mapVars

\* The last removal erases the subscription with its lists, or waits, and
\* cancels only Adds of the subscription it dooms.
LEMMA RemoveLastCalls ==
    ASSUME TypeOK, WaitingInv, TrackingInv, NEW c \in Clients, RemoveLast(c)
    PROVE  \E i \in SubIds : CallsOnce(i)
<1>0. PICK i \in SubIds : i = byUri[UriOf[c]]
  BY NamesAssumption DEF RemoveLast, TypeOK
<1>. DEFINE sub     == [subs[i] EXCEPT !.clientSubscriptions = @ \ {c},
                                       !.status = StatusAfterRemove(@)]
            waiting == [sub EXCEPT !.unsubscribeOps = @ \union {nextOp}]
            left    == [waiting EXCEPT !.subscribeOps = {}]
<1>1. /\ i \in SubIds /\ nextOp \in OpIds
      /\ nextOp' = nextOp + 1 /\ UNCHANGED aborting
      /\ UNCHANGED mapVars \/ EraseSub(i)
  BY <1>0 DEF RemoveLast
<1>2. /\ subs \in [SubIds -> ServiceSubscription] /\ result \in [OpIds -> Results]
      /\ nextSubId \in Nat /\ subs[i] \in ServiceSubscription
  BY <1>1 DEF TypeOK
<1>3. \/ subs' = [subs EXCEPT ![i] = WithoutOps(sub)] /\ IsDone
      \/ subs' = [subs EXCEPT ![i] = waiting] /\ Waits({})
      \/ subs' = [subs EXCEPT ![i] = left] /\ Waits(sub.subscribeOps)
  BY <1>0 DEF RemoveLast
<1>4. i \in byClientId /\ i < nextSubId
  BY <1>0, <1>1, NamesAssumption DEF TrackingInv, MapsAgree, FreshIds, SubIds
<1>5. /\ sub.subscribeOps = subs[i].subscribeOps
      /\ WithoutOps(sub).subscribeOps = {} /\ WithoutOps(sub).unsubscribeOps = {}
      /\ waiting.subscribeOps = subs[i].subscribeOps
      /\ waiting.unsubscribeOps = subs[i].unsubscribeOps \union {nextOp}
      /\ left.subscribeOps = {}
      /\ left.unsubscribeOps = subs[i].unsubscribeOps \union {nextOp}
  <2>. QED
    BY <1>2 DEF ServiceSubscription, WithoutOps
<1>. HIDE DEF sub, waiting, left
<1>6. byClientId' \subseteq byClientId /\ UNCHANGED nextSubId
  BY <1>1 DEF EraseSub, mapVars
<1>7. result[nextOp] = "none"
  BY <1>1 DEF WaitingInv, FreshCalls, OpIds
<1>8. nextOp \notin Listed(i) /\ subs[i].subscribeOps \intersect subs[i].unsubscribeOps = {}
  BY <1>4, <1>7 DEF WaitingInv, WaitsOnce
<1>9. nextOp \notin subs[i].subscribeOps /\ nextOp \notin subs[i].unsubscribeOps
  BY <1>8, ListedAt
<1>10. ASSUME NEW s, subs' = [subs EXCEPT ![i] = s],
             s.subscribeOps \subseteq subs[i].subscribeOps,
             s.unsubscribeOps \subseteq subs[i].unsubscribeOps \union {nextOp},
             result'[nextOp] \in Outcomes \union {"pending"},
             nextOp \in s.unsubscribeOps => result'[nextOp] = "pending",
             \A o \in OpIds \ {nextOp} : result'[o] # result[o] =>
                 /\ result'[o] \in Outcomes
                 /\ o \in subs[i].subscribeOps /\ s.subscribeOps = {}
      PROVE  CallsOnce(i)
  <2>1. subs'[i] = s /\ \A j \in SubIds \ {i} : subs'[j] = subs[j]
    BY <1>1, <1>2, <1>10
  <2>2. Listed(i)' = s.subscribeOps \union s.unsubscribeOps
    BY <2>1, ListedAt
  <2>3. \A o \in OpIds \ {nextOp} : o \in subs[i].subscribeOps /\ s.subscribeOps = {} =>
            o \in Listed(i) /\ o \notin Listed(i)'
    BY <1>8, <1>10, <2>2, ListedAt
  <2>4. nextOp \in Listed(i)' => result'[nextOp] = "pending"
    BY <1>9, <1>10, <2>2
  <2>5. nextOp \notin s.subscribeOps
    BY <1>9, <1>10
  <2>. HIDE DEF Outcomes
  <2>. QED
    BY <1>1, <1>2, <1>4, <1>6, <1>10, <2>1, <2>3, <2>4, <2>5 DEF CallsOnce
<1>11. CASE subs' = [subs EXCEPT ![i] = WithoutOps(sub)] /\ IsDone
  <2>1. result' = [result EXCEPT ![nextOp] = "S_OK"] /\ "S_OK" \in Outcomes
    BY <1>11 DEF IsDone, Outcomes, Results
  <2>2. result'[nextOp] = "S_OK" /\ \A o \in OpIds \ {nextOp} : result'[o] = result[o]
    BY <1>1, <1>2, <2>1
  <2>. QED
    BY <1>5, <1>10, <1>11, <2>1, <2>2
<1>12. CASE subs' = [subs EXCEPT ![i] = waiting] /\ Waits({})
  <2>1. result' = [Completed(result, {}, "E_ABORT") EXCEPT ![nextOp] = "pending"]
    BY <1>12 DEF Waits
  <2>2. result'[nextOp] = "pending" /\ \A o \in OpIds \ {nextOp} : result'[o] = result[o]
    BY <1>1, <2>1 DEF Completed
  <2>. QED
    BY <1>5, <1>10, <1>12, <2>2
<1>13. CASE subs' = [subs EXCEPT ![i] = left] /\ Waits(sub.subscribeOps)
  <2>1. result' = [Completed(result, subs[i].subscribeOps, "E_ABORT") EXCEPT ![nextOp] = "pending"]
    BY <1>5, <1>13 DEF Waits
  <2>2. /\ result'[nextOp] = "pending"
        /\ \A o \in OpIds \ {nextOp} :
               result'[o] = IF o \in subs[i].subscribeOps THEN "E_ABORT" ELSE result[o]
    BY <1>1, <2>1 DEF Completed
  <2>3. "E_ABORT" \in Outcomes
    BY DEF Outcomes, Results
  <2>. QED
    BY <1>5, <1>10, <1>13, <2>2, <2>3
<1>. QED
  BY <1>1, <1>3, <1>11, <1>12, <1>13

\* What every step other than a client's call and the shutdown has in common:
\* it settles listed calls, frees resources only, and stops the connection, if
\* at all, without doing anything else.
ConnectionStep ==
    /\ SettlesListed
    /\ UNCHANGED held
    /\ \A u \in Uris : byUri'[u] \in {byUri[u], 0}
    /\ phase = "live" /\ phase' \in {"live", "crashed"}
    /\ phase' = "crashed" => UNCHANGED <<byUri, result>>

\* The steps of the timers, the network, the service and m_queue are such steps.
LEMMA ConnectionSteps ==
    ASSUME TypeOK, WaitingInv, Next,
           ~ \E c \in Clients : AddSubscription(c) \/ RemoveUnknown(c) \/ RemoveShared(c) \/ RemoveLast(c),
           ~ Cleanup, ~ QueueTerminated
    PROVE  ConnectionStep
<1>. USE DEF opVars
<1>1. /\ subs \in [SubIds -> ServiceSubscription] /\ byClientId \subseteq SubIds
      /\ byUri \in [Uris -> SubIds \union {0}]
  BY DEF TypeOK
<1>2. ASSUME UNCHANGED <<mapVars, result, nextOp, held, aborting>>,
             phase = "live", phase' \in {"live", "crashed"},
             \A i \in SubIds \ byClientId : subs'[i] = subs[i],
             \A i \in byClientId : /\ subs'[i].subscribeOps = subs[i].subscribeOps
                                   /\ subs'[i].unsubscribeOps = subs[i].unsubscribeOps
      PROVE  ConnectionStep
  <2>1. SettlesListed
    BY <1>2, SameListsSettles
  <2>. QED
    BY <1>1, <1>2, <2>1 DEF ConnectionStep, mapVars
<1>3. ASSUME UNCHANGED <<subs, mapVars, result, nextOp, held, aborting>>,
             phase = "live", phase' \in {"live", "crashed"}
      PROVE  ConnectionStep
  BY <1>2, <1>3
<1>4. CASE phase = "live" /\ Component /\ UNCHANGED phase
  <2>1. CASE \E m \in Request : SendAssembledMessage(m)
    BY <1>3, <1>4, <2>1 DEF SendAssembledMessage
  <2>2. CASE \E i \in SubIds : RetrySubscribe(i)
    <3>1. PICK i \in SubIds : RetrySubscribe(i)
      BY <2>2
    <3>2. /\ UNCHANGED <<mapVars, result, nextOp, held, aborting>>
          /\ \/ UNCHANGED subs
             \/ i \in byClientId /\ subs' = [subs EXCEPT ![i] = [subs[i] EXCEPT !.status = "Subscribing"]]
      BY <3>1 DEF RetrySubscribe, StillThrottled
    <3>3. \A j \in SubIds \ byClientId : subs'[j] = subs[j]
      BY <1>1, <3>2
    <3>4. \A j \in byClientId : /\ subs'[j].subscribeOps = subs[j].subscribeOps
                                /\ subs'[j].unsubscribeOps = subs[j].unsubscribeOps
      BY <1>1, <3>2 DEF ServiceSubscription
    <3>. QED
      BY <1>2, <1>4, <3>2, <3>3, <3>4
  <2>3. CASE ConnectTimerFires \/ ConnectTimerFails \/ ConnectFailed
    BY <1>3, <1>4, <2>3 DEF ConnectTimerFires, ConnectTimerFails, ConnectFailed
  <2>4. CASE ConnectSucceeded
    <3>1. /\ UNCHANGED <<mapVars, result, nextOp, held, aborting>>
          /\ subs' = [i \in SubIds |-> IF i \in byClientId
                                       THEN [subs[i] EXCEPT !.status = "Subscribing"]
                                       ELSE subs[i]]
      BY <2>4 DEF ConnectSucceeded
    <3>2. \A j \in byClientId : /\ subs'[j].subscribeOps = subs[j].subscribeOps
                                /\ subs'[j].unsubscribeOps = subs[j].unsubscribeOps
      BY <1>1, <3>1 DEF ServiceSubscription
    <3>. QED
      BY <1>2, <1>4, <3>1, <3>2
  <2>5. CASE DisconnectHandler
    <3>1. SettlesListed /\ UNCHANGED held
      BY <2>5, DisconnectHandlerSettles DEF DisconnectHandler, WaitingInv
    <3>2. \E R : byUri' = [u \in Uris |-> IF \E i \in R : subs[i].uri = u THEN 0 ELSE byUri[u]]
      BY <2>5 DEF DisconnectHandler
    <3>. QED
      BY <1>4, <3>1, <3>2 DEF ConnectionStep
  <2>. QED
    BY <1>4, <2>1, <2>2, <2>3, <2>4, <2>5 DEF Component
<1>5. CASE phase = "live" /\ Environment /\ UNCHANGED phase
  BY <1>3, <1>5 DEF Environment, NetworkConnects, NetworkRefuses, ServiceGrants, ServiceDeclines,
     ServiceReleases, ServiceRaisesEvent, Reply
<1>6. CASE \E k \in 1..Len(inbox) : WebsocketMessageReceived(k)
  <2>1. PICK k \in 1..Len(inbox) : WebsocketMessageReceived(k)
    BY <1>6
  <2>2. /\ inbox[k] \in Message
        /\ phase = "live" /\ UNCHANGED <<nextOp, held, aborting>>
    BY <2>1, MessageType DEF TypeOK, WebsocketMessageReceived
  <2>3. CASE IgnoreResponse(inbox[k]) \/ SubscribeDenied(inbox[k]) \/ EventHandler(inbox[k])
    BY <1>3, <2>2, <2>3 DEF IgnoreResponse, SubscribeDenied, EventHandler
  <2>4. CASE \/ SubscribeSucceeded(inbox[k]) \/ SubscribeThrottled(inbox[k])
             \/ UnsubscribeResponse(inbox[k])
    <3>1. SettlesListed
      BY <2>2, <2>4, ResponseSettles DEF WaitingInv
    <3>2. UNCHANGED phase /\ (UNCHANGED mapVars \/ EraseSub(inbox[k].clientId))
      BY <2>4 DEF SubscribeSucceeded, SubscribeThrottled, UnsubscribeResponse
    <3>3. \A u \in Uris : byUri'[u] \in {byUri[u], 0}
      BY <1>1, <3>2 DEF mapVars, EraseSub
    <3>. QED
      BY <2>2, <3>1, <3>2, <3>3 DEF ConnectionStep
  <2>. QED
    BY <2>1, <2>3, <2>4 DEF WebsocketMessageReceived
<1>. QED
  BY <1>4, <1>5, <1>6 DEF Next

\* The shutdown hands the listed calls to the terminated queue's callback,
\* which completes them all.
LEMMA ShutdownWaiting ==
    ASSUME TypeOK, WaitingInv, Cleanup \/ QueueTerminated
    PROVE  WaitingInv'
<1>1. /\ subs \in [SubIds -> ServiceSubscription] /\ byClientId \subseteq SubIds
      /\ nextOp \in Nat /\ nextSubId \in Nat
  BY DEF TypeOK
<1>2. CASE Cleanup
  <2>1. /\ UNCHANGED <<mapVars, opVars>> /\ phase' = "cleaned"
        /\ aborting' = UNION {subs[i].subscribeOps \union subs[i].unsubscribeOps : i \in byClientId}
        /\ subs' = [i \in SubIds |-> IF i \in byClientId THEN WithoutOps(subs[i]) ELSE subs[i]]
    BY <1>2 DEF Cleanup
  <2>2. \A s \in ServiceSubscription :
            WithoutOps(s).subscribeOps = {} /\ WithoutOps(s).unsubscribeOps = {}
    BY DEF ServiceSubscription, WithoutOps
  <2>3. \A i \in byClientId : /\ subs'[i].subscribeOps = {} /\ subs'[i].unsubscribeOps = {}
                              /\ Listed(i)' = {}
    BY <1>1, <2>1, <2>2 DEF Listed
  <2>4. \A o \in aborting' : result[o] = "pending"
    BY <2>1, ListedAt DEF WaitingInv, WaitsOnce
  <2>5. WaitsOnce'
    BY <2>1, <2>3, <2>4 DEF WaitsOnce, mapVars, opVars
  <2>6. \A i \in SubIds : i >= nextSubId => Listed(i)' = {}
    <3>1. \A i \in SubIds \ byClientId : Listed(i)' = Listed(i)
      BY <2>1 DEF Listed
    <3>. QED
      BY <2>3, <3>1 DEF WaitingInv, FreshCalls
  <2>7. FreshCalls'
    BY <2>1, <2>6 DEF WaitingInv, FreshCalls, mapVars, opVars
  <2>8. AbortsWhenCleaned'
    BY <2>1, <2>3 DEF AbortsWhenCleaned, mapVars
  <2>. QED
    BY <2>5, <2>7, <2>8 DEF WaitingInv
<1>3. CASE QueueTerminated
  <2>1. /\ UNCHANGED <<mapVars, subs, nextOp, phase>> /\ phase = "cleaned"
        /\ result' = Completed(result, aborting, "E_ABORT") /\ aborting' = {}
    BY <1>3 DEF QueueTerminated
  <2>2. \A i \in byClientId : Listed(i) = {}
    BY <2>1 DEF WaitingInv, AbortsWhenCleaned
  <2>3. \A i : Listed(i)' = Listed(i)
    BY <2>1 DEF Listed
  <2>4. WaitsOnce'
    BY <2>1, <2>2, <2>3 DEF WaitingInv, WaitsOnce, mapVars
  <2>5. \A o \in OpIds : o >= nextOp => result'[o] = "none"
    <3>1. \A o \in aborting : result[o] = "pending"
      BY DEF WaitingInv, WaitsOnce
    <3>. QED
      BY <2>1, <3>1, CompletedAt DEF WaitingInv, FreshCalls
  <2>6. FreshCalls'
    BY <2>1, <2>3, <2>5 DEF WaitingInv, FreshCalls, mapVars
  <2>7. AbortsWhenCleaned'
    BY <2>1, <2>2, <2>3 DEF AbortsWhenCleaned, mapVars
  <2>. QED
    BY <2>4, <2>6, <2>7 DEF WaitingInv
<1>. QED
  BY <1>2, <1>3

\* Every step keeps the waiting invariant.
LEMMA NextWaiting ==
    ASSUME TypeOK, TypeOK', TrackingInv, WaitingInv, [Next]_vars
    PROVE  WaitingInv'
<1>0. FreshIds
  BY DEF TrackingInv
<1>1. CASE UNCHANGED vars
  BY <1>1 DEF WaitingInv, WaitsOnce, FreshCalls, AbortsWhenCleaned, Listed, vars, mapVars, opVars
<1>2. CASE phase = "live" /\ UNCHANGED phase
           /\ \E c \in Clients : AddSubscription(c) \/ RemoveShared(c) \/ RemoveLast(c)
  <2>1. \E i \in SubIds : CallsOnce(i)
    BY <1>2, AddSubscriptionCalls, RemoveSharedCalls, RemoveLastCalls
  <2>. QED
    BY <1>0, <1>2, <2>1, CallingWaiting
<1>3. CASE UNCHANGED phase /\ \E c \in Clients : RemoveUnknown(c)
  <2>1. UNCHANGED <<subs, mapVars, result, aborting, phase>> /\ nextOp' = nextOp + 1 /\ nextOp \in Nat
    BY <1>3 DEF RemoveUnknown, TypeOK
  <2>2. \A i : Listed(i)' = Listed(i)
    BY <2>1 DEF Listed
  <2>3. WaitsOnce' /\ AbortsWhenCleaned'
    BY <2>1, <2>2 DEF WaitingInv, WaitsOnce, AbortsWhenCleaned, mapVars
  <2>4. FreshCalls'
    BY <2>1, <2>2 DEF WaitingInv, FreshCalls, mapVars, OpIds
  <2>. QED
    BY <2>3, <2>4 DEF WaitingInv
<1>4. CASE Cleanup \/ QueueTerminated
  BY <1>4, ShutdownWaiting
<1>5. ASSUME ConnectionStep
      PROVE  WaitingInv'
  BY <1>0, <1>5, SettlingWaiting DEF ConnectionStep
<1>6. ASSUME Next, NEW c \in Clients,
             AddSubscription(c) \/ RemoveUnknown(c) \/ RemoveShared(c) \/ RemoveLast(c)
      PROVE  (phase = "live" /\ UNCHANGED phase) \/ Cleanup \/ QueueTerminated
  <2>1. nextOp' = nextOp + 1
    BY Zenon, <1>6 DEF AddSubscription, RemoveUnknown, RemoveShared, RemoveLast
  <2>2. nextOp \in Nat
    BY DEF TypeOK
  <2>3. ~ \E k \in 1..Len(inbox) : WebsocketMessageReceived(k)
    BY <2>1, <2>2 DEF WebsocketMessageReceived
  <2>. QED
    BY Zenon, <1>6, <2>3 DEF Next
<1>. QED
  BY <1>1, <1>2, <1>3, <1>4, <1>5, <1>6, ConnectionSteps

\* Initially nothing waits.
LEMMA InitWaiting == Init => WaitingInv
<1>. SUFFICES ASSUME Init PROVE WaitingInv
  OBVIOUS
<1>1. \A i \in SubIds : Listed(i) = {}
  BY DEF Init, NewSub, Listed
<1>2. WaitsOnce
  BY DEF Init, WaitsOnce
<1>3. FreshCalls
  BY <1>1 DEF Init, FreshCalls
<1>4. AbortsWhenCleaned
  BY DEF Init, AbortsWhenCleaned
<1>. QED
  BY <1>2, <1>3, <1>4 DEF WaitingInv

\* The invariant behind the next two theorems: who waits where, and that
\* nobody who waits has been answered.
THEOREM Waiting == Spec => []WaitingInv
<1>1. Init => WaitingInv
  BY InitWaiting
<1>2. TypeOK /\ TypeOK' /\ TrackingInv /\ WaitingInv /\ [Next]_vars => WaitingInv'
  BY NextWaiting
<1>. QED
  BY <1>1, <1>2, TypeCorrect, Tracking, PTL DEF Spec

\* An AsyncContext waits in one list of one subscription, and has not been
\* completed: no response, disconnect, cancellation or cleanup completes a
\* call of AddSubscription or RemoveSubscription a second time.
THEOREM CallsWaitOnce == Spec => []WaitsOnce
<1>1. WaitingInv => WaitsOnce
  BY DEF WaitingInv
<1>. QED
  BY <1>1, Waiting, PTL

-----------------------------------------------------------------------------
\* The resources the registry sees as tracked.
Tracked == {u \in Uris : byUri[u] # 0}

\* Held resources are tracked.
LEMMA WantedIsTracked ==
    ASSUME TypeOK, HeldIsTracked
    PROVE  Registry!Wanted(held) \subseteq Tracked
<1>1. held \subseteq Clients /\ UriOf \in [Clients -> Uris]
  BY NamesAssumption DEF TypeOK
<1>. QED
  BY <1>1 DEF Registry!Wanted, Tracked, HeldIsTracked

\* A listed call that a step completes settles, in the registry's sense.
LEMMA SettlesIn ==
    ASSUME WaitsOnce, NEW o \in OpIds, NEW i \in byClientId,
           result'[o] # result[o] => result'[o] \in Outcomes /\ o \in Listed(i)
    PROVE  Registry!Settles(o)
BY DEF WaitsOnce, Registry!Settles, Outcomes

\* What a client's call does to the results is what the registry's Issue says.
LEMMA CallIssues ==
    ASSUME TypeOK, WaitingInv, NEW i \in SubIds, CallsOnce(i)
    PROVE  Registry!Issue(nextOp)
<1>1. nextOp \in OpIds /\ result'[nextOp] \in Outcomes \union {"pending"}
  BY DEF CallsOnce
<1>2. result[nextOp] = "none"
  BY <1>1 DEF WaitingInv, FreshCalls, OpIds
<1>3. ASSUME NEW o \in OpIds \ {nextOp}
      PROVE  Registry!Settles(o)
  <2>1. result'[o] # result[o] => result'[o] \in Outcomes /\ o \in Listed(i)
    BY <1>3 DEF CallsOnce
  <2>2. CASE i \in byClientId
    BY <1>3, <2>1, <2>2, SettlesIn DEF WaitingInv
  <2>3. CASE i \notin byClientId
    <3>1. i = nextSubId /\ Listed(i) = {}
      BY <2>3 DEF CallsOnce, WaitingInv, FreshCalls, SubIds
    <3>. QED
      BY <2>1, <3>1 DEF Registry!Settles
  <2>. QED
    BY <2>2, <2>3
<1>. QED
  BY <1>1, <1>2, <1>3 DEF Registry!Issue, Outcomes

\* AddSubscription is the registry's Add.
LEMMA AddIsAdd ==
    ASSUME TypeOK, TrackingInv, WaitingInv, NEW c \in Clients, AddSubscription(c),
           phase = "live", UNCHANGED phase
    PROVE  Registry!Add(c, nextOp)
<1>1. Registry!Issue(nextOp)
  BY AddSubscriptionCalls, CallIssues
<1>2. Tracked' = Tracked \union {UriOf[c]}
  <2>1. PICK i \in SubIds : byUri' = [byUri EXCEPT ![UriOf[c]] = i]
    BY DEF AddSubscription
  <2>2. i # 0 /\ byUri \in [Uris -> SubIds \union {0}] /\ UriOf[c] \in Uris
    BY NamesAssumption DEF SubIds, TypeOK
  <2>. QED
    BY <2>1, <2>2 DEF Tracked
<1>3. c \notin held /\ held' = held \union {c}
  BY DEF AddSubscription
<1>. QED
  BY <1>1, <1>2, <1>3 DEF Registry!Add, Tracked

\* RemoveSubscription, whether the resource is unknown, shared or given up, is
\* the registry's Remove.
LEMMA RemoveIsRemove ==
    ASSUME TypeOK, TypeOK', TrackingInv, TrackingInv', WaitingInv, NEW c \in Clients,
           RemoveUnknown(c) \/ RemoveShared(c) \/ RemoveLast(c),
           phase = "live", UNCHANGED phase
    PROVE  Registry!Remove(c, nextOp)
<1>. DEFINE u == UriOf[c]
<1>1. held' = held \ {c} /\ u \in Uris /\ byUri \in [Uris -> SubIds \union {0}]
  BY NamesAssumption DEF RemoveUnknown, RemoveShared, RemoveLast, TypeOK
<1>2. CASE RemoveUnknown(c)
  <2>1. u \notin Tracked /\ UNCHANGED <<byUri, result>>
    BY <1>2 DEF RemoveUnknown, Tracked, mapVars
  <2>2. Tracked' = Tracked
    BY <2>1 DEF Tracked
  <2>. QED
    BY <1>1, <2>1, <2>2 DEF Registry!Remove, Tracked
<1>3. CASE RemoveShared(c) \/ RemoveLast(c)
  <2>1. Registry!Issue(nextOp)
    BY <1>3, RemoveSharedCalls, RemoveLastCalls, CallIssues
  <2>2. UNCHANGED byUri \/ byUri' = [byUri EXCEPT ![u] = 0]
    <3>1. CASE RemoveShared(c)
      BY <3>1 DEF RemoveShared, mapVars
    <3>2. CASE RemoveLast(c)
      <4>1. byUri[u] # 0
        BY <3>2 DEF RemoveLast
      <4>2. subs[byUri[u]].uri = u
        BY Zenon, <1>1, <4>1 DEF TrackingInv, MapsAgree
      <4>3. UNCHANGED mapVars \/ EraseSub(byUri[u])
        BY <3>2 DEF RemoveLast
      <4>. QED
        BY Zenon, <4>2, <4>3 DEF EraseSub, mapVars
    <3>. QED
      BY <1>3, <3>1, <3>2
  <2>3. CASE UNCHANGED byUri
    <3>1. Tracked' = Tracked
      BY <2>3 DEF Tracked
    <3>. QED
      BY <1>1, <2>1, <3>1 DEF Registry!Remove, Tracked
  <2>4. CASE byUri' = [byUri EXCEPT ![u] = 0]
    <3>1. Tracked' = Tracked \ {u}
      BY <1>1, <2>4 DEF Tracked
    <3>2. u \notin Registry!Wanted(held')
      <4>1. ASSUME NEW d \in held', UriOf[d] = u
            PROVE  FALSE
        <5>1. byUri'[u] # 0
          BY <4>1 DEF TrackingInv, HeldIsTracked
        <5>. QED
          BY <1>1, <2>4, <5>1
      <4>. QED
        BY <4>1 DEF Registry!Wanted
    <3>. QED
      BY <1>1, <2>1, <3>1, <3>2 DEF Registry!Remove, Tracked
  <2>. QED
    BY <2>2, <2>3, <2>4
<1>. QED
  BY <1>2, <1>3

\* Every other step of the connection is an answer, or closes it.
LEMMA ConnectionStepAnswers ==
    ASSUME TypeOK, TypeOK', TrackingInv', WaitingInv, ConnectionStep
    PROVE  Registry!Answer \/ Registry!Close
<1>. USE DEF ConnectionStep
<1>1. byUri \in [Uris -> SubIds \union {0}]
  BY DEF TypeOK
<1>2. CASE phase' = "crashed"
  <2>1. UNCHANGED <<held, byUri, result>> /\ phase = "live"
    BY <1>2
  <2>2. Tracked' = Tracked
    BY <2>1 DEF Tracked
  <2>. QED
    BY <1>2, <2>1, <2>2 DEF Registry!Close, Tracked
<1>3. CASE phase' = "live"
  <2>1. Tracked' \subseteq Tracked
    BY <1>1 DEF Tracked
  <2>2. UNCHANGED held
    OBVIOUS
  <2>3. \A w \in Registry!Wanted(held) : w \in Tracked'
    <3>1. HeldIsTracked'
      BY DEF TrackingInv
    <3>2. held \subseteq Clients /\ UriOf \in [Clients -> Uris]
      BY NamesAssumption DEF TypeOK
    <3>. QED
      BY <2>2, <3>1, <3>2 DEF Registry!Wanted, HeldIsTracked, Tracked
  <2>4. ASSUME NEW o \in OpIds
        PROVE  Registry!Settles(o)
    <3>1. CASE result'[o] = result[o]
      BY <3>1 DEF Registry!Settles
    <3>2. CASE result'[o] # result[o]
      <4>1. CompletesListed(o)
        BY <3>2 DEF SettlesListed
      <4>2. PICK i \in byClientId : o \in Listed(i)
        BY <4>1 DEF CompletesListed
      <4>. QED
        BY <4>1, <4>2, SettlesIn DEF WaitingInv, CompletesListed
    <3>. QED
      BY <3>1, <3>2
  <2>5. (phase' = "live") = (phase = "live")
    BY <1>3
  <2>. QED
    BY <2>1, <2>2, <2>3, <2>4, <2>5 DEF Registry!Answer, Tracked
<1>. QED
  BY <1>2, <1>3

\* The shutdown is the registry's Close, and then an answer.
LEMMA ShutdownCloses ==
    ASSUME TypeOK, WaitingInv, Cleanup \/ QueueTerminated
    PROVE  Registry!Close \/ Registry!Answer
<1>1. CASE Cleanup
  <2>1. phase = "live" /\ phase' = "cleaned" /\ UNCHANGED <<held, byUri, result>>
    BY <1>1 DEF Cleanup, mapVars, opVars
  <2>. QED
    BY <2>1 DEF Registry!Close
<1>2. CASE QueueTerminated
  <2>1. /\ UNCHANGED <<held, byUri, phase>>
        /\ result' = Completed(result, aborting, "E_ABORT")
    BY <1>2 DEF QueueTerminated, mapVars
  <2>2. ASSUME NEW o \in OpIds
        PROVE  Registry!Settles(o)
    <3>1. o \in aborting => result[o] = "pending"
      BY DEF WaitingInv, WaitsOnce
    <3>. QED
      BY <2>1, <3>1, CompletedAt DEF Registry!Settles, Results
  <2>3. UNCHANGED Tracked
    BY <2>1 DEF Tracked
  <2>. QED
    BY <2>1, <2>2, <2>3 DEF Registry!Answer, Tracked
<1>. QED
  BY <1>1, <1>2

\* Every step of the connection is a step of the registry, or a stutter.
LEMMA NextImplements ==
    ASSUME TypeOK, TypeOK', TrackingInv, TrackingInv', WaitingInv, [Next]_vars
    PROVE  [Registry!Next]_(Registry!vars)
<1>1. CASE UNCHANGED vars
  <2>1. UNCHANGED <<held, byUri, result, phase>>
    BY <1>1 DEF vars, mapVars, opVars
  <2>. QED
    BY <2>1 DEF Registry!vars
<1>2. ASSUME NEW c \in Clients, Next,
             AddSubscription(c) \/ RemoveUnknown(c) \/ RemoveShared(c) \/ RemoveLast(c)
      PROVE  Registry!Next
  <2>1. nextOp \in OpIds /\ nextOp' = nextOp + 1
    BY Zenon, <1>2 DEF AddSubscription, RemoveUnknown, RemoveShared, RemoveLast
  <2>2. /\ ~ \E k \in 1..Len(inbox) : WebsocketMessageReceived(k)
        /\ ~ Cleanup /\ ~ QueueTerminated
    <3>1. nextOp' # nextOp
      BY <2>1 DEF OpIds
    <3>. QED
      BY <3>1 DEF WebsocketMessageReceived, Cleanup, QueueTerminated, opVars
  <2>3. phase = "live" /\ UNCHANGED phase
    BY <1>2, <2>2 DEF Next
  <2>4. Registry!Add(c, nextOp) \/ Registry!Remove(c, nextOp)
    BY <1>2, <2>3, AddIsAdd, RemoveIsRemove
  <2>5. PICK o \in OpIds : o = nextOp
    BY <2>1
  <2>6. Registry!Add(c, o) \/ Registry!Remove(c, o)
    BY <2>4, <2>5 DEF Registry!Add, Registry!Remove, Registry!Issue
  <2>. QED
    BY Zenon, <2>6 DEF Registry!Next
<1>3. CASE Cleanup \/ QueueTerminated
  BY <1>3, ShutdownCloses DEF Registry!Next
<1>4. ASSUME ConnectionStep
      PROVE  Registry!Next
  BY <1>4, ConnectionStepAnswers DEF Registry!Next
<1>. QED
  BY <1>1, <1>2, <1>3, <1>4, ConnectionSteps

\* The registry's initial state.
LEMMA InitImplements == Init => Registry!Init
BY DEF Init, Registry!Init

\* The connection implements its contract: whatever sockets, handshakes,
\* throttling, cancellation and shutdown do underneath, callers see resources
\* given up only when nobody holds them, calls completed at most once, with an
\* HRESULT of the code, and no call accepted after the connection has closed.
THEOREM Implementation == Spec => ImplementsRegistry
<1>1. Init => Registry!Init
  BY InitImplements
<1>2. /\ TypeOK /\ TypeOK' /\ TrackingInv /\ TrackingInv' /\ WaitingInv
      /\ [Next]_vars
      => [Registry!Next]_(Registry!vars)
  BY NextImplements
<1>. QED
  BY <1>1, <1>2, TypeCorrect, Tracking, Waiting, PTL DEF Spec, ImplementsRegistry, Registry!Spec

\* Outcomes of the registry's calls are final.
LEMMA RegistryKeepsOutcomes ==
    ASSUME [Registry!Next]_(Registry!vars), NEW o \in OpIds, result[o] \notin {"none", "pending"}
    PROVE  result'[o] = result[o]
<1>1. CASE UNCHANGED Registry!vars
  BY <1>1 DEF Registry!vars
<1>2. ASSUME NEW p \in OpIds, Registry!Issue(p)
      PROVE  result'[o] = result[o]
  BY <1>2 DEF Registry!Issue, Registry!Settles
<1>3. CASE Registry!Next
  <2>1. \/ \E p \in OpIds : Registry!Issue(p)
        \/ \A p \in OpIds : Registry!Settles(p)
        \/ UNCHANGED result
    BY <1>3 DEF Registry!Next, Registry!Add, Registry!Remove, Registry!Answer, Registry!Close
  <2>. QED
    BY <1>2, <2>1 DEF Registry!Settles
<1>. QED
  BY <1>1, <1>3

\* What the contract gives a caller: once XAsyncComplete has been called on an
\* AsyncContext, no handler, disconnect, cancellation or shutdown calls it again,
\* and a call's outcome is the first one it was given.
THEOREM OutcomesAreFinal ==
    Spec => [][\A o \in OpIds : result[o] \notin {"none", "pending"} => result'[o] = result[o]]_vars
<1>1. /\ TypeOK /\ TypeOK' /\ TrackingInv /\ TrackingInv' /\ WaitingInv
      /\ [Next]_vars
      => \A o \in OpIds : result[o] \notin {"none", "pending"} => result'[o] = result[o]
  BY NextImplements, RegistryKeepsOutcomes
<1>. QED
  BY <1>1, TypeCorrect, Tracking, Waiting, PTL DEF Spec

-----------------------------------------------------------------------------
\* The queues after a message was appended, taken from the front, or taken out.
LEMMA AppendAt ==
    ASSUME NEW S, NEW s \in Seq(S), NEW x \in S
    PROVE  /\ Append(s, x) \in Seq(S) /\ Len(Append(s, x)) = Len(s) + 1
           /\ \A p \in 1..(Len(s) + 1) : Append(s, x)[p] = IF p = Len(s) + 1 THEN x ELSE s[p]
OBVIOUS

\* Without its head, each message is one place further on.
LEMMA TailAt ==
    ASSUME NEW S, NEW s \in Seq(S), s # <<>>
    PROVE  /\ Tail(s) \in Seq(S) /\ Len(Tail(s)) = Len(s) - 1 /\ Len(s) >= 1
           /\ Head(s) = s[1]
           /\ \A p \in 1..(Len(s) - 1) : Tail(s)[p] = s[p + 1]
OBVIOUS

\* Without its k-th message, those behind it are.
LEMMA RemoveAtAt ==
    ASSUME NEW S, NEW s \in Seq(S), NEW k \in 1..Len(s)
    PROVE  /\ RemoveAt(s, k) \in Seq(S) /\ Len(RemoveAt(s, k)) = Len(s) - 1
           /\ \A p \in 1..(Len(s) - 1) : RemoveAt(s, k)[p] = IF p < k THEN s[p] ELSE s[p + 1]
<1>. DEFINE before == SubSeq(s, 1, k - 1)
            after  == SubSeq(s, k + 1, Len(s))
<1>1. Len(s) \in Nat /\ k \in Nat /\ k >= 1 /\ k <= Len(s)
  OBVIOUS
<1>2. /\ before \in Seq(S) /\ Len(before) = k - 1
      /\ \A p \in 1..(k - 1) : before[p] = s[p]
  BY <1>1
<1>3. /\ after \in Seq(S) /\ Len(after) = Len(s) - k
      /\ \A p \in 1..(Len(s) - k) : after[p] = s[p + k]
  BY <1>1
<1>4. RemoveAt(s, k) = before \o after
  BY DEF RemoveAt
<1>. HIDE DEF before, after
<1>5. Len(RemoveAt(s, k)) = Len(s) - 1 /\ RemoveAt(s, k) \in Seq(S)
  BY <1>1, <1>2, <1>3, <1>4
<1>6. ASSUME NEW p \in 1..(Len(s) - 1), p < k
      PROVE  RemoveAt(s, k)[p] = s[p]
  BY <1>1, <1>2, <1>3, <1>4, <1>6
<1>7. ASSUME NEW p \in 1..(Len(s) - 1), ~ (p < k)
      PROVE  RemoveAt(s, k)[p] = s[p + 1]
  <2>1. p - (k - 1) \in 1..(Len(s) - k) /\ p - (k - 1) + k = p + 1
    BY <1>1, <1>7
  <2>2. RemoveAt(s, k)[p] = after[p - (k - 1)]
    BY <1>1, <1>2, <1>3, <1>4, <1>7
  <2>3. after[p - (k - 1)] = s[p - (k - 1) + k]
    BY <1>3, <2>1
  <2>. QED
    BY <2>1, <2>2, <2>3
<1>. QED
  BY <1>5, <1>6, <1>7

\* Every place of the shortened queue holds what another place than k held,
\* and no two places what the same place held.
LEMMA RemoveAtPlaces ==
    ASSUME NEW S, NEW s \in Seq(S), NEW k \in 1..Len(s), NEW t, t = RemoveAt(s, k)
    PROVE  \E f \in [1..Len(t) -> (1..Len(s)) \ {k}] :
               /\ \A p \in 1..Len(t) : t[p] = s[f[p]]
               /\ \A p, q \in 1..Len(t) : p < q <=> f[p] < f[q]
<1>. DEFINE f == [p \in 1..Len(t) |-> IF p < k THEN p ELSE p + 1]
<1>1. Len(t) = Len(s) - 1 /\ Len(s) \in Nat /\ k \in Nat
  BY RemoveAtAt
<1>2. f \in [1..Len(t) -> (1..Len(s)) \ {k}]
  BY <1>1
<1>3. \A p \in 1..Len(t) : t[p] = s[f[p]]
  BY <1>1, RemoveAtAt
<1>4. \A p, q \in 1..Len(t) : p < q <=> f[p] < f[q]
  BY <1>1
<1>. QED
  BY <1>2, <1>3, <1>4

\* The messages under way, when none is added but perhaps an event.
LEMMA NothingSent ==
    ASSUME TypeOK, TypeOK', OnlyExpected, OneMessageEach, UNCHANGED <<outbox, requests>>,
           Joining \subseteq Joining', Parting \subseteq Parting',
           \/ UNCHANGED inbox
           \/ \E e \in Message : e.type = "Event" /\ inbox' = Append(inbox, e)
    PROVE  OnlyExpected' /\ OneMessageEach'
<1>1. inbox \in Seq(Message)
  BY DEF TypeOK
<1>2. Answers' = Answers /\ \A k \in Answers : inbox'[k] = inbox[k]
  <2>1. CASE UNCHANGED inbox
    BY <2>1 DEF Answers
  <2>2. ASSUME NEW e \in Message, e.type = "Event", inbox' = Append(inbox, e)
        PROVE  Answers' = Answers /\ \A k \in Answers : inbox'[k] = inbox[k]
    BY <1>1, <2>2, AppendAt DEF Answers
  <2>. QED
    BY <2>1, <2>2
<1>. QED
  BY <1>2 DEF OnlyExpected, OneMessageEach

\* A handshake begins: its first message is the only one under way.
LEMMA HandshakeBegins ==
    ASSUME TypeOK, OnlyExpected, OneMessageEach, NEW m \in Request, ToSend(m),
           m.clientId \notin Joining, m.clientId \notin Parting,
           m.clientId \in IF m.type = "Subscribe" THEN Joining' ELSE Parting',
           Joining \subseteq Joining', Parting \subseteq Parting', UNCHANGED <<requests, inbox>>
    PROVE  OnlyExpected' /\ OneMessageEach'
<1>1. outbox \in [Request -> Nat]
  BY DEF TypeOK
<1>2. /\ \A n \in Request : outbox[n] > 0 => n.clientId # m.clientId
      /\ \A p \in 1..Len(requests) : requests[p].clientId # m.clientId
      /\ \A k \in Answers : inbox[k].clientId # m.clientId
  BY DEF OnlyExpected
<1>3. outbox[m] = 0 /\ outbox'[m] = 1 /\ \A n \in Request \ {m} : outbox'[n] = outbox[n]
  <2>1. outbox[m] = 0
    BY <1>1, <1>2
  <2>. QED
    BY <1>1, <2>1 DEF ToSend
<1>4. Answers' = Answers
  BY DEF Answers
<1>5. OnlyExpected'
  BY <1>3, <1>4 DEF OnlyExpected
<1>6. OneMessageEach'
  BY <1>2, <1>3, <1>4 DEF OneMessageEach
<1>. QED
  BY <1>5, <1>6

\* A message goes from its thread onto the open socket.
LEMMA MessageSent ==
    ASSUME TypeOK, OnlyExpected, OneMessageEach, NEW m \in Request, SendAssembledMessage(m),
           wire = "open"
    PROVE  OnlyExpected' /\ OneMessageEach'
<1>1. /\ outbox \in [Request -> Nat] /\ requests \in Seq(Request)
      /\ outbox[m] > 0 /\ outbox' = [outbox EXCEPT ![m] = @ - 1]
      /\ requests' = Append(requests, m)
      /\ UNCHANGED <<subs, mapVars, inbox>>
  BY DEF TypeOK, SendAssembledMessage
<1>2. outbox[m] = 1 /\ outbox'[m] = 0 /\ \A n \in Request \ {m} : outbox'[n] = outbox[n]
  BY <1>1 DEF OneMessageEach
<1>3. /\ Len(requests) \in Nat /\ Len(requests') = Len(requests) + 1
      /\ \A p \in 1..Len(requests) : requests'[p] = requests[p]
      /\ requests'[Len(requests) + 1] = m
  BY <1>1, AppendAt
<1>4. Answers' = Answers /\ Joining' = Joining /\ Parting' = Parting
  BY <1>1 DEF Answers, Joining, Parting, mapVars
<1>5. OnlyExpected'
  <2>1. \A p \in 1..Len(requests') : p \in 1..Len(requests) \/ requests'[p] = m
    BY <1>3
  <2>. QED
    BY <1>1, <1>2, <1>3, <1>4, <2>1 DEF OnlyExpected
<1>6. OneMessageEach'
  <2>1. \A n \in Request : outbox'[n] > 0 => outbox[n] > 0 /\ n # m
    BY <1>2
  <2>2. \A p \in 1..Len(requests') :
            \/ p \in 1..Len(requests) /\ requests'[p] = requests[p]
            \/ p = Len(requests) + 1 /\ requests'[p] = m
    BY <1>3
  <2>3. \A p \in 1..Len(requests) : requests[p].clientId # m.clientId
    BY <1>1 DEF OneMessageEach
  <2>4. \A k \in Answers : inbox[k].clientId # m.clientId
    BY <1>1 DEF OneMessageEach
  <2>5. \A n \in Request : outbox'[n] \in {0, 1}
    BY <1>2 DEF OneMessageEach
  <2>6. \A n \in Request : outbox'[n] > 0 =>
            /\ \A p \in 1..Len(requests') : requests'[p].clientId # n.clientId
            /\ \A k \in Answers' : inbox'[k].clientId # n.clientId
    BY <1>1, <1>4, <2>1, <2>2 DEF OneMessageEach
  <2>7. \A p, q \in 1..Len(requests') : p # q => requests'[p].clientId # requests'[q].clientId
    BY <2>2, <2>3 DEF OneMessageEach
  <2>8. \A p \in 1..Len(requests') : \A k \in Answers' : inbox'[k].clientId # requests'[p].clientId
    BY <1>1, <1>4, <2>2, <2>4 DEF OneMessageEach
  <2>9. /\ \A n, l \in Request : outbox'[n] > 0 /\ outbox'[l] > 0 /\ n # l => n.clientId # l.clientId
        /\ \A k, l \in Answers' : k # l => inbox'[k].clientId # inbox'[l].clientId
    BY <1>1, <1>4, <2>1 DEF OneMessageEach
  <2>. QED
    BY <2>5, <2>6, <2>7, <2>8, <2>9 DEF OneMessageEach
<1>. QED
  BY <1>5, <1>6

\* The service answers its oldest request.
LEMMA RequestAnswered ==
    ASSUME TypeOK, OnlyExpected, OneMessageEach, requests # <<>>, requests' = Tail(requests),
           NEW r \in Message, r.clientId = Head(requests).clientId,
           \/ Head(requests).type = "Subscribe" /\ r.type = "SubscribeResponse"
           \/ Head(requests).type = "Unsubscribe" /\ r.type = "UnsubscribeResponse",
           inbox' = Append(inbox, r), UNCHANGED <<subs, mapVars, outbox>>
    PROVE  OnlyExpected' /\ OneMessageEach'
<1>1. inbox \in Seq(Message) /\ requests \in Seq(Request)
  BY DEF TypeOK
<1>2. /\ Len(requests') = Len(requests) - 1 /\ Len(requests) \in Nat /\ Len(requests) >= 1
      /\ Head(requests) = requests[1]
      /\ \A p \in 1..Len(requests') :
             /\ requests'[p] = requests[p + 1]
             /\ p + 1 \in 1..Len(requests) /\ p + 1 # 1
  BY <1>1, TailAt
<1>3. 1 \in 1..Len(requests)
  BY <1>2
<1>4. /\ Len(inbox) \in Nat /\ Len(inbox') = Len(inbox) + 1
      /\ \A k \in 1..Len(inbox) : inbox'[k] = inbox[k]
      /\ inbox'[Len(inbox) + 1] = r
  BY <1>1, AppendAt
<1>5. \A k \in Answers' : \/ k \in Answers /\ inbox'[k] = inbox[k]
                          \/ k = Len(inbox) + 1 /\ inbox'[k] = r
  BY <1>4 DEF Answers
<1>6. Joining' = Joining /\ Parting' = Parting
  BY DEF Joining, Parting, mapVars
<1>7. \A p \in 1..Len(requests') : requests'[p].clientId # r.clientId
  BY <1>2, <1>3 DEF OneMessageEach
<1>8. \A k \in Answers : inbox[k].clientId # r.clientId
  BY <1>2, <1>3 DEF OneMessageEach
<1>9. \A m \in Request : outbox[m] > 0 => m.clientId # r.clientId
  BY <1>2, <1>3 DEF OneMessageEach
<1>10. OnlyExpected'
  <2>1. \A p \in 1..Len(requests') :
            requests'[p].clientId \in IF requests'[p].type = "Subscribe" THEN Joining ELSE Parting
    BY <1>2 DEF OnlyExpected
  <2>2. r.clientId \in IF r.type = "SubscribeResponse" THEN Joining ELSE Parting
    BY <1>2, <1>3 DEF OnlyExpected
  <2>3. \A k \in Answers' :
            inbox'[k].clientId \in IF inbox'[k].type = "SubscribeResponse" THEN Joining ELSE Parting
    BY <1>5, <2>2 DEF OnlyExpected
  <2>4. \A m \in Request : outbox'[m] > 0 =>
            m.clientId \in IF m.type = "Subscribe" THEN Joining ELSE Parting
    BY DEF OnlyExpected
  <2>. QED
    BY <1>6, <2>1, <2>3, <2>4 DEF OnlyExpected
<1>11. OneMessageEach'
  <2>1. ASSUME NEW m \in Request, outbox'[m] > 0
        PROVE  /\ \A p \in 1..Len(requests') : requests'[p].clientId # m.clientId
               /\ \A k \in Answers' : inbox'[k].clientId # m.clientId
    <3>0. outbox[m] > 0
      BY <2>1
    <3>1. \A p \in 1..Len(requests) : requests[p].clientId # m.clientId
      BY <3>0 DEF OneMessageEach
    <3>2. \A k \in Answers : inbox[k].clientId # m.clientId
      BY <3>0 DEF OneMessageEach
    <3>3. m.clientId # r.clientId
      BY <1>9, <3>0
    <3>4. \A p \in 1..Len(requests') : requests'[p].clientId # m.clientId
      BY <1>2, <3>1
    <3>5. \A k \in Answers' : inbox'[k].clientId # m.clientId
      BY <1>5, <3>2, <3>3
    <3>. QED
      BY <3>4, <3>5
  <2>2. ASSUME NEW p \in 1..Len(requests'), NEW q \in 1..Len(requests'), p # q
        PROVE  requests'[p].clientId # requests'[q].clientId
    <3>1. p + 1 \in 1..Len(requests) /\ q + 1 \in 1..Len(requests) /\ p + 1 # q + 1
      BY <1>2, <2>2
    <3>2. requests'[p] = requests[p + 1] /\ requests'[q] = requests[q + 1]
      BY <1>2
    <3>3. requests[p + 1].clientId # requests[q + 1].clientId
      BY <3>1 DEF OneMessageEach
    <3>. QED
      BY <3>2, <3>3
  <2>3. ASSUME NEW p \in 1..Len(requests'), NEW k \in Answers'
        PROVE  inbox'[k].clientId # requests'[p].clientId
    <3>1. requests'[p] = requests[p + 1] /\ p + 1 \in 1..Len(requests)
      BY <1>2
    <3>2. \A l \in Answers : inbox[l].clientId # requests[p + 1].clientId
      BY <3>1 DEF OneMessageEach
    <3>3. requests'[p].clientId # r.clientId
      BY <1>7
    <3>4. CASE k \in Answers /\ inbox'[k] = inbox[k]
      BY <3>1, <3>2, <3>4
    <3>5. CASE inbox'[k] = r
      <4>1. r.clientId # requests'[p].clientId
        BY <3>3
      <4>. QED
        BY <3>5, <4>1
    <3>6. \/ k \in Answers /\ inbox'[k] = inbox[k]
          \/ inbox'[k] = r
      BY <1>5, Zenon
    <3>. QED
      BY <3>4, <3>5, <3>6
  <2>4. \A k, l \in Answers' : k # l => inbox'[k].clientId # inbox'[l].clientId
    <3>. SUFFICES ASSUME NEW k \in Answers', NEW l \in Answers', k # l
                  PROVE  inbox'[k].clientId # inbox'[l].clientId
      OBVIOUS
    <3>1. \A p, q \in Answers : p # q => inbox[p].clientId # inbox[q].clientId
      BY DEF OneMessageEach
    <3>2. \/ k \in Answers /\ inbox'[k] = inbox[k]
          \/ k = Len(inbox) + 1 /\ inbox'[k] = r
      BY <1>5
    <3>3. \/ l \in Answers /\ inbox'[l] = inbox[l]
          \/ l = Len(inbox) + 1 /\ inbox'[l] = r
      BY <1>5
    <3>. QED
      BY <1>8, <3>1, <3>2, <3>3
  <2>. QED
    BY <2>1, <2>2, <2>3, <2>4 DEF OneMessageEach
<1>. QED
  BY <1>10, <1>11

\* m_queue handles a response: its handshake ends, or its answer begins the next.
LEMMA ResponseHandled ==
    ASSUME TypeOK, OnlyExpected, OneMessageEach, NEW k \in 1..Len(inbox),
           inbox' = RemoveAt(inbox, k), UNCHANGED requests, NEW i, i = inbox[k].clientId,
           Joining \ {i} \subseteq Joining', Parting \ {i} \subseteq Parting',
           \/ /\ Joining \subseteq Joining' /\ Parting \subseteq Parting' /\ UNCHANGED outbox
           \/ k \in Answers /\ UNCHANGED outbox
           \/ k \in Answers /\ \E m \in Request :
                  /\ ToSend(m) /\ m.clientId = i
                  /\ m.clientId \in IF m.type = "Subscribe" THEN Joining' ELSE Parting'
    PROVE  OnlyExpected' /\ OneMessageEach'
<1>1. inbox \in Seq(Message) /\ outbox \in [Request -> Nat]
  BY DEF TypeOK
<1>2. PICK f \in [1..Len(inbox') -> (1..Len(inbox)) \ {k}] :
          /\ \A p \in 1..Len(inbox') : inbox'[p] = inbox[f[p]]
          /\ \A p, q \in 1..Len(inbox') : p < q <=> f[p] < f[q]
  BY <1>1, RemoveAtPlaces
<1>3. \A p \in Answers' : f[p] \in Answers /\ f[p] # k /\ inbox'[p] = inbox[f[p]]
  BY <1>2 DEF Answers
<1>4. \A p, q \in Answers' : p # q => f[p] # f[q]
  <2>1. \A p, q \in Answers' : p \in Nat /\ q \in Nat /\ f[p] \in Nat /\ f[q] \in Nat
    BY <1>1, <1>2 DEF Answers
  <2>2. \A p, q \in Answers' : p # q => p < q \/ q < p
    BY <2>1
  <2>3. \A p, q \in Answers' : p \in 1..Len(inbox') /\ q \in 1..Len(inbox')
    BY DEF Answers
  <2>4. \A p, q \in Answers' : p < q => f[p] < f[q]
    BY <1>2, <2>3
  <2>. QED
    BY <2>1, <2>2, <2>4
<1>5. k \in Answers =>
          /\ \A m \in Request : outbox[m] > 0 => m.clientId # i
          /\ \A p \in 1..Len(requests) : requests[p].clientId # i
          /\ \A p \in Answers' : inbox'[p].clientId # i
  <2>. SUFFICES ASSUME k \in Answers
                PROVE  /\ \A m \in Request : outbox[m] > 0 => m.clientId # i
                       /\ \A p \in 1..Len(requests) : requests[p].clientId # i
                       /\ \A p \in Answers' : inbox'[p].clientId # i
    OBVIOUS
  <2>1. \A m \in Request : outbox[m] > 0 => m.clientId # i
    <3>1. \A m \in Request : outbox[m] > 0 => \A l \in Answers : inbox[l].clientId # m.clientId
      BY DEF OneMessageEach
    <3>. QED
      BY <3>1
  <2>2. \A p \in 1..Len(requests) : requests[p].clientId # i
    <3>1. \A p \in 1..Len(requests) : \A l \in Answers : inbox[l].clientId # requests[p].clientId
      BY DEF OneMessageEach
    <3>. QED
      BY <3>1
  <2>3. \A p \in Answers' : inbox'[p].clientId # i
    <3>1. \A p, l \in Answers : p # l => inbox[p].clientId # inbox[l].clientId
      BY DEF OneMessageEach
    <3>. QED
      BY <1>3, <3>1
  <2>. QED
    BY <2>1, <2>2, <2>3
<1>6. /\ \A m \in Request : outbox'[m] > 0 =>
            m.clientId \in IF m.type = "Subscribe" THEN Joining' ELSE Parting'
      /\ \A m \in Request : outbox'[m] \in {0, 1}
      /\ \A m \in Request : outbox'[m] > 0 => outbox[m] > 0 \/ (k \in Answers /\ m.clientId = i)
      /\ \A m, n \in Request : outbox'[m] > 0 /\ outbox'[n] > 0 /\ m # n => m.clientId # n.clientId
  <2>1. CASE UNCHANGED outbox
    BY <1>5, <2>1 DEF OnlyExpected, OneMessageEach
  <2>2. ASSUME k \in Answers, NEW m \in Request, ToSend(m), m.clientId = i,
               m.clientId \in IF m.type = "Subscribe" THEN Joining' ELSE Parting'
        PROVE  \A n \in Request : outbox'[n] > 0 =>
                   n.clientId \in IF n.type = "Subscribe" THEN Joining' ELSE Parting'
    <3>1. outbox[m] = 0
      BY <1>1, <1>5, <2>2
    <3>2. outbox'[m] = 1 /\ \A n \in Request \ {m} : outbox'[n] = outbox[n]
      BY <1>1, <2>2, <3>1 DEF ToSend
    <3>. QED
      BY <1>5, <2>2, <3>2 DEF OnlyExpected, OneMessageEach
  <2>3. ASSUME k \in Answers, NEW m \in Request, ToSend(m), m.clientId = i,
               m.clientId \in IF m.type = "Subscribe" THEN Joining' ELSE Parting'
        PROVE  /\ \A n \in Request : outbox'[n] \in {0, 1}
               /\ \A n \in Request : outbox'[n] > 0 => outbox[n] > 0 \/ (k \in Answers /\ n.clientId = i)
               /\ \A l, n \in Request : outbox'[l] > 0 /\ outbox'[n] > 0 /\ l # n => l.clientId # n.clientId
    <3>1. outbox[m] = 0
      BY <1>1, <1>5, <2>3
    <3>2. outbox'[m] = 1 /\ \A n \in Request \ {m} : outbox'[n] = outbox[n]
      BY <1>1, <2>3, <3>1 DEF ToSend
    <3>. QED
      BY <1>5, <2>3, <3>2 DEF OneMessageEach
  <2>. QED
    BY <2>1, <2>2, <2>3
<1>7. OnlyExpected'
  <2>1. \A p \in 1..Len(requests) :
            requests[p].clientId \in IF requests[p].type = "Subscribe" THEN Joining' ELSE Parting'
    BY <1>5 DEF OnlyExpected
  <2>2. \A p \in Answers' :
            inbox'[p].clientId \in IF inbox'[p].type = "SubscribeResponse" THEN Joining' ELSE Parting'
    BY <1>3, <1>5 DEF OnlyExpected
  <2>. QED
    BY <1>6, <2>1, <2>2 DEF OnlyExpected
<1>8. OneMessageEach'
  <2>1. \A m \in Request : outbox'[m] > 0 =>
           /\ \A p \in 1..Len(requests) : requests[p].clientId # m.clientId
           /\ \A p \in Answers' : inbox'[p].clientId # m.clientId
    BY <1>3, <1>5, <1>6 DEF OneMessageEach
  <2>2. \A p \in 1..Len(requests) : \A q \in Answers' : inbox'[q].clientId # requests[p].clientId
    BY <1>3 DEF OneMessageEach
  <2>3. \A p, q \in Answers' : p # q => inbox'[p].clientId # inbox'[q].clientId
    BY <1>3, <1>4 DEF OneMessageEach
  <2>. QED
    BY <1>6, <2>1, <2>2, <2>3 DEF OneMessageEach
<1>. QED
  BY <1>7, <1>8


\* What AddSubscription makes of its subscription, which may be a new one.
AddsTo(i, s) ==
    /\ subs' = [subs EXCEPT ![i] = s]
    /\ byClientId' = byClientId \union {i}
    /\ i \in byClientId \/ i = nextSubId
    /\ nextSubId' >= nextSubId /\ i < nextSubId'
    /\ s.status = StatusAfterAdd(subs[i].status)
    /\ s.serviceId = subs[i].serviceId
    /\ s.clientSubscriptions # {}
    /\ IF subs[i].status = "Inactive" /\ state = "Connected"
       THEN ToSend(SubscribeMessage(i))
       ELSE UNCHANGED outbox
    /\ UNCHANGED <<connVars, byServiceId, retryTimers, sockVars, inbox, failedAsserts>>

\* An Add changes one subscription, and sends its message if there is none yet.
LEMMA AddSubscriptionEffect ==
    ASSUME TypeOK, TrackingInv, NEW c \in Clients, AddSubscription(c)
    PROVE  \E i \in SubIds : \E s \in ServiceSubscription : AddsTo(i, s)
<1>. DEFINE u       == UriOf[c]
<1>0. PICK i \in SubIds : i = IF byUri[u] = 0 THEN nextSubId ELSE byUri[u]
  BY DEF AddSubscription
<1>. DEFINE sub     == [subs[i] EXCEPT !.uri = u, !.clientSubscriptions = @ \union {c},
                                       !.status = StatusAfterAdd(@)]
            waiting == [sub EXCEPT !.subscribeOps = @ \union {nextOp}]
            joined  == [waiting EXCEPT !.unsubscribeOps = {}]
<1>1. /\ u \in Uris /\ nextOp \in OpIds
      /\ byClientId' = byClientId \union {i}
      /\ nextSubId' = IF byUri[u] = 0 THEN nextSubId + 1 ELSE nextSubId
      /\ UNCHANGED <<connVars, byServiceId, retryTimers, sockVars, inbox, failedAsserts>>
  BY <1>0, NamesAssumption DEF AddSubscription
<1>2. /\ subs[i] \in ServiceSubscription /\ nextSubId \in Nat
  BY SMTT(30) DEF TypeOK
<1>3. /\ \/ subs' = [subs EXCEPT ![i] = waiting]
         \/ subs' = [subs EXCEPT ![i] = joined]
         \/ subs' = [subs EXCEPT ![i] = sub]
      /\ IF subs[i].status = "Inactive" /\ state = "Connected"
         THEN ToSend(SubscribeMessage(i))
         ELSE UNCHANGED outbox
  BY <1>0 DEF AddSubscription
<1>4. /\ i \in byClientId \/ i = nextSubId
      /\ nextSubId' >= nextSubId /\ i < nextSubId'
  <2>1. byUri[u] # 0 => byUri[u] \in byClientId /\ byUri[u] < nextSubId
    BY <1>1 DEF TrackingInv, MapsAgree, FreshIds
  <2>. QED
    BY <1>0, <1>1, <1>2, <2>1
<1>5. StatusAfterAdd(subs[i].status) \in Status
  BY <1>2 DEF ServiceSubscription, StatusAfterAdd, Status
<1>6. \A s \in {waiting, joined, sub} :
         /\ s \in ServiceSubscription
         /\ s.status = StatusAfterAdd(subs[i].status)
         /\ s.serviceId = subs[i].serviceId
         /\ s.clientSubscriptions # {}
  <2>1. \A s \in {waiting, joined, sub} :
           /\ s.status = StatusAfterAdd(subs[i].status)
           /\ s.serviceId = subs[i].serviceId
    BY <1>2 DEF ServiceSubscription
  <2>5. c \in sub.clientSubscriptions
    BY <1>2 DEF ServiceSubscription
  <2>6. /\ waiting.clientSubscriptions = sub.clientSubscriptions
        /\ joined.clientSubscriptions = sub.clientSubscriptions
    BY <1>2 DEF ServiceSubscription
  <2>2. sub \in ServiceSubscription
    BY <1>1, <1>2, <1>5 DEF ServiceSubscription
  <2>3. waiting \in ServiceSubscription
    <3>. HIDE DEF sub
    <3>. QED  BY <1>1, <2>2 DEF ServiceSubscription
  <2>4. joined \in ServiceSubscription
    <3>. HIDE DEF waiting
    <3>. QED  BY <2>3 DEF ServiceSubscription
  <2>. HIDE DEF sub, waiting, joined
  <2>. QED
    BY <2>1, <2>2, <2>3, <2>4, <2>5, <2>6
<1>. HIDE DEF sub, waiting, joined
<1>7. PICK s \in {waiting, joined, sub} : subs' = [subs EXCEPT ![i] = s]
  BY <1>3
<1>. QED
  BY <1>1, <1>3, <1>4, <1>6, <1>7 DEF AddsTo

\* What RemoveSubscription makes of a subscription that loses its last client.
RemovesFrom(i, s) ==
    /\ i \in byClientId
    /\ subs' = [subs EXCEPT ![i] = s]
    /\ byClientId' = IF subs[i].status = "Inactive" THEN byClientId \ {i} ELSE byClientId
    /\ s.status = StatusAfterRemove(subs[i].status)
    /\ s.serviceId = subs[i].serviceId
    /\ IF subs[i].status = "Active"
       THEN ToSend(UnsubscribeMessage(i, subs[i].serviceId))
       ELSE UNCHANGED outbox
    /\ subs[i].serviceId = 0 \/ subs[i].status # "Inactive" => UNCHANGED failedAsserts
    /\ UNCHANGED <<connVars, byServiceId, nextSubId, retryTimers, sockVars, inbox>>

\* The last removal changes one subscription, and sends its message if it is active.
LEMMA RemoveLastEffect ==
    ASSUME TypeOK, TrackingInv, NEW c \in Clients, RemoveLast(c)
    PROVE  \E i \in SubIds : \E s \in ServiceSubscription : RemovesFrom(i, s)
<1>0. PICK i \in SubIds : i = byUri[UriOf[c]]
  BY NamesAssumption DEF RemoveLast, TypeOK
<1>. DEFINE sub     == [subs[i] EXCEPT !.clientSubscriptions = @ \ {c},
                                       !.status = StatusAfterRemove(@)]
            waiting == [sub EXCEPT !.unsubscribeOps = @ \union {nextOp}]
            left    == [waiting EXCEPT !.subscribeOps = {}]
<1>1. /\ nextOp \in OpIds
      /\ UNCHANGED <<connVars, byServiceId, retryTimers, sockVars, inbox>>
  BY DEF RemoveLast
<1>2. subs[i] \in ServiceSubscription
  BY DEF TypeOK
<1>3. i \in byClientId
  BY <1>0, NamesAssumption DEF TrackingInv, MapsAgree, SubIds
<1>4. StatusAfterRemove(subs[i].status) \in Status
  BY <1>2 DEF ServiceSubscription, StatusAfterRemove, Status
<1>5. \A s \in {WithoutOps(sub), waiting, left} :
         /\ s \in ServiceSubscription
         /\ s.status = StatusAfterRemove(subs[i].status)
         /\ s.serviceId = subs[i].serviceId
  <2>1. \A s \in {WithoutOps(sub), waiting, left} :
           /\ s.status = StatusAfterRemove(subs[i].status)
           /\ s.serviceId = subs[i].serviceId
    BY <1>2 DEF ServiceSubscription, WithoutOps
  <2>2. sub \in ServiceSubscription
    BY <1>2, <1>4 DEF ServiceSubscription
  <2>3. waiting \in ServiceSubscription
    <3>. HIDE DEF sub
    <3>. QED  BY <1>1, <2>2 DEF ServiceSubscription
  <2>4. left \in ServiceSubscription
    <3>. HIDE DEF waiting
    <3>. QED  BY <2>3 DEF ServiceSubscription
  <2>. HIDE DEF sub, waiting, left
  <2>. QED
    BY <2>1, <2>2, <2>3, <2>4, SubWithoutOps
<1>6. sub.serviceId = subs[i].serviceId
  BY <1>2 DEF ServiceSubscription
<1>7. \/ /\ subs[i].status = "Inactive"
         /\ subs' = [subs EXCEPT ![i] = WithoutOps(sub)]
         /\ byClientId' = byClientId \ {i} /\ UNCHANGED <<nextSubId, outbox>>
         /\ AssertAt("291: serviceId == 0", sub.serviceId = 0)
      \/ /\ subs[i].status = "Active"
         /\ subs' = [subs EXCEPT ![i] = waiting]
         /\ ToSend(UnsubscribeMessage(i, sub.serviceId))
         /\ UNCHANGED <<mapVars, failedAsserts>>
      \/ /\ subs[i].status \notin {"Inactive", "Active"}
         /\ \/ subs' = [subs EXCEPT ![i] = waiting]
            \/ subs' = [subs EXCEPT ![i] = left]
         /\ UNCHANGED <<mapVars, outbox, failedAsserts>>
  BY <1>0 DEF RemoveLast, EraseSub
<1>. HIDE DEF sub, waiting, left
<1>8. PICK s \in {WithoutOps(sub), waiting, left} : subs' = [subs EXCEPT ![i] = s]
  BY <1>7
<1>. QED
  BY <1>1, <1>3, <1>5, <1>6, <1>7, <1>8 DEF RemovesFrom, AssertAt, mapVars

\* One subscription's object is replaced, and it may enter or leave the maps.
LEMMA OneSubChanges ==
    ASSUME TypeOK, UnwantedIsLeaving, IdsInStep, FreshIds, NEW i \in SubIds, NEW s,
           subs' = [subs EXCEPT ![i] = s],
           byClientId \ {i} \subseteq byClientId', byClientId' \subseteq byClientId \union {i},
           byClientId' \subseteq SubIds,
           nextSubId' \in Nat, nextSubId' >= nextSubId, i < nextSubId',
           i \in byClientId' =>
               /\ s.clientSubscriptions = {} => s.status \in {"PendingUnsubscribe", "Unsubscribing"}
               /\ s.serviceId # 0 => s.status \in {"Active", "Unsubscribing", "PendingSubscribe"}
    PROVE  /\ UnwantedIsLeaving' /\ IdsInStep'
           /\ subs'[i] = s /\ \A j \in SubIds \ {i} : subs'[j] = subs[j]
           /\ Joining \ {i} \subseteq Joining' /\ Parting \ {i} \subseteq Parting'
           /\ i \in byClientId' =>
                  /\ i \in Joining' <=> s.status \in {"Subscribing", "PendingUnsubscribe"}
                  /\ i \in Parting' <=> s.status \in {"Unsubscribing", "PendingSubscribe"}
<1>1. /\ subs \in [SubIds -> ServiceSubscription] /\ byClientId \subseteq SubIds
      /\ nextSubId \in Nat
  BY DEF TypeOK
<1>2. subs'[i] = s /\ \A j \in SubIds \ {i} : subs'[j] = subs[j]
  BY <1>1
<1>3. UnwantedIsLeaving'
  BY <1>1, <1>2 DEF UnwantedIsLeaving
<1>4. IdsInStep'
  <2>1. \A j \in byClientId' : subs'[j].serviceId # 0 =>
            subs'[j].status \in {"Active", "Unsubscribing", "PendingSubscribe"}
    BY <1>1, <1>2 DEF IdsInStep
  <2>2. \A j \in SubIds : j >= nextSubId' => subs'[j] = NewSub
    <3>. SUFFICES ASSUME NEW j \in SubIds, j >= nextSubId'
                  PROVE  subs'[j] = NewSub
      OBVIOUS
    <3>1. j # i /\ j >= nextSubId
      BY <1>1 DEF SubIds
    <3>. QED
      BY <1>2, <3>1 DEF IdsInStep
  <2>. QED
    BY <2>1, <2>2 DEF IdsInStep
<1>5. Joining \ {i} \subseteq Joining' /\ Parting \ {i} \subseteq Parting'
  BY <1>1, <1>2 DEF Joining, Parting
<1>6. i \in byClientId' =>
          /\ i \in Joining' <=> s.status \in {"Subscribing", "PendingUnsubscribe"}
          /\ i \in Parting' <=> s.status \in {"Unsubscribing", "PendingSubscribe"}
  BY <1>2 DEF Joining, Parting
<1>. QED
  BY <1>2, <1>3, <1>4, <1>5, <1>6

\* Until the first close the invariant says all its parts.
LEMMA InStepParts ==
    ASSUME InStepInv, closes = 0
    PROVE  /\ failedAsserts \subseteq {"635: event of a known subscription"} /\ UnwantedIsLeaving
           /\ OnlyExpected /\ OneMessageEach /\ IdsInStep /\ FirstConnect
BY DEF InStepInv, HandshakesStayInStep

\* An Add keeps the handshakes in step.
LEMMA AddSubscriptionInStep ==
    ASSUME TypeOK, TypeOK', TrackingInv, InStepInv, closes = 0,
           NEW c \in Clients, AddSubscription(c)
    PROVE  InStepInv'
<1>1. PICK i \in SubIds, s \in ServiceSubscription : AddsTo(i, s)
  BY AddSubscriptionEffect
<1>2. /\ subs' = [subs EXCEPT ![i] = s]
      /\ byClientId' = byClientId \union {i}
      /\ i \in byClientId \/ i = nextSubId
      /\ nextSubId' >= nextSubId /\ i < nextSubId'
      /\ s.status = StatusAfterAdd(subs[i].status)
      /\ s.serviceId = subs[i].serviceId
      /\ s.clientSubscriptions # {}
      /\ IF subs[i].status = "Inactive" /\ state = "Connected"
         THEN ToSend(SubscribeMessage(i))
         ELSE UNCHANGED outbox
      /\ UNCHANGED <<connVars, byServiceId, retryTimers, sockVars, inbox, failedAsserts>>
  BY <1>1 DEF AddsTo
<1>3. /\ byClientId' \subseteq SubIds /\ nextSubId' \in Nat /\ byClientId \subseteq SubIds
      /\ nextSubId \in Nat /\ subs[i] \in ServiceSubscription /\ subs[i].status \in Status
  <2>1. /\ byClientId' \subseteq SubIds /\ nextSubId' \in Nat /\ byClientId \subseteq SubIds
        /\ nextSubId \in Nat /\ subs[i] \in ServiceSubscription
    BY DEF TypeOK
  <2>. QED
    BY <2>1, SubFields
<1>4. i \notin byClientId => subs[i].status = "Inactive" /\ subs[i].serviceId = 0
  <2>1. i \notin byClientId => i >= nextSubId
    BY <1>2, <1>3
  <2>2. i \notin byClientId => subs[i] = NewSub
    BY <2>1, InStepParts DEF IdsInStep
  <2>. QED
    BY <2>2 DEF NewSub
<1>5. subs[i].serviceId # 0 => subs[i].status \in {"Active", "Unsubscribing", "PendingSubscribe"}
  BY <1>4, InStepParts DEF IdsInStep
<1>6. /\ UnwantedIsLeaving' /\ IdsInStep'
      /\ subs'[i] = s /\ \A j \in SubIds \ {i} : subs'[j] = subs[j]
      /\ Joining \ {i} \subseteq Joining' /\ Parting \ {i} \subseteq Parting'
      /\ i \in Joining' <=> s.status \in {"Subscribing", "PendingUnsubscribe"}
      /\ i \in Parting' <=> s.status \in {"Unsubscribing", "PendingSubscribe"}
  <2>1. s.serviceId # 0 => s.status \in {"Active", "Unsubscribing", "PendingSubscribe"}
    BY <1>2, <1>5 DEF StatusAfterAdd
  <2>2. UnwantedIsLeaving /\ IdsInStep /\ FreshIds
    BY InStepParts DEF TrackingInv
  <2>. QED
    BY <1>2, <1>3, <2>1, <2>2, OneSubChanges
<1>7. Joining \subseteq Joining' /\ Parting \subseteq Parting'
  <2>1. i \in Joining => i \in Joining'
    BY <1>2, <1>6 DEF Joining, StatusAfterAdd
  <2>2. i \in Parting => i \in Parting'
    BY <1>2, <1>6 DEF Parting, StatusAfterAdd
  <2>. QED
    BY <1>6, <2>1, <2>2
<1>8. OnlyExpected' /\ OneMessageEach'
  <2>1. OnlyExpected /\ OneMessageEach /\ UNCHANGED <<requests, inbox>>
    BY <1>2, InStepParts DEF sockVars
  <2>2. CASE UNCHANGED outbox
    BY <1>7, <2>1, <2>2, NothingSent
  <2>3. CASE subs[i].status = "Inactive" /\ ToSend(SubscribeMessage(i)) /\ state = "Connected"
    <3>. DEFINE m == SubscribeMessage(i)
    <3>1. m \in Request /\ m.clientId = i /\ m.type = "Subscribe"
      BY DEF SubscribeMessage, Request
    <3>2. i \notin Joining /\ i \notin Parting
      BY <2>3 DEF Joining, Parting
    <3>3. i \in Joining'
      BY <1>2, <1>6, <2>3 DEF StatusAfterAdd
    <3>4. ToSend(m)
      BY <2>3
    <3>. HIDE DEF m
    <3>. QED
      BY <1>7, <2>1, <3>1, <3>2, <3>3, <3>4, HandshakeBegins
  <2>. QED
    BY <1>2, <2>2, <2>3
<1>9. FirstConnect'
  <2>1. CASE state = "Connected"
    BY <1>2, <2>1, InStepParts DEF FirstConnect, connVars, sockVars
  <2>2. CASE state # "Connected"
    <3>1. subs[i].status = "Inactive"
      BY <1>4, <2>2, InStepParts DEF FirstConnect
    <3>2. s.status = "Inactive"
      BY <1>2, <2>2, <3>1 DEF StatusAfterAdd
    <3>3. \A j \in byClientId' : subs'[j].status = "Inactive"
      BY <1>2, <1>3, <1>6, <2>2, <3>2, InStepParts DEF FirstConnect
    <3>. QED
      BY <1>2, <2>2, <3>3, InStepParts DEF FirstConnect, connVars, sockVars
  <2>. QED
    BY <2>1, <2>2
<1>. QED
  BY <1>2, <1>6, <1>8, <1>9, InStepParts DEF InStepInv, HandshakesStayInStep, sockVars

\* So does the removal of a subscription's last client.
LEMMA RemoveLastInStep ==
    ASSUME TypeOK, TypeOK', TrackingInv, InStepInv, closes = 0,
           NEW c \in Clients, RemoveLast(c)
    PROVE  InStepInv'
<1>1. PICK i \in SubIds, s \in ServiceSubscription : RemovesFrom(i, s)
  BY RemoveLastEffect
<1>2. /\ i \in byClientId
      /\ subs' = [subs EXCEPT ![i] = s]
      /\ byClientId' = IF subs[i].status = "Inactive" THEN byClientId \ {i} ELSE byClientId
      /\ s.status = StatusAfterRemove(subs[i].status)
      /\ s.serviceId = subs[i].serviceId
      /\ IF subs[i].status = "Active"
         THEN ToSend(UnsubscribeMessage(i, subs[i].serviceId))
         ELSE UNCHANGED outbox
      /\ subs[i].serviceId = 0 \/ subs[i].status # "Inactive" => UNCHANGED failedAsserts
      /\ UNCHANGED <<connVars, byServiceId, nextSubId, retryTimers, sockVars, inbox>>
  BY <1>1 DEF RemovesFrom
<1>3. /\ byClientId' \subseteq SubIds /\ nextSubId \in Nat /\ byClientId \subseteq SubIds
      /\ subs[i] \in ServiceSubscription /\ subs[i].status \in Status
      /\ subs[i].serviceId \in ServiceIds \union {0}
  BY SubFields DEF TypeOK
<1>4. subs[i].serviceId # 0 => subs[i].status \in {"Active", "Unsubscribing", "PendingSubscribe"}
  BY <1>2, InStepParts DEF IdsInStep
<1>5. /\ UnwantedIsLeaving' /\ IdsInStep'
      /\ subs'[i] = s /\ \A j \in SubIds \ {i} : subs'[j] = subs[j]
      /\ Joining \ {i} \subseteq Joining' /\ Parting \ {i} \subseteq Parting'
      /\ i \in byClientId' =>
             /\ i \in Joining' <=> s.status \in {"Subscribing", "PendingUnsubscribe"}
             /\ i \in Parting' <=> s.status \in {"Unsubscribing", "PendingSubscribe"}
  <2>1. s.serviceId # 0 => s.status \in {"Active", "Unsubscribing", "PendingSubscribe"}
    BY <1>2, <1>4 DEF StatusAfterRemove
  <2>2. i \in byClientId' => s.status \in {"PendingUnsubscribe", "Unsubscribing"}
    BY <1>2, <1>3 DEF StatusAfterRemove, Status
  <2>3. UnwantedIsLeaving /\ IdsInStep /\ FreshIds
    BY InStepParts DEF TrackingInv
  <2>4. i < nextSubId /\ nextSubId' = nextSubId
    BY <1>2, <2>3 DEF FreshIds
  <2>5. byClientId \ {i} \subseteq byClientId' /\ byClientId' \subseteq byClientId \union {i}
    BY <1>2
  <2>6. nextSubId' \in Nat /\ nextSubId' >= nextSubId /\ i < nextSubId'
    BY <1>3, <2>4
  <2>. QED
    BY <1>2, <1>3, <2>1, <2>2, <2>3, <2>5, <2>6, OneSubChanges
<1>6. Joining \subseteq Joining' /\ Parting \subseteq Parting'
  <2>1. i \in Joining => i \in Joining'
    BY <1>2, <1>5 DEF Joining, StatusAfterRemove
  <2>2. i \in Parting => i \in Parting'
    BY <1>2, <1>5 DEF Parting, StatusAfterRemove
  <2>. QED
    BY <1>5, <2>1, <2>2
<1>7. OnlyExpected' /\ OneMessageEach'
  <2>1. OnlyExpected /\ OneMessageEach /\ UNCHANGED <<requests, inbox>>
    BY <1>2, InStepParts DEF sockVars
  <2>2. CASE UNCHANGED outbox
    BY <1>6, <2>1, <2>2, NothingSent
  <2>3. CASE subs[i].status = "Active" /\ ToSend(UnsubscribeMessage(i, subs[i].serviceId))
    <3>. DEFINE m == UnsubscribeMessage(i, subs[i].serviceId)
    <3>1. m \in Request /\ m.clientId = i /\ m.type = "Unsubscribe"
      BY <1>3 DEF UnsubscribeMessage, Request
    <3>2. i \notin Joining /\ i \notin Parting
      BY <2>3 DEF Joining, Parting
    <3>3. i \in Parting'
      BY <1>2, <1>5, <2>3 DEF StatusAfterRemove
    <3>4. ToSend(m)
      BY <2>3
    <3>. HIDE DEF m
    <3>. QED
      BY <1>6, <2>1, <3>1, <3>2, <3>3, <3>4, HandshakeBegins
  <2>. QED
    BY <1>2, <2>2, <2>3
<1>8. FirstConnect'
  <2>1. CASE state = "Connected"
    BY <1>2, <2>1, InStepParts DEF FirstConnect, connVars, sockVars
  <2>2. CASE state # "Connected"
    <3>1. subs[i].status = "Inactive"
      BY <1>2, <2>2, InStepParts DEF FirstConnect
    <3>2. \A j \in byClientId' : subs'[j].status = "Inactive"
      BY <1>2, <1>3, <1>5, <2>2, <3>1, InStepParts DEF FirstConnect
    <3>. QED
      BY <1>2, <2>2, <3>1, <3>2, InStepParts DEF FirstConnect, connVars, sockVars
  <2>. QED
    BY <2>1, <2>2
<1>9. UNCHANGED failedAsserts
  BY <1>2, <1>4
<1>. QED
  BY <1>2, <1>5, <1>7, <1>8, <1>9, InStepParts DEF InStepInv, HandshakesStayInStep, sockVars

\* So does the retry of a throttled subscription.
LEMMA RetrySubscribeInStep ==
    ASSUME TypeOK, TypeOK', TrackingInv, InStepInv, closes = 0,
           NEW i \in SubIds, RetrySubscribe(i)
    PROVE  InStepInv'
<1>. DEFINE s == [subs[i] EXCEPT !.status = "Subscribing"]
<1>1. /\ retryTimers[i] > 0
      /\ UNCHANGED <<connVars, mapVars, byServiceId, sockVars, inbox, failedAsserts>>
  BY DEF RetrySubscribe
<1>2. /\ state = "Connected" /\ FreshIds /\ retryTimers \in [SubIds -> Nat]
      /\ subs \in [SubIds -> ServiceSubscription] /\ byClientId \subseteq SubIds
      /\ nextSubId \in Nat
  <2>1. /\ FreshIds /\ retryTimers \in [SubIds -> Nat]
        /\ subs \in [SubIds -> ServiceSubscription] /\ byClientId \subseteq SubIds
        /\ nextSubId \in Nat
    BY DEF TypeOK, TrackingInv
  <2>2. state # "Connected" => retryTimers[i] = 0
    BY InStepParts DEF FirstConnect
  <2>. QED
    BY <1>1, <2>1, <2>2
<1>3. FirstConnect'
  BY <1>1, <1>2, InStepParts DEF FirstConnect, connVars, sockVars
<1>4. CASE UNCHANGED <<subs, outbox>>
  <2>1. UnwantedIsLeaving' /\ IdsInStep' /\ Joining' = Joining /\ Parting' = Parting
    BY <1>1, <1>4, InStepParts DEF UnwantedIsLeaving, IdsInStep, Joining, Parting, mapVars
  <2>2. OnlyExpected' /\ OneMessageEach'
    BY <1>1, <1>4, <2>1, NothingSent, InStepParts DEF sockVars
  <2>. QED
    BY <1>1, <1>3, <2>1, <2>2, InStepParts DEF InStepInv, HandshakesStayInStep, sockVars
<1>5. CASE StillThrottled(i) /\ subs' = [subs EXCEPT ![i] = s] /\ ToSend(SubscribeMessage(i))
  <2>1. /\ i \in byClientId /\ subs[i].status = "Inactive" /\ subs[i].serviceId = 0
        /\ i < nextSubId
    BY <1>2, <1>5, InStepParts DEF StillThrottled, IdsInStep, FreshIds
  <2>2. subs[i].clientSubscriptions # {}
    BY <2>1, InStepParts DEF UnwantedIsLeaving
  <2>3. /\ s.status = "Subscribing" /\ s.serviceId = 0
        /\ s.clientSubscriptions # {}
    BY <1>2, <2>1, <2>2 DEF ServiceSubscription
  <2>. HIDE DEF s
  <2>4. /\ UnwantedIsLeaving' /\ IdsInStep'
        /\ Joining \ {i} \subseteq Joining' /\ Parting \ {i} \subseteq Parting'
        /\ i \in Joining'
    <3>1. /\ UnwantedIsLeaving /\ IdsInStep /\ byClientId' = byClientId /\ nextSubId' = nextSubId
      BY <1>1, InStepParts DEF mapVars
    <3>2. /\ byClientId \ {i} \subseteq byClientId' /\ byClientId' \subseteq byClientId \union {i}
          /\ i \in byClientId' /\ byClientId' \subseteq SubIds
      BY <1>2, <2>1, <3>1
    <3>3. nextSubId' \in Nat /\ nextSubId' >= nextSubId /\ i < nextSubId'
      BY <1>2, <2>1, <3>1
    <3>. QED
      BY <1>2, <1>5, <2>3, <3>1, <3>2, <3>3, OneSubChanges
  <2>5. i \notin Joining /\ i \notin Parting
    BY <2>1 DEF Joining, Parting
  <2>6. SubscribeMessage(i) \in Request /\ SubscribeMessage(i).clientId = i
        /\ SubscribeMessage(i).type = "Subscribe"
    BY DEF SubscribeMessage, Request
  <2>7. OnlyExpected /\ OneMessageEach /\ UNCHANGED <<requests, inbox>>
    BY <1>1, InStepParts DEF sockVars
  <2>8. OnlyExpected' /\ OneMessageEach'
    <3>. DEFINE m == SubscribeMessage(i)
    <3>1. m \in Request /\ m.clientId = i /\ m.type = "Subscribe" /\ ToSend(m)
      BY <1>5, <2>6
    <3>. HIDE DEF m
    <3>. QED
      BY <2>4, <2>5, <2>7, <3>1, HandshakeBegins
  <2>. QED
    BY <1>1, <1>3, <2>4, <2>8, InStepParts DEF InStepInv, HandshakesStayInStep, sockVars
<1>. QED
  BY <1>4, <1>5 DEF RetrySubscribe

\* A step that moves no message and changes no status keeps them, too.
LEMMA SameHandshakes ==
    ASSUME TypeOK, TypeOK', InStepInv, closes = 0,
           UNCHANGED <<byClientId, nextSubId, byServiceId, retryTimers, outbox, requests,
                       registered, inbox, closes, failedAsserts>>,
           \A i \in SubIds : /\ subs'[i].status = subs[i].status
                             /\ subs'[i].serviceId = subs[i].serviceId
                             /\ subs'[i].clientSubscriptions = {} => subs[i].clientSubscriptions = {}
                             /\ i \notin byClientId => subs'[i] = subs[i],
           FreshIds,
           completion' = "ok" => wire' = "open",
           state' = "Connected" <=> state = "Connected",
           state = "Connected" => wire' = "open" /\ completion' = "none"
    PROVE  InStepInv'
<1>1. byClientId \subseteq SubIds /\ nextSubId \in Nat
  BY DEF TypeOK
<1>2. Joining' = Joining /\ Parting' = Parting
  BY <1>1 DEF Joining, Parting
<1>3. UnwantedIsLeaving'
  BY <1>1, InStepParts DEF UnwantedIsLeaving
<1>4. IdsInStep'
  <2>1. \A i \in SubIds : i >= nextSubId => i \notin byClientId
    BY <1>1 DEF FreshIds, SubIds
  <2>. QED
    BY <1>1, <2>1, InStepParts DEF IdsInStep
<1>5. OnlyExpected' /\ OneMessageEach'
  BY <1>2, NothingSent, InStepParts
<1>6. FirstConnect'
  <2>1. CASE state' = "Connected"
    BY <2>1, InStepParts DEF FirstConnect
  <2>2. CASE state' # "Connected" /\ state # "Connected"
    BY <1>1, <2>2, InStepParts DEF FirstConnect
  <2>. QED
    BY <2>1, <2>2
<1>. QED
  BY <1>3, <1>4, <1>5, <1>6, InStepParts DEF InStepInv, HandshakesStayInStep

\* The calls and the steps of the connection that leave the handshakes alone.
LEMMA QuietInStep ==
    ASSUME TypeOK, TypeOK', TrackingInv, OneDriver, InStepInv, closes = 0,
           \/ \E c \in Clients : RemoveUnknown(c) \/ RemoveShared(c)
           \/ ConnectTimerFires \/ ConnectTimerFails \/ ConnectFailed
           \/ NetworkConnects \/ NetworkRefuses
           \/ Cleanup \/ QueueTerminated
    PROVE  InStepInv'
<1>1. FreshIds /\ subs \in [SubIds -> ServiceSubscription] /\ byClientId \subseteq SubIds
  BY DEF TrackingInv, TypeOK
<1>2. /\ completion = "ok" => wire = "open"
      /\ state = "Connected" => wire = "open" /\ completion = "none"
  BY InStepParts DEF FirstConnect
<1>3. ASSUME UNCHANGED <<subs, byClientId, nextSubId, byServiceId, retryTimers, outbox, requests,
                         registered, inbox, closes, failedAsserts>>,
             completion' = "ok" => wire' = "open",
             state' = "Connected" <=> state = "Connected",
             state = "Connected" => wire' = "open" /\ completion' = "none"
      PROVE  InStepInv'
  BY <1>1, <1>3, SameHandshakes
<1>4. CASE \E c \in Clients : RemoveUnknown(c)
  BY <1>2, <1>3, <1>4 DEF RemoveUnknown, connVars, mapVars, sockVars
<1>5. CASE ConnectTimerFails \/ QueueTerminated
  BY <1>2, <1>3, <1>5 DEF ConnectTimerFails, QueueTerminated, connVars, mapVars, sockVars
<1>6. CASE NetworkConnects \/ NetworkRefuses \/ ConnectFailed
  BY <1>2, <1>3, <1>6 DEF NetworkConnects, NetworkRefuses, ConnectFailed, connVars, mapVars, sockVars
<1>7. CASE ConnectTimerFires
  <2>1. wire # "open" /\ state # "Connected"
    BY <1>2, <1>7 DEF ConnectTimerFires, OneDriver, Drivers, TypeOK
  <2>2. requests = <<>> /\ registered = [s \in ServiceIds |-> 0]
    <3>1. registered \in [ServiceIds -> SubIds \union {0}]
      BY DEF TypeOK
    <3>2. requests = <<>> /\ \A s \in ServiceIds : registered[s] = 0
      BY <2>1, InStepParts DEF FirstConnect
    <3>. QED
      BY <3>1, <3>2
  <2>3. state' = "Connecting" /\ completion' = "none"
    BY <1>7 DEF ConnectTimerFires
  <2>. QED
    BY <1>3, <1>7, <2>1, <2>2, <2>3 DEF ConnectTimerFires, mapVars
<1>8. CASE \E c \in Clients : RemoveShared(c)
  <2>1. PICK c \in Clients : RemoveShared(c)
    BY <1>8
  <2>2. PICK i \in SubIds : i = byUri[UriOf[c]]
    BY <2>1, NamesAssumption DEF RemoveShared, TypeOK
  <2>. DEFINE sub == [subs[i] EXCEPT !.clientSubscriptions = @ \ {c}]
  <2>3. subs' = [subs EXCEPT ![i] = sub] /\ sub.clientSubscriptions # {}
    BY <2>1, <2>2 DEF RemoveShared
  <2>4. i \in byClientId
    BY <2>2, NamesAssumption DEF TrackingInv, MapsAgree, SubIds
  <2>5. sub.status = subs[i].status /\ sub.serviceId = subs[i].serviceId
    BY <1>1 DEF ServiceSubscription
  <2>. HIDE DEF sub
  <2>6. subs'[i] = sub /\ \A j \in SubIds \ {i} : subs'[j] = subs[j]
    BY <1>1, <2>3
  <2>7. UNCHANGED <<byClientId, nextSubId, byServiceId, retryTimers, outbox, requests,
                    registered, inbox, closes, failedAsserts, state, wire, completion>>
    BY <2>1 DEF RemoveShared, connVars, mapVars, sockVars
  <2>8. \A j \in SubIds : /\ subs'[j].status = subs[j].status
                          /\ subs'[j].serviceId = subs[j].serviceId
                          /\ subs'[j].clientSubscriptions = {} => subs[j].clientSubscriptions = {}
                          /\ j \notin byClientId => subs'[j] = subs[j]
    BY <2>3, <2>4, <2>5, <2>6
  <2>. QED
    BY <1>1, <1>2, <2>7, <2>8, SameHandshakes
<1>9. CASE Cleanup
  <2>1. /\ UNCHANGED <<byClientId, nextSubId, byServiceId, retryTimers, outbox, requests,
                       registered, inbox, closes, failedAsserts, state, wire, completion>>
        /\ subs' = [i \in SubIds |-> IF i \in byClientId THEN WithoutOps(subs[i]) ELSE subs[i]]
    BY <1>9 DEF Cleanup, connVars, mapVars, sockVars
  <2>2. ASSUME NEW s \in ServiceSubscription
        PROVE  /\ WithoutOps(s).status = s.status /\ WithoutOps(s).serviceId = s.serviceId
               /\ WithoutOps(s).clientSubscriptions = s.clientSubscriptions
    BY DEF ServiceSubscription, WithoutOps
  <2>3. \A j \in SubIds : /\ subs'[j].status = subs[j].status
                          /\ subs'[j].serviceId = subs[j].serviceId
                          /\ subs'[j].clientSubscriptions = {} => subs[j].clientSubscriptions = {}
                          /\ j \notin byClientId => subs'[j] = subs[j]
    BY <1>1, <2>1, <2>2
  <2>. QED
    BY <1>1, <1>2, <2>1, <2>3, SameHandshakes
<1>. QED
  BY <1>4, <1>5, <1>6, <1>7, <1>8, <1>9

\* A message that moves on keeps them.
LEMMA MessagesInStep ==
    ASSUME TypeOK, TypeOK', InStepInv, closes = 0,
           \/ \E m \in Request : SendAssembledMessage(m)
           \/ \E sid \in ServiceIds : ServiceGrants(sid) \/ ServiceRaisesEvent(sid)
           \/ \E code \in Codes : ServiceDeclines(code)
           \/ \E code \in UnsubscribeCodes : ServiceReleases(code)
    PROVE  InStepInv'
<1>1. /\ OnlyExpected /\ OneMessageEach /\ inbox \in Seq(Message) /\ requests \in Seq(Request)
  BY InStepParts DEF TypeOK
<1>2. /\ completion = "ok" => wire = "open"
      /\ state = "Connected" => wire = "open" /\ completion = "none"
      /\ state # "Connected" =>
             /\ \A m \in Request : outbox[m] = 0
             /\ requests = <<>> /\ \A s \in ServiceIds : registered[s] = 0
  BY InStepParts DEF FirstConnect
<1>3. ASSUME UNCHANGED <<subs, byClientId, nextSubId, byServiceId, retryTimers, closes,
                         failedAsserts, state, wire, completion>>,
             state = "Connected", OnlyExpected', OneMessageEach'
      PROVE  InStepInv'
  <2>1. UnwantedIsLeaving'
    BY <1>3, InStepParts DEF UnwantedIsLeaving
  <2>2. IdsInStep'
    BY <1>3, InStepParts DEF IdsInStep
  <2>3. FirstConnect'
    BY <1>2, <1>3 DEF FirstConnect
  <2>. QED
    BY <1>3, <2>1, <2>2, <2>3, InStepParts DEF InStepInv, HandshakesStayInStep
<1>4. CASE \E m \in Request : SendAssembledMessage(m)
  <2>1. PICK m \in Request : SendAssembledMessage(m)
    BY <1>4
  <2>2. state = "Connected"
    BY <1>2, <2>1 DEF SendAssembledMessage
  <2>3. OnlyExpected' /\ OneMessageEach'
    BY <1>1, <1>2, <2>1, <2>2, MessageSent
  <2>. QED
    BY <1>3, <2>1, <2>2, <2>3 DEF SendAssembledMessage, connVars, mapVars
<1>5. CASE \E sid \in ServiceIds : ServiceRaisesEvent(sid)
  <2>1. PICK sid \in ServiceIds : ServiceRaisesEvent(sid)
    BY <1>5
  <2>2. state = "Connected"
    BY <1>2, <2>1 DEF ServiceRaisesEvent
  <2>. DEFINE e == [type |-> "Event", clientId |-> 0, code |-> "none", serviceId |-> sid]
  <2>3. /\ e \in Message /\ e.type = "Event" /\ inbox' = Append(inbox, e)
        /\ UNCHANGED <<subs, mapVars, byServiceId, retryTimers, closes, failedAsserts, connVars,
                       wire, completion, outbox, requests>>
    BY <2>1 DEF ServiceRaisesEvent, Reply, Message
  <2>. HIDE DEF e
  <2>4. Joining \subseteq Joining' /\ Parting \subseteq Parting'
    BY <2>3 DEF Joining, Parting, mapVars
  <2>5. OnlyExpected' /\ OneMessageEach'
    BY <1>1, <2>3, <2>4, NothingSent
  <2>. QED
    BY <1>3, <2>2, <2>3, <2>5 DEF connVars, mapVars
<1>6. ASSUME requests # <<>>, requests' = Tail(requests), NEW r \in Message, Reply(r),
             r.clientId = Head(requests).clientId,
             \/ Head(requests).type = "Subscribe" /\ r.type = "SubscribeResponse"
             \/ Head(requests).type = "Unsubscribe" /\ r.type = "UnsubscribeResponse"
      PROVE  InStepInv'
  <2>1. /\ inbox' = Append(inbox, r) /\ UNCHANGED <<subs, mapVars, outbox>>
        /\ UNCHANGED <<byServiceId, retryTimers, closes, failedAsserts, connVars, wire, completion>>
    BY <1>6 DEF Reply
  <2>2. OnlyExpected' /\ OneMessageEach'
    BY <1>1, <1>6, <2>1, RequestAnswered
  <2>3. state = "Connected"
    BY <1>2, <1>6
  <2>. QED
    BY <1>3, <2>1, <2>2, <2>3 DEF connVars, mapVars
<1>7. requests # <<>> => Head(requests) \in Request /\ Head(requests).clientId \in SubIds
  BY <1>1 DEF Request
<1>8. CASE \E sid \in ServiceIds : ServiceGrants(sid)
  <2>1. PICK sid \in ServiceIds : ServiceGrants(sid)
    BY <1>8
  <2>. DEFINE r == [type |-> "SubscribeResponse", clientId |-> Head(requests).clientId,
                    code |-> "Success", serviceId |-> sid]
  <2>2. /\ requests # <<>> /\ requests' = Tail(requests) /\ Reply(r)
        /\ Head(requests).type = "Subscribe"
    BY <2>1 DEF ServiceGrants
  <2>3. r \in Message /\ r.clientId = Head(requests).clientId /\ r.type = "SubscribeResponse"
    BY <1>7, <2>1, <2>2 DEF Message, ServiceGrants
  <2>. HIDE DEF r
  <2>. QED
    BY <1>6, <2>2, <2>3
<1>9. CASE \E code \in Codes : ServiceDeclines(code)
  <2>1. PICK code \in Codes : ServiceDeclines(code)
    BY <1>9
  <2>. DEFINE r == [type |-> "SubscribeResponse", clientId |-> Head(requests).clientId,
                    code |-> code, serviceId |-> 0]
  <2>2. /\ requests # <<>> /\ requests' = Tail(requests) /\ Reply(r)
        /\ Head(requests).type = "Subscribe"
    BY <2>1 DEF ServiceDeclines
  <2>3. r \in Message /\ r.clientId = Head(requests).clientId /\ r.type = "SubscribeResponse"
    BY <1>7, <2>2 DEF Message
  <2>. HIDE DEF r
  <2>. QED
    BY <1>6, <2>2, <2>3
<1>10. CASE \E code \in UnsubscribeCodes : ServiceReleases(code)
  <2>1. PICK code \in UnsubscribeCodes : ServiceReleases(code)
    BY <1>10
  <2>. DEFINE r == [type |-> "UnsubscribeResponse", clientId |-> Head(requests).clientId,
                    code |-> code, serviceId |-> 0]
  <2>2. /\ requests # <<>> /\ requests' = Tail(requests) /\ Reply(r)
        /\ Head(requests).type = "Unsubscribe"
    BY <2>1 DEF ServiceReleases
  <2>3. r \in Message /\ r.clientId = Head(requests).clientId /\ r.type = "UnsubscribeResponse"
    BY <1>7, <2>2 DEF Message
  <2>. HIDE DEF r
  <2>. QED
    BY <1>6, <2>2, <2>3
<1>. QED
  BY <1>4, <1>5, <1>8, <1>9, <1>10

\* The first connect finds every subscription inactive and sends for each of them.
LEMMA ConnectSucceededInStep ==
    ASSUME TypeOK, TypeOK', TrackingInv, InStepInv, closes = 0, ConnectSucceeded
    PROVE  InStepInv'
<1>1. /\ completion = "ok" /\ completion' = "none" /\ state' = "Connected"
      /\ subs' = [i \in SubIds |-> IF i \in byClientId
                                   THEN [subs[i] EXCEPT !.status = "Subscribing"]
                                   ELSE subs[i]]
      /\ outbox' = [m \in Request |-> IF m.type = "Subscribe" /\ m.clientId \in byClientId
                                      THEN outbox[m] + 1 ELSE outbox[m]]
      /\ UNCHANGED <<byClientId, nextSubId, byServiceId, retryTimers, wire, requests,
                     registered, closes, inbox>>
  BY DEF ConnectSucceeded, mapVars
<1>2. /\ wire = "open" /\ state # "Connected"
      /\ \A m \in Request : outbox[m] = 0
      /\ requests = <<>> /\ inbox = <<>>
      /\ \A i \in byClientId : subs[i].status = "Inactive"
      /\ \A s \in ServiceIds \union {0} : byServiceId[s] = 0
  BY <1>1, InStepParts DEF FirstConnect
<1>3. /\ subs \in [SubIds -> ServiceSubscription] /\ byClientId \subseteq SubIds
      /\ nextSubId \in Nat /\ FreshIds
      /\ byServiceId \in [ServiceIds \union {0} -> SubIds \union {0}]
  BY DEF TypeOK, TrackingInv
<1>4. UNCHANGED failedAsserts
  BY <1>2, <1>3 DEF ConnectSucceeded
<1>5. \A i \in byClientId : /\ subs'[i].status = "Subscribing"
                            /\ subs'[i].serviceId = subs[i].serviceId
                            /\ subs'[i].clientSubscriptions = subs[i].clientSubscriptions
  BY <1>1, <1>3 DEF ServiceSubscription
<1>6. UnwantedIsLeaving'
  BY <1>1, <1>2, <1>5, InStepParts DEF UnwantedIsLeaving
<1>7. IdsInStep'
  <2>1. \A i \in byClientId : subs[i].serviceId = 0
    BY <1>2, InStepParts DEF IdsInStep
  <2>2. \A i \in SubIds : i >= nextSubId => subs'[i] = subs[i]
    BY <1>1, <1>3 DEF FreshIds, SubIds
  <2>. QED
    BY ZenonT(30), <1>1, <1>5, <2>1, <2>2, InStepParts DEF IdsInStep
<1>8. Joining' = byClientId
  BY <1>1, <1>5 DEF Joining
<1>9. Answers' = {}
  BY <1>1, <1>2 DEF Answers
<1>10. \A m \in Request : /\ outbox'[m] \in {0, 1}
                          /\ outbox'[m] > 0 => m.type = "Subscribe" /\ m.clientId \in byClientId
  BY <1>1, <1>2
<1>11. OnlyExpected'
  BY <1>1, <1>2, <1>8, <1>9, <1>10 DEF OnlyExpected
<1>12. OneMessageEach'
  <2>1. \A m, n \in Request : m.type = "Subscribe" /\ n.type = "Subscribe" /\ m # n =>
            m.clientId # n.clientId
    BY DEF Request
  <2>. QED
    BY <1>1, <1>2, <1>9, <1>10, <2>1 DEF OneMessageEach
<1>13. FirstConnect'
  BY <1>1, <1>2 DEF FirstConnect
<1>. QED
  BY <1>1, <1>4, <1>6, <1>7, <1>11, <1>12, <1>13, InStepParts DEF InStepInv, HandshakesStayInStep

\* What the handler of a response makes of its subscription, while the
\* handshakes are in step: the answer to a subscribe,
SubscribeAnswered(m, i, s) ==
    /\ m.type = "SubscribeResponse" /\ i \in Joining
    /\ UNCHANGED <<nextSubId, failedAsserts>>
    /\ s.clientSubscriptions = subs[i].clientSubscriptions
    /\ \/ /\ m.code = "Success" /\ subs[i].status = "Subscribing"
          /\ s.status = "Active" /\ s.serviceId = m.serviceId
          /\ BindServiceId(m.serviceId, i)
          /\ UNCHANGED <<byClientId, retryTimers, outbox>>
       \/ /\ m.code = "Success" /\ subs[i].status = "PendingUnsubscribe"
          /\ s.status = "Unsubscribing" /\ s.serviceId = m.serviceId
          /\ BindServiceId(m.serviceId, i)
          /\ ToSend(UnsubscribeMessage(i, m.serviceId))
          /\ UNCHANGED <<byClientId, retryTimers>>
       \/ /\ m.code = "Denied" /\ s = subs[i]
          /\ UNCHANGED <<byClientId, byServiceId, retryTimers, outbox>>
       \/ /\ m.code = "Throttled" /\ subs[i].status = "Subscribing"
          /\ s.status = "Inactive" /\ s.serviceId = subs[i].serviceId
          /\ retryTimers' = [retryTimers EXCEPT ![i] = @ + 1]
          /\ UNCHANGED <<byClientId, byServiceId, outbox>>
       \/ /\ m.code = "Throttled" /\ subs[i].status = "PendingUnsubscribe"
          /\ s.serviceId = subs[i].serviceId
          /\ byClientId' = byClientId \ {i}
          /\ UNCHANGED <<byServiceId, retryTimers, outbox>>

\* and to an unsubscribe.
UnsubscribeAnswered(m, i, s) ==
    /\ m.type = "UnsubscribeResponse" /\ i \in Parting
    /\ BindServiceId(subs[i].serviceId, 0)
    /\ UNCHANGED <<nextSubId, retryTimers, failedAsserts>>
    /\ s.clientSubscriptions = subs[i].clientSubscriptions /\ s.serviceId = 0
    /\ \/ /\ subs[i].status = "Unsubscribing"
          /\ byClientId' = byClientId \ {i}
          /\ UNCHANGED outbox
       \/ /\ subs[i].status = "PendingSubscribe"
          /\ s.status = "Subscribing"
          /\ ToSend(SubscribeMessage(i))
          /\ UNCHANGED byClientId

\* A response is expected, and its handler changes one subscription.
LEMMA ResponseEffect ==
    ASSUME TypeOK, InStepInv, closes = 0, NEW k \in Answers,
           WebsocketMessageReceived(k), NEW m, m = inbox[k], NEW i, i = m.clientId
    PROVE  /\ i \in SubIds /\ phase' = phase
           /\ \E s \in ServiceSubscription :
                  /\ subs' = [subs EXCEPT ![i] = s]
                  /\ SubscribeAnswered(m, i, s) \/ UnsubscribeAnswered(m, i, s)
<1>1. /\ subs \in [SubIds -> ServiceSubscription] /\ byClientId \subseteq SubIds
      /\ inbox \in Seq(Message) /\ k \in 1..Len(inbox)
  BY DEF TypeOK, Answers
<1>2. /\ m \in Message /\ m.type \in {"SubscribeResponse", "UnsubscribeResponse"}
      /\ m.serviceId \in ServiceIds \union {0}
  <2>1. m \in Message /\ m.serviceId \in ServiceIds \union {0}
    BY <1>1, MessageType
  <2>2. m.type # "Event"
    BY DEF Answers
  <2>. QED
    BY <2>1, <2>2 DEF Message
<1>3. i \in IF m.type = "SubscribeResponse" THEN Joining ELSE Parting
  BY InStepParts DEF OnlyExpected
<1>4. i \in byClientId /\ i \in SubIds /\ subs[i] \in ServiceSubscription
  BY <1>1, <1>3 DEF Joining, Parting
<1>5. \/ SubscribeSucceeded(m) \/ SubscribeDenied(m) \/ SubscribeThrottled(m)
      \/ UnsubscribeResponse(m)
  BY <1>2, <1>4 DEF WebsocketMessageReceived, IgnoreResponse, EventHandler
<1>6. CASE SubscribeSucceeded(m)
  <2>. DEFINE sub == [subs[i] EXCEPT !.serviceId = m.serviceId, !.subscribeOps = {}]
              active == [sub EXCEPT !.status = "Active"]
              leaving == [sub EXCEPT !.status = "Unsubscribing"]
  <2>1. /\ m.type = "SubscribeResponse" /\ m.code = "Success"
        /\ subs[i].status \in {"Subscribing", "PendingUnsubscribe"}
        /\ UNCHANGED <<phase, mapVars, retryTimers>> /\ BindServiceId(m.serviceId, i)
    BY <1>3, <1>6 DEF SubscribeSucceeded, Joining
  <2>2. sub.status = subs[i].status
    BY <1>4 DEF ServiceSubscription
  <2>3. \/ /\ subs[i].status = "Subscribing"
           /\ subs' = [subs EXCEPT ![i] = active]
           /\ UNCHANGED <<outbox, failedAsserts>>
        \/ /\ subs[i].status = "PendingUnsubscribe"
           /\ subs' = [subs EXCEPT ![i] = leaving]
           /\ ToSend(UnsubscribeMessage(i, m.serviceId))
           /\ UNCHANGED failedAsserts
    BY <1>6, <2>1, <2>2 DEF SubscribeSucceeded
  <2>4. /\ active.serviceId = m.serviceId /\ leaving.serviceId = m.serviceId
        /\ active.status = "Active" /\ leaving.status = "Unsubscribing"
        /\ active.clientSubscriptions = subs[i].clientSubscriptions
        /\ leaving.clientSubscriptions = subs[i].clientSubscriptions
    BY <1>4 DEF ServiceSubscription
  <2>5. active \in ServiceSubscription /\ leaving \in ServiceSubscription
    BY <1>2, <1>4 DEF ServiceSubscription, Status
  <2>. HIDE DEF sub, active, leaving
  <2>6. i \in Joining
    BY <1>3, <2>1
  <2>7. subs[i].status = "Subscribing" => SubscribeAnswered(m, i, active)
    BY <2>1, <2>3, <2>4, <2>6 DEF SubscribeAnswered, mapVars
  <2>8. subs[i].status = "PendingUnsubscribe" => SubscribeAnswered(m, i, leaving)
    BY <2>1, <2>3, <2>4, <2>6 DEF SubscribeAnswered, mapVars
  <2>. QED
    BY <1>4, <2>1, <2>3, <2>5, <2>7, <2>8
<1>7. CASE SubscribeDenied(m)
  <2>1. /\ m.type = "SubscribeResponse" /\ m.code = "Denied"
        /\ UNCHANGED <<phase, subs, mapVars, byServiceId, retryTimers, outbox, failedAsserts>>
    BY <1>7 DEF SubscribeDenied
  <2>2. subs' = [subs EXCEPT ![i] = subs[i]]
    BY <1>1, <1>4, <2>1
  <2>3. SubscribeAnswered(m, i, subs[i])
    BY <1>3, <2>1 DEF SubscribeAnswered, mapVars
  <2>. QED
    BY <1>4, <2>1, <2>2, <2>3
<1>8. CASE SubscribeThrottled(m)
  <2>. DEFINE sub == [subs[i] EXCEPT !.status = "Inactive"]
  <2>1. /\ m.type = "SubscribeResponse" /\ m.code = "Throttled"
        /\ subs[i].status \in {"Subscribing", "PendingUnsubscribe"}
        /\ UNCHANGED <<phase, byServiceId, outbox>>
    BY <1>3, <1>8 DEF SubscribeThrottled, Joining
  <2>2. \/ /\ subs[i].status = "Subscribing"
           /\ subs' = [subs EXCEPT ![i] = sub]
           /\ retryTimers' = [retryTimers EXCEPT ![i] = @ + 1]
           /\ UNCHANGED <<byClientId, nextSubId, failedAsserts>>
        \/ /\ subs[i].status = "PendingUnsubscribe"
           /\ subs' = [subs EXCEPT ![i] = WithoutOps(sub)]
           /\ byClientId' = byClientId \ {i}
           /\ UNCHANGED <<nextSubId, retryTimers, failedAsserts>>
    BY <1>8, <2>1 DEF SubscribeThrottled, EraseSub, mapVars
  <2>3. /\ sub.serviceId = subs[i].serviceId /\ sub.status = "Inactive"
        /\ sub.clientSubscriptions = subs[i].clientSubscriptions
        /\ WithoutOps(sub).clientSubscriptions = subs[i].clientSubscriptions
        /\ WithoutOps(sub).serviceId = subs[i].serviceId
    BY <1>4 DEF ServiceSubscription, WithoutOps
  <2>4. sub \in ServiceSubscription
    BY <1>4, SubStatus DEF Status
  <2>5. WithoutOps(sub) \in ServiceSubscription
    BY <2>4, SubWithoutOps
  <2>. HIDE DEF sub
  <2>6. i \in Joining
    BY <1>3, <2>1
  <2>7. subs[i].status = "Subscribing" => SubscribeAnswered(m, i, sub)
    BY <2>1, <2>2, <2>3, <2>6 DEF SubscribeAnswered
  <2>8. subs[i].status = "PendingUnsubscribe" => SubscribeAnswered(m, i, WithoutOps(sub))
    BY <2>1, <2>2, <2>3, <2>6 DEF SubscribeAnswered
  <2>. QED
    BY <1>4, <2>1, <2>2, <2>4, <2>5, <2>7, <2>8
<1>9. CASE UnsubscribeResponse(m)
  <2>. DEFINE sub == [subs[i] EXCEPT !.serviceId = 0, !.unsubscribeOps = {}]
              gone == [sub EXCEPT !.status = "Inactive"]
              again == [sub EXCEPT !.status = "Subscribing"]
  <2>1. /\ m.type = "UnsubscribeResponse"
        /\ subs[i].status \in {"Unsubscribing", "PendingSubscribe"}
        /\ UNCHANGED <<phase, retryTimers>> /\ BindServiceId(subs[i].serviceId, 0)
    BY <1>3, <1>9 DEF UnsubscribeResponse, Parting
  <2>2. sub.status = subs[i].status
    BY <1>4 DEF ServiceSubscription
  <2>3. \/ /\ subs[i].status = "Unsubscribing"
           /\ subs' = [subs EXCEPT ![i] = gone]
           /\ byClientId' = byClientId \ {i}
           /\ UNCHANGED <<nextSubId, outbox, failedAsserts>>
        \/ /\ subs[i].status = "PendingSubscribe"
           /\ subs' = [subs EXCEPT ![i] = again]
           /\ ToSend(SubscribeMessage(i))
           /\ UNCHANGED <<byClientId, nextSubId, failedAsserts>>
    BY <1>9, <2>1, <2>2 DEF UnsubscribeResponse, EraseSub, mapVars
  <2>4. /\ gone.serviceId = 0 /\ again.serviceId = 0 /\ again.status = "Subscribing"
        /\ gone.clientSubscriptions = subs[i].clientSubscriptions
        /\ again.clientSubscriptions = subs[i].clientSubscriptions
    BY <1>4 DEF ServiceSubscription
  <2>5. gone \in ServiceSubscription /\ again \in ServiceSubscription
    BY <1>4 DEF ServiceSubscription, Status
  <2>. HIDE DEF sub, gone, again
  <2>6. i \in Parting
    BY <1>3, <2>1
  <2>7. subs[i].status = "Unsubscribing" => UnsubscribeAnswered(m, i, gone)
    BY <2>1, <2>3, <2>4, <2>6 DEF UnsubscribeAnswered
  <2>8. subs[i].status = "PendingSubscribe" => UnsubscribeAnswered(m, i, again)
    BY <2>1, <2>3, <2>4, <2>6 DEF UnsubscribeAnswered
  <2>. QED
    BY <1>4, <2>1, <2>3, <2>5, <2>7, <2>8
<1>. QED
  BY <1>5, <1>6, <1>7, <1>8, <1>9

\* The handler of a message keeps them.
LEMMA MessageReceivedInStep ==
    ASSUME TypeOK, TypeOK', TrackingInv, InStepInv, closes = 0,
           NEW k \in 1..Len(inbox), WebsocketMessageReceived(k)
    PROVE  InStepInv'
<1>1. /\ subs \in [SubIds -> ServiceSubscription] /\ byClientId \subseteq SubIds
      /\ byClientId' \subseteq SubIds
      /\ inbox \in Seq(Message) /\ nextSubId \in Nat /\ FreshIds
  BY DEF TypeOK, TrackingInv
<1>2. /\ inbox' = RemoveAt(inbox, k)
      /\ UNCHANGED <<connVars, sockVars>>
  BY DEF WebsocketMessageReceived, Dequeue
<1>3. FirstConnect'
  <2>1. inbox # <<>>
    OBVIOUS
  <2>2. /\ state = "Connected" /\ wire = "open" /\ completion = "none"
    BY <2>1, InStepParts DEF FirstConnect
  <2>. QED
    BY <1>2, <2>2 DEF FirstConnect, connVars, sockVars
<1>4. OnlyExpected /\ OneMessageEach /\ IdsInStep /\ UnwantedIsLeaving
  BY InStepParts
<1>5. CASE inbox[k].type = "Event"
  <2>1. /\ UNCHANGED <<subs, mapVars, outbox>>
        /\ AssertAt("635: event of a known subscription", byServiceId[inbox[k].serviceId] # 0)
    BY <1>5 DEF WebsocketMessageReceived, IgnoreResponse, SubscribeSucceeded, SubscribeDenied,
       SubscribeThrottled, UnsubscribeResponse, EventHandler
  <2>2. Joining' = Joining /\ Parting' = Parting
    BY <2>1 DEF Joining, Parting, mapVars
  <2>3. OnlyExpected' /\ OneMessageEach'
    <3>. DEFINE i == inbox[k].clientId
    <3>1. i = inbox[k].clientId
      OBVIOUS
    <3>. HIDE DEF i
    <3>. QED
      BY <1>2, <1>4, <2>1, <2>2, <3>1, ResponseHandled DEF sockVars
  <2>4. UnwantedIsLeaving' /\ IdsInStep'
    BY <1>4, <2>1 DEF UnwantedIsLeaving, IdsInStep, mapVars
  <2>5. failedAsserts' \subseteq {"635: event of a known subscription"}
    BY <2>1, InStepParts DEF AssertAt
  <2>. QED
    BY <1>2, <1>3, <2>3, <2>4, <2>5 DEF InStepInv, HandshakesStayInStep, sockVars
<1>6. CASE k \in Answers
  <2>. DEFINE mm == inbox[k]
              ii == inbox[k].clientId
  <2>1. PICK m, i : m = mm /\ i = ii
    OBVIOUS
  <2>2. /\ i \in SubIds
        /\ \E s \in ServiceSubscription :
               /\ subs' = [subs EXCEPT ![i] = s]
               /\ SubscribeAnswered(m, i, s) \/ UnsubscribeAnswered(m, i, s)
    BY <1>6, <2>1, ResponseEffect
  <2>3. PICK s \in ServiceSubscription :
            /\ subs' = [subs EXCEPT ![i] = s]
            /\ SubscribeAnswered(m, i, s) \/ UnsubscribeAnswered(m, i, s)
    BY <2>2
  <2>4. /\ i \in byClientId /\ i < nextSubId /\ nextSubId' = nextSubId
        /\ UNCHANGED failedAsserts
        /\ byClientId' \in {byClientId, byClientId \ {i}}
        /\ m.serviceId \in ServiceIds \union {0}
        /\ subs[i].serviceId \in ServiceIds \union {0}
    <3>1. i \in byClientId /\ subs[i] \in ServiceSubscription
      BY <1>1, <2>3 DEF SubscribeAnswered, UnsubscribeAnswered, Joining, Parting
    <3>2. m.serviceId \in ServiceIds \union {0}
      BY <1>1, <2>1, MessageType
    <3>3. i < nextSubId
      BY <1>1, <3>1 DEF FreshIds
    <3>. QED
      BY <2>3, <3>1, <3>2, <3>3, SubFields DEF SubscribeAnswered, UnsubscribeAnswered
  <2>5. i \in byClientId' =>
            /\ s.clientSubscriptions = {} => s.status \in {"PendingUnsubscribe", "Unsubscribing"}
            /\ s.serviceId # 0 => s.status \in {"Active", "Unsubscribing", "PendingSubscribe"}
    <3>1. subs[i].clientSubscriptions = {} =>
              subs[i].status \in {"PendingUnsubscribe", "Unsubscribing"}
      BY <1>4, <2>4 DEF UnwantedIsLeaving
    <3>2. subs[i].serviceId # 0 => subs[i].status \in {"Active", "Unsubscribing", "PendingSubscribe"}
      BY <1>4, <2>4 DEF IdsInStep
    <3>3. i \in Joining => subs[i].status \in {"Subscribing", "PendingUnsubscribe"}
      BY DEF Joining
    <3>4. CASE SubscribeAnswered(m, i, s)
      BY <3>1, <3>2, <3>3, <3>4 DEF SubscribeAnswered
    <3>5. CASE UnsubscribeAnswered(m, i, s)
      BY <3>1, <3>2, <3>5 DEF UnsubscribeAnswered
    <3>. QED
      BY <2>3, <3>4, <3>5
  <2>6. /\ UnwantedIsLeaving' /\ IdsInStep'
        /\ Joining \ {i} \subseteq Joining' /\ Parting \ {i} \subseteq Parting'
        /\ i \in byClientId' =>
               /\ i \in Joining' <=> s.status \in {"Subscribing", "PendingUnsubscribe"}
               /\ i \in Parting' <=> s.status \in {"Unsubscribing", "PendingSubscribe"}
    <3>1. /\ byClientId \ {i} \subseteq byClientId' /\ byClientId' \subseteq byClientId \union {i}
          /\ nextSubId' \in Nat /\ nextSubId' >= nextSubId /\ i < nextSubId'
      BY <1>1, <2>4
    <3>. QED
      BY <1>1, <1>4, <2>2, <2>3, <2>5, <3>1, OneSubChanges
  <2>7. \/ UNCHANGED outbox
        \/ \E r \in Request : /\ ToSend(r) /\ r.clientId = i
                              /\ r.clientId \in IF r.type = "Subscribe" THEN Joining' ELSE Parting'
    <3>1. CASE UNCHANGED outbox
      BY <3>1
    <3>2. CASE ToSend(UnsubscribeMessage(i, m.serviceId)) /\ s.status = "Unsubscribing"
               /\ UNCHANGED byClientId
      <4>. DEFINE r == UnsubscribeMessage(i, m.serviceId)
      <4>1. r \in Request /\ r.clientId = i /\ r.type = "Unsubscribe"
        BY <2>2, <2>4 DEF UnsubscribeMessage, Request
      <4>2. ToSend(r) /\ i \in Parting'
        BY <2>4, <2>6, <3>2
      <4>. HIDE DEF r
      <4>. QED
        BY <4>1, <4>2
    <3>3. CASE ToSend(SubscribeMessage(i)) /\ s.status = "Subscribing" /\ UNCHANGED byClientId
      <4>. DEFINE r == SubscribeMessage(i)
      <4>1. r \in Request /\ r.clientId = i /\ r.type = "Subscribe"
        BY <2>2 DEF SubscribeMessage, Request
      <4>2. ToSend(r) /\ i \in Joining'
        BY <2>4, <2>6, <3>3
      <4>. HIDE DEF r
      <4>. QED
        BY <4>1, <4>2
    <3>. QED
      BY <2>3, <3>1, <3>2, <3>3 DEF SubscribeAnswered, UnsubscribeAnswered
  <2>8. OnlyExpected' /\ OneMessageEach'
    BY <1>2, <1>4, <1>6, <2>1, <2>6, <2>7, ResponseHandled DEF sockVars
  <2>. QED
    BY <1>2, <1>3, <2>4, <2>6, <2>8, InStepParts DEF InStepInv, HandshakesStayInStep, sockVars
<1>. QED
  BY <1>5, <1>6 DEF Answers

\* Every step keeps the handshakes in step until the first close.
LEMMA NextInStep ==
    ASSUME TypeOK, TypeOK', TrackingInv, OneDriver, InStepInv, [Next]_vars
    PROVE  InStepInv'
<1>. SUFFICES ASSUME closes' = 0
              PROVE  InStepInv'
  BY DEF InStepInv
<1>1. closes \in Nat
  BY DEF TypeOK
<1>2. CASE DisconnectHandler
  BY <1>1, <1>2 DEF DisconnectHandler
<1>3. CASE UNCHANGED vars
  <2>1. UNCHANGED <<subs, byClientId, nextSubId, byServiceId, retryTimers, outbox, requests,
                    registered, inbox, closes, failedAsserts, state, wire, completion>>
    BY <1>3 DEF vars, connVars, mapVars, sockVars, opVars
  <2>2. closes = 0 /\ FreshIds
    BY <2>1 DEF TrackingInv
  <2>3. /\ completion = "ok" => wire = "open"
        /\ state = "Connected" => wire = "open" /\ completion = "none"
    BY <2>2, InStepParts DEF FirstConnect
  <2>. QED
    BY <2>1, <2>2, <2>3, SameHandshakes
<1>4. CASE \E c \in Clients : AddSubscription(c)
  <2>1. closes = 0
    BY <1>4 DEF AddSubscription, sockVars
  <2>. QED
    BY <1>4, <2>1, AddSubscriptionInStep
<1>5. CASE \E c \in Clients : RemoveLast(c)
  <2>1. closes = 0
    BY <1>5 DEF RemoveLast, sockVars
  <2>. QED
    BY <1>5, <2>1, RemoveLastInStep
<1>6. CASE \E i \in SubIds : RetrySubscribe(i)
  <2>1. closes = 0
    BY <1>6 DEF RetrySubscribe, sockVars
  <2>. QED
    BY <1>6, <2>1, RetrySubscribeInStep
<1>7. CASE \/ \E c \in Clients : RemoveUnknown(c) \/ RemoveShared(c)
           \/ ConnectTimerFires \/ ConnectTimerFails \/ ConnectFailed
           \/ NetworkConnects \/ NetworkRefuses
           \/ Cleanup \/ QueueTerminated
  <2>1. closes = 0
    BY <1>7 DEF RemoveUnknown, RemoveShared, ConnectTimerFires, ConnectTimerFails, ConnectFailed,
       NetworkConnects, NetworkRefuses, Cleanup, QueueTerminated, sockVars
  <2>. QED
    BY <1>7, <2>1, QuietInStep
<1>8. CASE \/ \E m \in Request : SendAssembledMessage(m)
           \/ \E sid \in ServiceIds : ServiceGrants(sid) \/ ServiceRaisesEvent(sid)
           \/ \E code \in Codes : ServiceDeclines(code)
           \/ \E code \in UnsubscribeCodes : ServiceReleases(code)
  <2>1. closes = 0
    BY <1>8 DEF SendAssembledMessage, ServiceGrants, ServiceRaisesEvent, ServiceDeclines,
       ServiceReleases, Reply
  <2>. QED
    BY <1>8, <2>1, MessagesInStep
<1>9. CASE ConnectSucceeded
  <2>1. closes = 0
    BY <1>9 DEF ConnectSucceeded
  <2>. QED
    BY <1>9, <2>1, ConnectSucceededInStep
<1>10. CASE \E k \in 1..Len(inbox) : WebsocketMessageReceived(k)
  <2>1. closes = 0
    BY <1>10 DEF WebsocketMessageReceived, sockVars
  <2>. QED
    BY <1>10, <2>1, MessageReceivedInStep
<1>. QED
  BY <1>2, <1>3, <1>4, <1>5, <1>6, <1>7, <1>8, <1>9, <1>10 DEF Next, Component, Environment

\* The initial state is in step.
LEMMA InitInStep == Init => InStepInv
<1>. SUFFICES ASSUME Init PROVE InStepInv
  OBVIOUS
<1>1. /\ byClientId = {} /\ failedAsserts = {} /\ requests = <<>> /\ inbox = <<>>
      /\ outbox = [m \in Request |-> 0] /\ subs = [i \in SubIds |-> NewSub]
      /\ state = "Connecting" /\ completion = "none"
      /\ byServiceId = [s \in ServiceIds \union {0} |-> 0]
      /\ registered = [s \in ServiceIds |-> 0] /\ retryTimers = [i \in SubIds |-> 0]
  BY DEF Init
<1>2. Answers = {}
  BY <1>1 DEF Answers
<1>3. OnlyExpected /\ OneMessageEach
  BY <1>1, <1>2 DEF OnlyExpected, OneMessageEach
<1>4. IdsInStep /\ FirstConnect /\ UnwantedIsLeaving
  BY <1>1 DEF IdsInStep, FirstConnect, UnwantedIsLeaving
<1>. QED
  BY <1>1, <1>3, <1>4 DEF InStepInv, HandshakesStayInStep

\* Until the first close, each subscription has one message under way at most,
\* and only one its handshake waits for.
THEOREM InStep == Spec => []InStepInv
<1>1. Init => InStepInv
  BY InitInStep
<1>2. TypeOK /\ TypeOK' /\ TrackingInv /\ OneDriver /\ InStepInv /\ [Next]_vars => InStepInv'
  BY NextInStep
<1>. QED
  BY <1>1, <1>2, TypeCorrect, Tracking, OneDriverHolds, PTL DEF Spec

\* No assert of a handshake handler fails before the socket is lost, and what
\* nobody wants any more is on its way out, in whatever order m_queue runs the
\* handlers: m_subsByClientId's statuses follow the messages step by step.
THEOREM HandshakesInStep == Spec => []HandshakesStayInStep
<1>1. InStepInv => HandshakesStayInStep
  BY DEF InStepInv, HandshakesStayInStep
<1>. QED
  BY <1>1, InStep, PTL

\* Until the first close the agreement says all its parts.
LEMMA AgreementParts ==
    ASSUME AgreementInv, closes = 0
    PROVE  failedAsserts = {} /\ IdsAgree /\ RequestsAgree /\ AnswersAgree /\ OrderAgrees
BY DEF AgreementInv, NoAssertFails

\* A step that changes neither an id nor a registration nor m_queue keeps the
\* agreement, if the unsubscribes it sends name the id of their subscription.
LEMMA SameIds ==
    ASSUME TypeOK, TypeOK', AgreementInv, closes = 0,
           UNCHANGED <<inbox, registered, byServiceId, failedAsserts>>,
           \A i \in SubIds : subs'[i].serviceId = subs[i].serviceId,
           \A i \in byClientId' : subs'[i].serviceId # 0 => i \in byClientId,
           \A i \in byClientId' :
               subs'[i].status \in {"Active", "Unsubscribing", "PendingSubscribe"} =>
                   subs'[i].serviceId # 0,
           \A sid \in ServiceIds : registered[sid] \in byClientId => registered[sid] \in byClientId',
           \A m \in Request : outbox'[m] > 0 /\ m.type = "Unsubscribe" =>
               m.serviceId = subs[m.clientId].serviceId,
           \A p \in 1..Len(requests') : requests'[p].type = "Unsubscribe" =>
               requests'[p].serviceId = subs[requests'[p].clientId].serviceId
    PROVE  AgreementInv'
<1>1. /\ byClientId \subseteq SubIds /\ byClientId' \subseteq SubIds
      /\ requests' \in Seq(Request) /\ registered \in [ServiceIds -> SubIds \union {0}]
  BY DEF TypeOK
<1>2. IdsAgree'
  <2>1. \A i \in byClientId' : subs'[i].serviceId # 0 =>
            /\ byServiceId'[subs'[i].serviceId] = i
            /\ \/ registered'[subs'[i].serviceId] = i
               \/ \E k \in 1..Len(inbox') : IsRelease(inbox'[k], i)
    BY <1>1, AgreementParts DEF IdsAgree
  <2>2. \A sid \in ServiceIds : registered'[sid] # 0 =>
            /\ registered'[sid] \in byClientId'
            /\ \/ subs'[registered'[sid]].serviceId = sid
               \/ \E k \in 1..Len(inbox') : IsGrant(inbox'[k], registered'[sid], sid)
    BY <1>1, AgreementParts DEF IdsAgree
  <2>. QED
    BY <2>1, <2>2 DEF IdsAgree
<1>3. \A m \in Request : m.clientId \in SubIds
  BY DEF Request
<1>4. RequestsAgree'
  <2>1. \A p \in 1..Len(requests') : requests'[p] \in Request
    BY <1>1
  <2>. QED
    BY <1>3, <2>1 DEF RequestsAgree
<1>5. AnswersAgree'
  BY AgreementParts DEF AnswersAgree
<1>6. OrderAgrees'
  BY AgreementParts DEF OrderAgrees
<1>. QED
  BY <1>2, <1>4, <1>5, <1>6, AgreementParts DEF AgreementInv, NoAssertFails

\* An Add keeps the agreement.
LEMMA AddSubscriptionAgrees ==
    ASSUME TypeOK, TypeOK', TrackingInv, InStepInv, AgreementInv, closes = 0,
           NEW c \in Clients, AddSubscription(c)
    PROVE  AgreementInv'
<1>1. PICK i \in SubIds, s \in ServiceSubscription : AddsTo(i, s)
  BY AddSubscriptionEffect
<1>2. /\ subs \in [SubIds -> ServiceSubscription] /\ byClientId \subseteq SubIds
      /\ nextSubId \in Nat /\ outbox \in [Request -> Nat]
  BY DEF TypeOK
<1>3. subs'[i] = s /\ \A j \in SubIds \ {i} : subs'[j] = subs[j]
  BY <1>1, <1>2 DEF AddsTo
<1>4. s.serviceId = subs[i].serviceId /\ s.status = StatusAfterAdd(subs[i].status)
  BY <1>1 DEF AddsTo
<1>5. byClientId' = byClientId \union {i}
  BY <1>1 DEF AddsTo
<1>6. i \notin byClientId => subs[i].serviceId = 0 /\ subs[i].status = "Inactive"
  <2>1. i \notin byClientId => i >= nextSubId
    BY <1>1, <1>2 DEF AddsTo
  <2>2. i \notin byClientId => subs[i] = NewSub
    BY <2>1, InStepParts DEF IdsInStep
  <2>. QED
    BY <2>2 DEF NewSub
<1>7. \A j \in byClientId' :
          subs'[j].status \in {"Active", "Unsubscribing", "PendingSubscribe"} =>
              subs'[j].serviceId # 0
  <2>1. \A j \in byClientId : subs[j].status \in {"Active", "Unsubscribing", "PendingSubscribe"} =>
            subs[j].serviceId # 0
    BY AgreementParts DEF IdsAgree
  <2>2. s.status \in {"Active", "Unsubscribing", "PendingSubscribe"} =>
            subs[i].status \in {"Active", "Unsubscribing", "PendingSubscribe"}
    BY <1>4 DEF StatusAfterAdd
  <2>3. s.status \in {"Active", "Unsubscribing", "PendingSubscribe"} => s.serviceId # 0
    BY <1>4, <1>6, <2>1, <2>2
  <2>. QED
    BY <1>2, <1>3, <1>5, <2>1, <2>3
<1>8. \A m \in Request : outbox'[m] > 0 /\ m.type = "Unsubscribe" =>
          m.serviceId = subs[m.clientId].serviceId
  <2>1. \A m \in Request : m.type = "Unsubscribe" => outbox'[m] = outbox[m]
    <3>1. SubscribeMessage(i).type = "Subscribe"
      BY DEF SubscribeMessage
    <3>2. UNCHANGED outbox \/ ToSend(SubscribeMessage(i))
      BY <1>1 DEF AddsTo
    <3>. QED
      BY <1>2, <3>1, <3>2 DEF ToSend
  <2>. QED
    BY <2>1, AgreementParts DEF RequestsAgree
<1>9. UNCHANGED <<inbox, registered, byServiceId, failedAsserts, requests>>
  BY <1>1 DEF AddsTo, sockVars
<1>10. \A p \in 1..Len(requests') : requests'[p].type = "Unsubscribe" =>
          requests'[p].serviceId = subs[requests'[p].clientId].serviceId
  BY <1>9, AgreementParts DEF RequestsAgree
<1>11. \A j \in SubIds : subs'[j].serviceId = subs[j].serviceId
  BY <1>3, <1>4
<1>12. \A j \in byClientId' : subs'[j].serviceId # 0 => j \in byClientId
  BY <1>3, <1>4, <1>5, <1>6
<1>13. \A sid \in ServiceIds : registered[sid] \in byClientId => registered[sid] \in byClientId'
  BY <1>5
<1>. QED
  BY <1>7, <1>8, <1>9, <1>10, <1>11, <1>12, <1>13, SameIds

\* What the service has registered is not inactive.
LEMMA RegisteredIsActive ==
    ASSUME TypeOK, InStepInv, AgreementInv, closes = 0,
           NEW sid \in ServiceIds, NEW i \in SubIds, registered[sid] = i
    PROVE  i \in byClientId /\ subs[i].status # "Inactive"
<1>1. i # 0
  BY DEF SubIds
<1>2. /\ i \in byClientId
      /\ \/ subs[i].serviceId = sid
         \/ \E k \in 1..Len(inbox) : IsGrant(inbox[k], i, sid)
  BY <1>1, AgreementParts DEF IdsAgree
<1>3. sid # 0
  BY BoundsAssumption
<1>4. CASE subs[i].serviceId = sid
  BY <1>2, <1>3, <1>4, InStepParts DEF IdsInStep
<1>5. CASE \E k \in 1..Len(inbox) : IsGrant(inbox[k], i, sid)
  <2>1. PICK k \in 1..Len(inbox) : IsGrant(inbox[k], i, sid)
    BY <1>5
  <2>2. k \in Answers
    BY <2>1 DEF Answers, IsGrant
  <2>3. i \in Joining
    BY <2>1, <2>2, InStepParts DEF OnlyExpected, IsGrant
  <2>. QED
    BY <1>2, <2>3 DEF Joining
<1>. QED
  BY <1>2, <1>4, <1>5

\* So does the removal of a subscription's last client.
LEMMA RemoveLastAgrees ==
    ASSUME TypeOK, TypeOK', TrackingInv, InStepInv, AgreementInv, closes = 0,
           NEW c \in Clients, RemoveLast(c)
    PROVE  AgreementInv'
<1>1. PICK i \in SubIds, s \in ServiceSubscription : RemovesFrom(i, s)
  BY RemoveLastEffect
<1>2. /\ subs \in [SubIds -> ServiceSubscription] /\ byClientId \subseteq SubIds
      /\ outbox \in [Request -> Nat] /\ registered \in [ServiceIds -> SubIds \union {0}]
      /\ subs[i].serviceId \in ServiceIds \union {0}
  <2>1. /\ subs \in [SubIds -> ServiceSubscription] /\ byClientId \subseteq SubIds
        /\ outbox \in [Request -> Nat] /\ registered \in [ServiceIds -> SubIds \union {0}]
        /\ subs[i] \in ServiceSubscription
    BY DEF TypeOK
  <2>. QED
    BY <2>1, SubFields
<1>3. subs'[i] = s /\ \A j \in SubIds \ {i} : subs'[j] = subs[j]
  BY <1>1, <1>2 DEF RemovesFrom
<1>4. /\ i \in byClientId
      /\ s.serviceId = subs[i].serviceId /\ s.status = StatusAfterRemove(subs[i].status)
      /\ byClientId' = IF subs[i].status = "Inactive" THEN byClientId \ {i} ELSE byClientId
  BY <1>1 DEF RemovesFrom
<1>5. \A j \in byClientId : subs[j].status \in {"Active", "Unsubscribing", "PendingSubscribe"} =>
          subs[j].serviceId # 0
  BY AgreementParts DEF IdsAgree
<1>6. \A j \in byClientId' :
          subs'[j].status \in {"Active", "Unsubscribing", "PendingSubscribe"} =>
              subs'[j].serviceId # 0
  <2>1. s.status \in {"Active", "Unsubscribing", "PendingSubscribe"} => s.serviceId # 0
    BY <1>4, <1>5 DEF StatusAfterRemove
  <2>. QED
    BY <1>2, <1>3, <1>4, <1>5, <2>1
<1>7. \A m \in Request : outbox'[m] > 0 /\ m.type = "Unsubscribe" =>
          m.serviceId = subs[m.clientId].serviceId
  <2>. DEFINE r == UnsubscribeMessage(i, subs[i].serviceId)
  <2>1. r.clientId = i /\ r.serviceId = subs[i].serviceId
    BY DEF UnsubscribeMessage
  <2>2. UNCHANGED outbox \/ ToSend(r)
    BY <1>1 DEF RemovesFrom
  <2>. HIDE DEF r
  <2>3. \A m \in Request : m # r => outbox'[m] = outbox[m]
    BY <1>2, <2>2 DEF ToSend
  <2>. QED
    BY <2>1, <2>3, AgreementParts DEF RequestsAgree
<1>8. UNCHANGED <<inbox, registered, byServiceId, requests>>
  BY <1>1 DEF RemovesFrom, sockVars
<1>9. \A p \in 1..Len(requests') : requests'[p].type = "Unsubscribe" =>
          requests'[p].serviceId = subs[requests'[p].clientId].serviceId
  BY <1>8, AgreementParts DEF RequestsAgree
<1>10. UNCHANGED failedAsserts
  <2>1. subs[i].serviceId # 0 => subs[i].status \in {"Active", "Unsubscribing", "PendingSubscribe"}
    BY <1>4, InStepParts DEF IdsInStep
  <2>. QED
    BY <1>1, <2>1 DEF RemovesFrom
<1>11. \A sid \in ServiceIds : registered[sid] \in byClientId => registered[sid] \in byClientId'
  <2>. SUFFICES ASSUME NEW sid \in ServiceIds, registered[sid] \in byClientId
                PROVE  registered[sid] \in byClientId'
    OBVIOUS
  <2>1. PICK j \in SubIds : registered[sid] = j
    BY <1>2
  <2>2. j \in byClientId /\ subs[j].status # "Inactive"
    BY <2>1, RegisteredIsActive
  <2>. QED
    BY <1>4, <2>1, <2>2
<1>12. \A j \in SubIds : subs'[j].serviceId = subs[j].serviceId
  BY <1>3, <1>4
<1>13. \A j \in byClientId' : subs'[j].serviceId # 0 => j \in byClientId
  BY <1>4
<1>. QED
  BY <1>6, <1>7, <1>8, <1>9, <1>10, <1>11, <1>12, <1>13, SameIds

\* So do the retry of a throttled subscription and the first connect, which
\* send subscribe requests only, and a message's way onto the socket.
LEMMA SendingAgrees ==
    ASSUME TypeOK, TypeOK', InStepInv, AgreementInv, closes = 0,
           \/ \E i \in SubIds : RetrySubscribe(i)
           \/ \E m \in Request : SendAssembledMessage(m)
           \/ ConnectSucceeded
    PROVE  AgreementInv'
<1>1. /\ subs \in [SubIds -> ServiceSubscription] /\ byClientId \subseteq SubIds
      /\ outbox \in [Request -> Nat] /\ requests \in Seq(Request)
      /\ byServiceId \in [ServiceIds \union {0} -> SubIds \union {0}]
  BY DEF TypeOK
<1>2. /\ \A m \in Request : outbox[m] > 0 /\ m.type = "Unsubscribe" =>
             m.serviceId = subs[m.clientId].serviceId
      /\ \A p \in 1..Len(requests) : requests[p].type = "Unsubscribe" =>
             requests[p].serviceId = subs[requests[p].clientId].serviceId
      /\ \A i \in byClientId :
             subs[i].status \in {"Active", "Unsubscribing", "PendingSubscribe"} => subs[i].serviceId # 0
  BY AgreementParts DEF RequestsAgree, IdsAgree
<1>3. ASSUME UNCHANGED <<byClientId, inbox, registered, byServiceId, failedAsserts>>,
             \A i \in SubIds : subs'[i].serviceId = subs[i].serviceId,
             \A i \in byClientId : subs'[i].status \in {subs[i].status, "Subscribing"},
             \A m \in Request : outbox'[m] > 0 /\ m.type = "Unsubscribe" => outbox[m] > 0,
             \A p \in 1..Len(requests') : requests'[p].type = "Unsubscribe" =>
                 requests'[p].serviceId = subs[requests'[p].clientId].serviceId
      PROVE  AgreementInv'
  <2>1. \A i \in byClientId' :
            subs'[i].status \in {"Active", "Unsubscribing", "PendingSubscribe"} =>
                subs'[i].serviceId # 0
    BY <1>1, <1>2, <1>3
  <2>2. \A i \in byClientId' : subs'[i].serviceId # 0 => i \in byClientId
    BY <1>3
  <2>3. \A m \in Request : outbox'[m] > 0 /\ m.type = "Unsubscribe" =>
            m.serviceId = subs[m.clientId].serviceId
    BY <1>2, <1>3
  <2>4. \A sid \in ServiceIds : registered[sid] \in byClientId => registered[sid] \in byClientId'
    BY <1>3
  <2>. QED
    BY <1>3, <2>1, <2>2, <2>3, <2>4, SameIds
<1>4. CASE \E i \in SubIds : RetrySubscribe(i)
  <2>1. PICK i \in SubIds : RetrySubscribe(i)
    BY <1>4
  <2>2. /\ UNCHANGED <<byClientId, inbox, registered, byServiceId, failedAsserts, requests>>
        /\ \/ UNCHANGED <<subs, outbox>>
           \/ /\ subs' = [subs EXCEPT ![i] = [subs[i] EXCEPT !.status = "Subscribing"]]
              /\ ToSend(SubscribeMessage(i))
    BY <2>1 DEF RetrySubscribe, mapVars, sockVars
  <2>3. /\ \A j \in SubIds : subs'[j].serviceId = subs[j].serviceId
        /\ \A j \in SubIds : subs'[j].status \in {subs[j].status, "Subscribing"}
    <3>. DEFINE s == [subs[i] EXCEPT !.status = "Subscribing"]
    <3>1. s.serviceId = subs[i].serviceId /\ s.status = "Subscribing"
      BY <1>1 DEF ServiceSubscription
    <3>2. subs' = subs \/ subs' = [subs EXCEPT ![i] = s]
      BY <2>2
    <3>. HIDE DEF s
    <3>. QED
      BY <1>1, <3>1, <3>2
  <2>4. \A m \in Request : outbox'[m] > 0 /\ m.type = "Unsubscribe" => outbox[m] > 0
    <3>1. SubscribeMessage(i).type = "Subscribe"
      BY DEF SubscribeMessage
    <3>. QED
      BY <1>1, <2>2, <3>1 DEF ToSend
  <2>. QED
    BY <1>1, <1>2, <1>3, <2>2, <2>3, <2>4
<1>5. CASE \E m \in Request : SendAssembledMessage(m)
  <2>1. PICK m \in Request : SendAssembledMessage(m)
    BY <1>5
  <2>2. /\ UNCHANGED <<subs, byClientId, inbox, registered, byServiceId, failedAsserts>>
        /\ outbox[m] > 0 /\ outbox' = [outbox EXCEPT ![m] = @ - 1]
        /\ requests' = Append(requests, m) \/ requests' = requests
    BY <2>1 DEF SendAssembledMessage, mapVars
  <2>3. \A n \in Request : outbox'[n] > 0 => outbox[n] > 0
    BY <1>1, <2>2
  <2>4. \A p \in 1..Len(requests') :
            \/ p \in 1..Len(requests) /\ requests'[p] = requests[p]
            \/ requests'[p] = m
    <3>1. CASE requests' = Append(requests, m)
      BY <1>1, <3>1, AppendAt
    <3>2. CASE requests' = requests
      BY <3>2
    <3>. QED
      BY <2>2, <3>1, <3>2
  <2>5. \A p \in 1..Len(requests') : requests'[p].type = "Unsubscribe" =>
            requests'[p].serviceId = subs[requests'[p].clientId].serviceId
    BY <1>2, <2>2, <2>4
  <2>. QED
    BY <1>3, <2>2, <2>3, <2>5
<1>6. CASE ConnectSucceeded
  <2>1. /\ completion = "ok"
        /\ subs' = [i \in SubIds |-> IF i \in byClientId
                                     THEN [subs[i] EXCEPT !.status = "Subscribing"]
                                     ELSE subs[i]]
        /\ outbox' = [m \in Request |-> IF m.type = "Subscribe" /\ m.clientId \in byClientId
                                        THEN outbox[m] + 1 ELSE outbox[m]]
        /\ UNCHANGED <<byClientId, inbox, registered, byServiceId, requests>>
    BY <1>6 DEF ConnectSucceeded, mapVars
  <2>2. UNCHANGED failedAsserts
    <3>1. state # "Connected"
      BY <2>1, InStepParts DEF FirstConnect
    <3>2. /\ \A i \in byClientId : subs[i].status = "Inactive"
          /\ \A s \in DOMAIN byServiceId : byServiceId[s] = 0
      BY <1>1, <3>1, InStepParts DEF FirstConnect
    <3>. QED
      BY <1>6, <3>2 DEF ConnectSucceeded
  <2>3. /\ \A j \in SubIds : subs'[j].serviceId = subs[j].serviceId
        /\ \A j \in SubIds : subs'[j].status \in {subs[j].status, "Subscribing"}
    BY <1>1, <2>1 DEF ServiceSubscription
  <2>4. \A m \in Request : outbox'[m] > 0 /\ m.type = "Unsubscribe" => outbox[m] > 0
    BY <1>1, <2>1
  <2>. QED
    BY <1>1, <1>2, <1>3, <2>1, <2>2, <2>3, <2>4
<1>. QED
  BY <1>4, <1>5, <1>6

\* The steps that leave the handshakes alone leave the agreement alone.
LEMMA QuietAgrees ==
    ASSUME TypeOK, TypeOK', TrackingInv, OneDriver, InStepInv, AgreementInv, closes = 0,
           \/ \E c \in Clients : RemoveUnknown(c) \/ RemoveShared(c)
           \/ ConnectTimerFires \/ ConnectTimerFails \/ ConnectFailed
           \/ NetworkConnects \/ NetworkRefuses
           \/ Cleanup \/ QueueTerminated
    PROVE  AgreementInv'
<1>1. /\ subs \in [SubIds -> ServiceSubscription] /\ byClientId \subseteq SubIds
      /\ requests \in Seq(Request) /\ registered \in [ServiceIds -> SubIds \union {0}]
  BY DEF TypeOK
<1>2. /\ \A m \in Request : outbox[m] > 0 /\ m.type = "Unsubscribe" =>
             m.serviceId = subs[m.clientId].serviceId
      /\ \A p \in 1..Len(requests) : requests[p].type = "Unsubscribe" =>
             requests[p].serviceId = subs[requests[p].clientId].serviceId
      /\ \A i \in byClientId :
             subs[i].status \in {"Active", "Unsubscribing", "PendingSubscribe"} => subs[i].serviceId # 0
  BY AgreementParts DEF RequestsAgree, IdsAgree
<1>3. ASSUME UNCHANGED <<byClientId, inbox, registered, byServiceId, failedAsserts, outbox, requests>>,
             \A i \in SubIds : /\ subs'[i].serviceId = subs[i].serviceId
                               /\ subs'[i].status = subs[i].status
      PROVE  AgreementInv'
  <2>1. \A i \in byClientId' :
            subs'[i].status \in {"Active", "Unsubscribing", "PendingSubscribe"} =>
                subs'[i].serviceId # 0
    BY <1>1, <1>2, <1>3
  <2>2. \A i \in byClientId' : subs'[i].serviceId # 0 => i \in byClientId
    BY <1>3
  <2>3. \A sid \in ServiceIds : registered[sid] \in byClientId => registered[sid] \in byClientId'
    BY <1>3
  <2>. QED
    BY <1>2, <1>3, <2>1, <2>2, <2>3, SameIds
<1>4. CASE \E c \in Clients : RemoveUnknown(c)
  BY <1>3, <1>4 DEF RemoveUnknown, mapVars, sockVars
<1>5. CASE ConnectTimerFails \/ QueueTerminated
  BY <1>3, <1>5 DEF ConnectTimerFails, QueueTerminated, mapVars, sockVars
<1>6. CASE NetworkConnects \/ NetworkRefuses \/ ConnectFailed
  BY <1>3, <1>6 DEF NetworkConnects, NetworkRefuses, ConnectFailed, mapVars
<1>7. CASE ConnectTimerFires
  <2>1. wire # "open"
    BY <1>7 DEF ConnectTimerFires, OneDriver, Drivers, TypeOK
  <2>2. state # "Connected"
    BY <2>1, InStepParts DEF FirstConnect
  <2>3. requests = <<>> /\ registered = [s \in ServiceIds |-> 0]
    <3>1. requests = <<>> /\ \A s \in ServiceIds : registered[s] = 0
      BY <2>2, InStepParts DEF FirstConnect
    <3>. QED
      BY <1>1, <3>1
  <2>. QED
    BY <1>3, <1>7, <2>3 DEF ConnectTimerFires, mapVars
<1>8. CASE \E c \in Clients : RemoveShared(c)
  <2>1. PICK c \in Clients : RemoveShared(c)
    BY <1>8
  <2>2. PICK i \in SubIds : i = byUri[UriOf[c]]
    BY <2>1, NamesAssumption DEF RemoveShared, TypeOK
  <2>3. subs' = [subs EXCEPT ![i] = [subs[i] EXCEPT !.clientSubscriptions = @ \ {c}]]
    BY <2>1, <2>2 DEF RemoveShared
  <2>4. \A j \in SubIds : /\ subs'[j].serviceId = subs[j].serviceId
                          /\ subs'[j].status = subs[j].status
    BY <1>1, <2>3 DEF ServiceSubscription
  <2>. QED
    BY <1>3, <2>1, <2>4 DEF RemoveShared, mapVars, sockVars
<1>9. CASE Cleanup
  <2>1. subs' = [i \in SubIds |-> IF i \in byClientId THEN WithoutOps(subs[i]) ELSE subs[i]]
    BY <1>9 DEF Cleanup
  <2>2. ASSUME NEW s \in ServiceSubscription
        PROVE  WithoutOps(s).status = s.status /\ WithoutOps(s).serviceId = s.serviceId
    BY DEF ServiceSubscription, WithoutOps
  <2>3. \A j \in SubIds : /\ subs'[j].serviceId = subs[j].serviceId
                          /\ subs'[j].status = subs[j].status
    BY <1>1, <2>1, <2>2
  <2>. QED
    BY <1>3, <1>9, <2>3 DEF Cleanup, mapVars, sockVars
<1>. QED
  BY <1>4, <1>5, <1>6, <1>7, <1>8, <1>9

\* A grant has its subscription waiting for it.
LEMMA GrantedIsJoining ==
    ASSUME InStepInv, closes = 0, NEW k \in 1..Len(inbox), NEW i, NEW sid,
           IsGrant(inbox[k], i, sid)
    PROVE  k \in Answers /\ i \in Joining
<1>1. k \in Answers
  BY DEF Answers, IsGrant
<1>. QED
  BY <1>1, InStepParts DEF OnlyExpected, IsGrant

\* The answer to an unsubscribe has its subscription waiting for it.
LEMMA ReleasedIsParting ==
    ASSUME InStepInv, closes = 0, NEW k \in 1..Len(inbox), NEW i,
           IsRelease(inbox[k], i)
    PROVE  k \in Answers /\ i \in Parting
<1>1. k \in Answers
  BY DEF Answers, IsRelease
<1>. QED
  BY <1>1, InStepParts DEF OnlyExpected, IsRelease

\* A message is added behind those that wait.
Arrives(r) ==
    /\ Len(inbox') = Len(inbox) + 1 /\ inbox'[Len(inbox) + 1] = r
    /\ \A k \in 1..Len(inbox) : k \in 1..Len(inbox') /\ inbox'[k] = inbox[k]
    /\ \A k \in 1..Len(inbox') : k \in 1..Len(inbox) \/ k = Len(inbox) + 1
    /\ Len(inbox) \in Nat

\* A reply of the service arrives, and changes nothing of the connection's.
LEMMA ReplyArrives ==
    ASSUME TypeOK, NEW r \in Message, Reply(r)
    PROVE  /\ Arrives(r)
           /\ UNCHANGED <<subs, byClientId, byServiceId, outbox, closes, failedAsserts>>
<1>1. inbox \in Seq(Message) /\ inbox' = Append(inbox, r)
  BY DEF TypeOK, Reply
<1>2. Arrives(r)
  BY <1>1, AppendAt DEF Arrives
<1>. QED
  BY <1>2 DEF Reply, mapVars

\* The oldest request has been answered.
LEMMA TailAgrees ==
    ASSUME TypeOK, AgreementInv, closes = 0, requests # <<>>, requests' = Tail(requests),
           UNCHANGED <<subs, outbox>>
    PROVE  RequestsAgree'
<1>1. /\ requests \in Seq(Request)
      /\ Len(requests') = Len(requests) - 1 /\ Len(requests) \in Nat
      /\ \A p \in 1..Len(requests') : requests'[p] = requests[p + 1]
  BY TailAt DEF TypeOK
<1>2. \A p \in 1..Len(requests') : p + 1 \in 1..Len(requests)
  BY <1>1
<1>. QED
  BY <1>1, <1>2, AgreementParts DEF RequestsAgree

\* A message that arrives keeps the agreement, if it says what is so and the
\* messages before it still do.
LEMMA ReplyAgrees ==
    ASSUME TypeOK, TypeOK', InStepInv, AgreementInv, closes = 0, NEW r, Arrives(r),
           UNCHANGED <<subs, byClientId, byServiceId, outbox, failedAsserts>>,
           RequestsAgree', IdsAgree',
           \A k \in 1..Len(inbox) : \A i \in SubIds :
               /\ \A sid \in ServiceIds \union {0} : IsGrant(inbox[k], i, sid) => registered'[sid] = i
               /\ IsRelease(inbox[k], i) => \A sid \in ServiceIds : registered'[sid] # i,
           \A i \in SubIds : \A sid \in ServiceIds \union {0} :
               IsGrant(r, i, sid) => sid # 0 /\ registered'[sid] = i,
           \A i \in SubIds : IsRelease(r, i) =>
               /\ \A sid \in ServiceIds : registered'[sid] # i
               /\ \A k \in 1..Len(inbox) : \A j \in SubIds :
                      ~ IsGrant(inbox[k], j, subs[i].serviceId),
           r.type = "Event" =>
               \/ \E l \in 1..Len(inbox) : \E i \in SubIds : IsGrant(inbox[l], i, r.serviceId)
               \/ /\ byServiceId[r.serviceId] # 0
                  /\ \A l \in 1..Len(inbox) : ~ IsRelease(inbox[l], byServiceId[r.serviceId])
    PROVE  AgreementInv'
<1>1. /\ Len(inbox') = Len(inbox) + 1 /\ inbox'[Len(inbox) + 1] = r
      /\ \A k \in 1..Len(inbox) : k \in 1..Len(inbox') /\ inbox'[k] = inbox[k]
      /\ \A k \in 1..Len(inbox') : k \in 1..Len(inbox) \/ k = Len(inbox) + 1
      /\ Len(inbox) \in Nat
  BY DEF Arrives
<1>2. AnswersAgree'
  <2>. SUFFICES ASSUME NEW k \in 1..Len(inbox'), NEW i \in SubIds
                PROVE  /\ \A sid \in ServiceIds \union {0} :
                              IsGrant(inbox'[k], i, sid) => sid # 0 /\ registered'[sid] = i
                       /\ IsRelease(inbox'[k], i) => \A sid \in ServiceIds : registered'[sid] # i
    BY DEF AnswersAgree
  <2>1. CASE k \in 1..Len(inbox)
    <3>1. \A sid \in ServiceIds \union {0} : IsGrant(inbox[k], i, sid) => sid # 0
      BY <2>1, AgreementParts DEF AnswersAgree
    <3>. QED
      BY <1>1, <2>1, <3>1
  <2>2. CASE k = Len(inbox) + 1
    BY <1>1, <2>2
  <2>. QED
    BY <1>1, <2>1, <2>2
<1>3. OrderAgrees'
  <2>1. ASSUME NEW k \in 1..Len(inbox'), NEW l \in 1..Len(inbox'), NEW i \in SubIds, NEW j \in SubIds,
               IsGrant(inbox'[k], i, subs[j].serviceId), IsRelease(inbox'[l], j)
        PROVE  l < k
    <3>1. CASE k \in 1..Len(inbox) /\ l \in 1..Len(inbox)
      <4>1. IsGrant(inbox[k], i, subs[j].serviceId) /\ IsRelease(inbox[l], j)
        BY <1>1, <2>1, <3>1
      <4>. QED
        BY <3>1, <4>1, AgreementParts DEF OrderAgrees
    <3>2. CASE k \in 1..Len(inbox) /\ l = Len(inbox) + 1
      BY <1>1, <2>1, <3>2
    <3>3. CASE k = Len(inbox) + 1
      <4>1. l \in 1..Len(inbox) \/ l = Len(inbox) + 1
        BY <1>1
      <4>2. ~ (l = Len(inbox) + 1)
        BY <1>1, <2>1, <3>3 DEF IsGrant, IsRelease
      <4>. QED
        BY <1>1, <3>3, <4>1, <4>2
    <3>. QED
      BY <1>1, <3>1, <3>2, <3>3
  <2>2. ASSUME NEW k \in 1..Len(inbox'), inbox'[k].type = "Event"
        PROVE  \/ \E l \in 1..(k - 1) : \E i \in SubIds : IsGrant(inbox'[l], i, inbox'[k].serviceId)
               \/ /\ byServiceId[inbox'[k].serviceId] # 0
                  /\ \A l \in 1..(k - 1) : ~ IsRelease(inbox'[l], byServiceId[inbox'[k].serviceId])
    <3>1. \A l \in 1..(k - 1) : l \in 1..Len(inbox) /\ inbox'[l] = inbox[l]
      BY <1>1
    <3>2. CASE k \in 1..Len(inbox)
      <4>1. inbox[k].type = "Event" /\ inbox'[k] = inbox[k]
        BY <1>1, <2>2, <3>2
      <4>2. \/ \E l \in 1..(k - 1) : \E i \in SubIds : IsGrant(inbox[l], i, inbox[k].serviceId)
            \/ /\ byServiceId[inbox[k].serviceId] # 0
               /\ \A l \in 1..(k - 1) : ~ IsRelease(inbox[l], byServiceId[inbox[k].serviceId])
        BY <3>2, <4>1, AgreementParts DEF OrderAgrees
      <4>. QED
        BY <3>1, <4>1, <4>2
    <3>3. CASE k = Len(inbox) + 1
      <4>1. k - 1 = Len(inbox) /\ inbox'[k] = r
        BY <1>1, <3>3
      <4>2. \/ \E l \in 1..(k - 1) : \E i \in SubIds : IsGrant(inbox[l], i, r.serviceId)
            \/ /\ byServiceId[r.serviceId] # 0
               /\ \A l \in 1..(k - 1) : ~ IsRelease(inbox[l], byServiceId[r.serviceId])
        BY <2>2, <4>1
      <4>. QED
        BY <3>1, <4>1, <4>2
    <3>. QED
      BY <1>1, <3>2, <3>3
  <2>3. UNCHANGED <<subs, byServiceId>>
    OBVIOUS
  <2>. QED
    BY <2>1, <2>2, <2>3 DEF OrderAgrees
<1>. QED
  BY <1>2, <1>3, AgreementParts DEF AgreementInv, NoAssertFails

\* A message that arrives keeps the ids in agreement, if each id that loses its
\* registration is released by it, and each new registration granted by it.
LEMMA IdsUnderWay ==
    ASSUME TypeOK, AgreementInv, closes = 0, NEW r, Arrives(r),
           UNCHANGED <<subs, byClientId, byServiceId>>,
           \A i \in byClientId : subs[i].serviceId # 0 /\ registered[subs[i].serviceId] = i =>
               registered'[subs[i].serviceId] = i \/ IsRelease(r, i),
           \A sid \in ServiceIds : registered'[sid] # 0 =>
               \/ registered[sid] = registered'[sid]
               \/ registered'[sid] \in byClientId /\ IsGrant(r, registered'[sid], sid)
    PROVE  IdsAgree'
<1>1. /\ Len(inbox') = Len(inbox) + 1 /\ inbox'[Len(inbox) + 1] = r
      /\ \A k \in 1..Len(inbox) : k \in 1..Len(inbox') /\ inbox'[k] = inbox[k]
      /\ Len(inbox) + 1 \in 1..Len(inbox')
  BY DEF Arrives
<1>2. ASSUME NEW i \in byClientId, subs[i].serviceId # 0
      PROVE  /\ byServiceId[subs[i].serviceId] = i
             /\ \/ registered'[subs[i].serviceId] = i
                \/ \E k \in 1..Len(inbox') : IsRelease(inbox'[k], i)
  <2>1. /\ byServiceId[subs[i].serviceId] = i
        /\ \/ registered[subs[i].serviceId] = i
           \/ \E k \in 1..Len(inbox) : IsRelease(inbox[k], i)
    BY <1>2, AgreementParts DEF IdsAgree
  <2>2. CASE registered[subs[i].serviceId] = i
    <3>1. registered'[subs[i].serviceId] = i \/ IsRelease(r, i)
      BY <1>2, <2>2
    <3>. QED
      BY <1>1, <2>1, <3>1
  <2>3. CASE \E k \in 1..Len(inbox) : IsRelease(inbox[k], i)
    BY <1>1, <2>1, <2>3
  <2>. QED
    BY <2>1, <2>2, <2>3
<1>3. ASSUME NEW sid \in ServiceIds, registered'[sid] # 0
      PROVE  /\ registered'[sid] \in byClientId
             /\ \/ subs[registered'[sid]].serviceId = sid
                \/ \E k \in 1..Len(inbox') : IsGrant(inbox'[k], registered'[sid], sid)
  <2>1. CASE registered[sid] = registered'[sid]
    <3>1. /\ registered[sid] \in byClientId
          /\ \/ subs[registered[sid]].serviceId = sid
             \/ \E k \in 1..Len(inbox) : IsGrant(inbox[k], registered[sid], sid)
      BY <1>3, <2>1, AgreementParts DEF IdsAgree
    <3>. QED
      BY <1>1, <2>1, <3>1
  <2>2. CASE registered'[sid] \in byClientId /\ IsGrant(r, registered'[sid], sid)
    BY <1>1, <2>2
  <2>. QED
    BY <1>3, <2>1, <2>2
<1>4. \A i \in byClientId :
          subs[i].status \in {"Active", "Unsubscribing", "PendingSubscribe"} => subs[i].serviceId # 0
  BY AgreementParts DEF IdsAgree
<1>5. UNCHANGED <<subs, byClientId, byServiceId>>
  OBVIOUS
<1>. QED
  BY <1>2, <1>3, <1>4, <1>5 DEF IdsAgree

\* The service grants a subscribe.
LEMMA ServiceGrantsAgrees ==
    ASSUME TypeOK, TypeOK', InStepInv, AgreementInv, closes = 0,
           NEW sid \in ServiceIds, ServiceGrants(sid)
    PROVE  AgreementInv'
<1>. DEFINE ii == Head(requests).clientId
            rr == [type |-> "SubscribeResponse", clientId |-> ii, code |-> "Success", serviceId |-> sid]
<1>0. PICK i, r : i = ii /\ r = rr
  OBVIOUS
<1>1. /\ requests \in Seq(Request) /\ requests # <<>> /\ requests' = Tail(requests)
      /\ 1 \in 1..Len(requests) /\ i = requests[1].clientId /\ requests[1].type = "Subscribe"
      /\ registered \in [ServiceIds -> SubIds \union {0}]
      /\ registered[sid] \in {0, i} /\ registered' = [registered EXCEPT ![sid] = i]
      /\ Reply(r) /\ "Success" \in Codes
  <2>1. /\ requests # <<>> /\ Head(requests).type = "Subscribe" /\ requests' = Tail(requests)
        /\ registered[sid] \in {0, i} /\ registered' = [registered EXCEPT ![sid] = i]
        /\ Reply(r) /\ "Success" \in Codes
    BY <1>0 DEF ServiceGrants
  <2>2. requests \in Seq(Request) /\ registered \in [ServiceIds -> SubIds \union {0}]
    BY DEF TypeOK
  <2>. QED
    BY <1>0, <2>1, <2>2, TailAt
<1>2. i \in Joining /\ i \in byClientId /\ i \in SubIds
  <2>1. i \in Joining
    BY <1>1, InStepParts DEF OnlyExpected
  <2>. QED
    BY <2>1 DEF Joining, TypeOK
<1>3. /\ r \in Message /\ r.type = "SubscribeResponse" /\ r.code = "Success"
      /\ r.clientId = i /\ r.serviceId = sid
  BY <1>0, <1>1, <1>2 DEF Message
<1>4. Arrives(r) /\ UNCHANGED <<subs, byClientId, byServiceId, outbox, closes, failedAsserts>>
  BY <1>1, <1>3, ReplyArrives
<1>5. registered'[sid] = i /\ \A s \in ServiceIds \ {sid} : registered'[s] = registered[s]
  BY <1>1
<1>6. IsGrant(r, i, sid) /\ \A j : ~ IsRelease(r, j)
  BY <1>3 DEF IsGrant, IsRelease
<1>7. IdsAgree'
  <2>1. ASSUME NEW j \in byClientId, subs[j].serviceId # 0, registered[subs[j].serviceId] = j
        PROVE  registered'[subs[j].serviceId] = j
    <3>1. j \in SubIds /\ j # 0 /\ subs[j].serviceId \in ServiceIds \union {0}
      <4>1. j \in SubIds /\ subs[j] \in ServiceSubscription
        BY DEF TypeOK
      <4>. QED
        BY <4>1, SubFields DEF SubIds
    <3>. QED
      BY <1>1, <1>5, <2>1, <3>1
  <2>2. \A s \in ServiceIds : registered'[s] # 0 =>
            \/ registered[s] = registered'[s]
            \/ registered'[s] \in byClientId /\ IsGrant(r, registered'[s], s)
    BY <1>2, <1>5, <1>6
  <2>. QED
    BY <1>4, <2>1, <2>2, IdsUnderWay
<1>8. RequestsAgree'
  BY <1>1, <1>4, TailAgrees
<1>9. ASSUME NEW k \in 1..Len(inbox), NEW j \in SubIds
      PROVE  /\ \A s \in ServiceIds \union {0} : IsGrant(inbox[k], j, s) => registered'[s] = j
             /\ IsRelease(inbox[k], j) => \A s \in ServiceIds : registered'[s] # j
  <2>1. ASSUME NEW s \in ServiceIds \union {0}, IsGrant(inbox[k], j, s)
        PROVE  registered'[s] = j
    <3>1. s # 0 /\ registered[s] = j /\ j # 0
      BY <2>1, AgreementParts DEF AnswersAgree, SubIds
    <3>. QED
      BY <1>1, <1>5, <3>1
  <2>2. ASSUME IsRelease(inbox[k], j), NEW s \in ServiceIds
        PROVE  registered'[s] # j
    <3>1. k \in Answers /\ inbox[k].clientId = j
      BY <2>2, ReleasedIsParting DEF IsRelease
    <3>2. j # i
      BY <1>1, <3>1, InStepParts DEF OneMessageEach
    <3>3. registered[s] # j
      BY <2>2, AgreementParts DEF AnswersAgree
    <3>. QED
      BY <1>5, <3>2, <3>3
  <2>. QED
    BY <2>1, <2>2
<1>10. \A j \in SubIds : \A s \in ServiceIds \union {0} :
           IsGrant(r, j, s) => s # 0 /\ registered'[s] = j
  BY <1>3, <1>5, BoundsAssumption DEF IsGrant
<1>11. r.type # "Event"
  BY <1>3
<1>. QED
  BY <1>4, <1>6, <1>7, <1>8, <1>9, <1>10, <1>11, ReplyAgrees

\* The service declines a subscribe, or raises an event.
LEMMA ServiceSaysAgrees ==
    ASSUME TypeOK, TypeOK', InStepInv, AgreementInv, closes = 0,
           \/ \E code \in Codes : ServiceDeclines(code)
           \/ \E sid \in ServiceIds : ServiceRaisesEvent(sid)
    PROVE  AgreementInv'
<1>1. ASSUME NEW r \in Message, Reply(r), UNCHANGED registered, RequestsAgree',
             \A i, s : ~ IsGrant(r, i, s), \A i : ~ IsRelease(r, i),
             r.type = "Event" =>
                 \/ \E l \in 1..Len(inbox) : \E i \in SubIds : IsGrant(inbox[l], i, r.serviceId)
                 \/ /\ byServiceId[r.serviceId] # 0
                    /\ \A l \in 1..Len(inbox) : ~ IsRelease(inbox[l], byServiceId[r.serviceId])
      PROVE  AgreementInv'
  <2>1. Arrives(r) /\ UNCHANGED <<subs, byClientId, byServiceId, outbox, closes, failedAsserts>>
    BY <1>1, ReplyArrives
  <2>2. IdsAgree'
    BY <1>1, <2>1, IdsUnderWay
  <2>3. \A k \in 1..Len(inbox) : \A i \in SubIds :
            /\ \A s \in ServiceIds \union {0} : IsGrant(inbox[k], i, s) => registered'[s] = i
            /\ IsRelease(inbox[k], i) => \A s \in ServiceIds : registered'[s] # i
    BY <1>1, AgreementParts DEF AnswersAgree
  <2>. QED
    BY <1>1, <2>1, <2>2, <2>3, ReplyAgrees
<1>2. CASE \E code \in Codes : ServiceDeclines(code)
  <2>1. PICK code \in Codes : ServiceDeclines(code)
    BY <1>2
  <2>. DEFINE r == [type |-> "SubscribeResponse", clientId |-> Head(requests).clientId,
                    code |-> code, serviceId |-> 0]
  <2>2. /\ requests # <<>> /\ requests' = Tail(requests) /\ Reply(r)
        /\ code # "Success" /\ UNCHANGED registered
    BY <2>1 DEF ServiceDeclines
  <2>3. Head(requests).clientId \in SubIds
    <3>1. Head(requests) \in Request
      BY <2>2 DEF TypeOK
    <3>. QED
      BY <3>1 DEF Request
  <2>4. r \in Message /\ r.type = "SubscribeResponse" /\ r.code # "Success"
    BY <2>2, <2>3 DEF Message
  <2>. HIDE DEF r
  <2>5. RequestsAgree'
    BY <2>2, <2>4, ReplyArrives, TailAgrees
  <2>. QED
    BY <1>1, <2>2, <2>4, <2>5 DEF IsGrant, IsRelease
<1>3. CASE \E sid \in ServiceIds : ServiceRaisesEvent(sid)
  <2>1. PICK sid \in ServiceIds : ServiceRaisesEvent(sid)
    BY <1>3
  <2>. DEFINE r == [type |-> "Event", clientId |-> 0, code |-> "none", serviceId |-> sid]
  <2>2. /\ registered[sid] # 0 /\ Reply(r) /\ UNCHANGED <<requests, registered>>
    BY <2>1 DEF ServiceRaisesEvent
  <2>3. r \in Message /\ r.type = "Event" /\ r.serviceId = sid
    BY DEF Message
  <2>. HIDE DEF r
  <2>4. RequestsAgree'
    <3>1. UNCHANGED <<subs, outbox, requests>>
      BY <2>2, <2>3, ReplyArrives
    <3>. QED
      BY <3>1, AgreementParts DEF RequestsAgree
  <2>5. PICK i \in SubIds : i = registered[sid]
    BY <2>2 DEF TypeOK
  <2>6. /\ i \in byClientId
        /\ subs[i].serviceId = sid \/ \E k \in 1..Len(inbox) : IsGrant(inbox[k], i, sid)
    BY <2>2, <2>5, AgreementParts DEF IdsAgree
  <2>7. subs[i].serviceId = sid =>
            /\ byServiceId[sid] = i /\ i # 0
            /\ \A l \in 1..Len(inbox) : ~ IsRelease(inbox[l], i)
    <3>1. sid # 0 /\ i # 0
      BY BoundsAssumption DEF SubIds
    <3>2. subs[i].serviceId = sid => byServiceId[sid] = i
      BY <2>6, <3>1, AgreementParts DEF IdsAgree
    <3>3. \A l \in 1..Len(inbox) : ~ IsRelease(inbox[l], i)
      BY <2>5, AgreementParts DEF AnswersAgree
    <3>. QED
      BY <3>1, <3>2, <3>3
  <2>8. \/ \E l \in 1..Len(inbox) : \E j \in SubIds : IsGrant(inbox[l], j, r.serviceId)
        \/ /\ byServiceId[r.serviceId] # 0
           /\ \A l \in 1..Len(inbox) : ~ IsRelease(inbox[l], byServiceId[r.serviceId])
    BY <2>3, <2>6, <2>7
  <2>. QED
    BY <1>1, <2>2, <2>3, <2>4, <2>8 DEF IsGrant, IsRelease
<1>. QED
  BY <1>2, <1>3

\* The service confirms an unsubscribe: nobody else has been granted its id.
LEMMA ServiceReleasesAgrees ==
    ASSUME TypeOK, TypeOK', InStepInv, AgreementInv, closes = 0, ServiceReleases("Success")
    PROVE  AgreementInv'
<1>. DEFINE rr == [type |-> "UnsubscribeResponse", clientId |-> Head(requests).clientId,
                   code |-> "Success", serviceId |-> 0]
<1>0. PICK i, r, sid : /\ i = Head(requests).clientId /\ r = rr
                       /\ sid = Head(requests).serviceId
  OBVIOUS
<1>1. /\ requests \in Seq(Request) /\ requests # <<>> /\ requests' = Tail(requests)
      /\ 1 \in 1..Len(requests) /\ i = requests[1].clientId /\ requests[1].type = "Unsubscribe"
      /\ sid = requests[1].serviceId
      /\ registered \in [ServiceIds -> SubIds \union {0}]
      /\ registered' = [s \in ServiceIds |-> IF s = sid THEN 0 ELSE registered[s]]
      /\ Reply(r)
  <2>1. /\ requests # <<>> /\ Head(requests).type = "Unsubscribe" /\ requests' = Tail(requests)
        /\ registered' = [s \in ServiceIds |-> IF s = sid THEN 0 ELSE registered[s]]
        /\ Reply(r)
    BY <1>0 DEF ServiceReleases
  <2>2. requests \in Seq(Request) /\ registered \in [ServiceIds -> SubIds \union {0}]
    BY DEF TypeOK
  <2>. QED
    BY <1>0, <2>1, <2>2, TailAt
<1>2. i \in Parting /\ i \in byClientId /\ i \in SubIds /\ i # 0
  <2>1. i \in Parting
    BY <1>1, InStepParts DEF OnlyExpected
  <2>. QED
    BY <2>1 DEF Parting, TypeOK, SubIds
<1>3. /\ r \in Message /\ r.type = "UnsubscribeResponse" /\ r.clientId = i
  <2>1. r = [type |-> "UnsubscribeResponse", clientId |-> i, code |-> "Success", serviceId |-> 0]
    BY <1>0
  <2>2. r = inbox'[Len(inbox')] /\ inbox' \in Seq(Message) /\ Len(inbox') \in 1..Len(inbox')
    <3>1. inbox \in Seq(Message) /\ inbox' \in Seq(Message) /\ inbox' = Append(inbox, r)
      BY <1>1 DEF TypeOK, Reply
    <3>. QED
      BY <3>1
  <2>. QED
    BY <2>1, <2>2
<1>4. Arrives(r) /\ UNCHANGED <<subs, byClientId, byServiceId, outbox, closes, failedAsserts>>
  BY <1>1, <1>3, ReplyArrives
<1>5. \A s \in ServiceIds : registered'[s] = IF s = sid THEN 0 ELSE registered[s]
  BY <1>1
<1>6. IsRelease(r, i) /\ \A j, s : ~ IsGrant(r, j, s)
  BY <1>3 DEF IsGrant, IsRelease
<1>7. \A k \in Answers : inbox[k].clientId # i
  BY <1>1, InStepParts DEF OneMessageEach
<1>8. /\ subs[i].serviceId = sid /\ sid # 0
      /\ byServiceId[sid] = i /\ registered[sid] = i
  <2>1. sid = subs[i].serviceId
    BY <1>1, AgreementParts DEF RequestsAgree
  <2>2. sid # 0
    BY <1>2, <2>1, AgreementParts DEF IdsAgree, Parting
  <2>3. \A k \in 1..Len(inbox) : ~ IsRelease(inbox[k], i)
    BY <1>7, ReleasedIsParting DEF IsRelease
  <2>. QED
    BY <1>2, <2>1, <2>2, <2>3, AgreementParts DEF IdsAgree
<1>9. \A k \in 1..Len(inbox) : \A j \in SubIds : ~ IsGrant(inbox[k], j, sid)
  <2>. SUFFICES ASSUME NEW k \in 1..Len(inbox), NEW j \in SubIds, IsGrant(inbox[k], j, sid)
                PROVE  FALSE
    OBVIOUS
  <2>1. k \in Answers /\ inbox[k].clientId = j
    BY GrantedIsJoining DEF IsGrant
  <2>2. sid \in ServiceIds \union {0}
    <3>1. requests[1] \in Request
      BY <1>1
    <3>. QED
      BY <1>1, <3>1 DEF Request
  <2>3. registered[sid] = j
    BY <2>2, AgreementParts DEF AnswersAgree
  <2>. QED
    BY <1>7, <1>8, <2>1, <2>3
<1>10. IdsAgree'
  <2>1. ASSUME NEW j \in byClientId, subs[j].serviceId # 0, registered[subs[j].serviceId] = j
        PROVE  registered'[subs[j].serviceId] = j \/ IsRelease(r, j)
    <3>1. subs[j].serviceId \in ServiceIds \union {0} /\ byServiceId[subs[j].serviceId] = j
      <4>1. subs[j] \in ServiceSubscription
        BY DEF TypeOK
      <4>. QED
        BY <2>1, <4>1, SubFields, AgreementParts DEF IdsAgree
    <3>2. CASE subs[j].serviceId = sid
      BY <1>6, <1>8, <3>1, <3>2
    <3>3. CASE subs[j].serviceId # sid
      BY <1>5, <2>1, <3>1, <3>3
    <3>. QED
      BY <3>2, <3>3
  <2>2. \A s \in ServiceIds : registered'[s] # 0 => registered[s] = registered'[s]
    BY <1>5
  <2>. QED
    BY <1>4, <2>1, <2>2, IdsUnderWay
<1>11. RequestsAgree'
  BY <1>1, <1>4, TailAgrees
<1>12. ASSUME NEW k \in 1..Len(inbox), NEW j \in SubIds
       PROVE  /\ \A s \in ServiceIds \union {0} : IsGrant(inbox[k], j, s) => registered'[s] = j
              /\ IsRelease(inbox[k], j) => \A s \in ServiceIds : registered'[s] # j
  <2>1. ASSUME NEW s \in ServiceIds \union {0}, IsGrant(inbox[k], j, s)
        PROVE  registered'[s] = j
    <3>1. s # 0 /\ registered[s] = j
      BY <2>1, AgreementParts DEF AnswersAgree
    <3>2. s # sid
      BY <1>9, <2>1
    <3>. QED
      BY <1>5, <3>1, <3>2
  <2>2. ASSUME IsRelease(inbox[k], j), NEW s \in ServiceIds
        PROVE  registered'[s] # j
    <3>1. registered[s] # j /\ j # 0
      BY <2>2, AgreementParts DEF AnswersAgree, SubIds
    <3>. QED
      BY <1>5, <3>1
  <2>. QED
    BY <2>1, <2>2
<1>13. ASSUME NEW j \in SubIds, IsRelease(r, j)
       PROVE  /\ \A s \in ServiceIds : registered'[s] # j
              /\ \A k \in 1..Len(inbox) : \A l \in SubIds : ~ IsGrant(inbox[k], l, subs[j].serviceId)
  <2>1. j = i
    BY <1>3, <1>13 DEF IsRelease
  <2>2. ASSUME NEW s \in ServiceIds, registered'[s] = i
        PROVE  FALSE
    <3>1. s # sid /\ registered[s] = i
      BY <1>2, <1>5, <2>2
    <3>2. subs[i].serviceId = s \/ \E k \in 1..Len(inbox) : IsGrant(inbox[k], i, s)
      BY <1>2, <3>1, AgreementParts DEF IdsAgree
    <3>3. PICK k \in 1..Len(inbox) : IsGrant(inbox[k], i, s)
      BY <1>8, <3>1, <3>2
    <3>4. k \in Answers /\ inbox[k].clientId = i
      BY <3>3, GrantedIsJoining DEF IsGrant
    <3>. QED
      BY <1>7, <3>4
  <2>. QED
    BY <1>8, <1>9, <2>1, <2>2
<1>14. r.type # "Event"
  BY <1>3
<1>. QED
  BY <1>4, <1>6, <1>10, <1>11, <1>12, <1>13, <1>14, ReplyAgrees

\* The oldest message has been taken off m_queue.
Leaves ==
    /\ Len(inbox) \in Nat /\ Len(inbox') = Len(inbox) - 1 /\ 1 \in 1..Len(inbox)
    /\ \A k \in 1..Len(inbox) : k # 1 => k - 1 \in 1..Len(inbox') /\ inbox'[k - 1] = inbox[k]
    /\ \A k \in 1..Len(inbox') : /\ k + 1 \in 1..Len(inbox) /\ k + 1 # 1
                                 /\ inbox'[k] = inbox[k + 1]

\* A serial queue handles its oldest message.
LEMMA OldestLeaves ==
    ASSUME TypeOK, SerialDispatch, NEW k \in 1..Len(inbox), WebsocketMessageReceived(k)
    PROVE  k = 1 /\ Leaves
<1>1. /\ inbox \in Seq(Message) /\ k = 1 /\ inbox' = RemoveAt(inbox, 1)
  BY DEF TypeOK, WebsocketMessageReceived, Dequeue
<1>2. /\ Len(inbox) \in Nat /\ Len(inbox) >= 1 /\ 1 \in 1..Len(inbox)
  BY <1>1
<1>3. /\ Len(inbox') = Len(inbox) - 1
      /\ \A p \in 1..(Len(inbox) - 1) : inbox'[p] = IF p < 1 THEN inbox[p] ELSE inbox[p + 1]
  BY <1>1, <1>2, RemoveAtAt
<1>4. \A p \in 1..Len(inbox') : inbox'[p] = inbox[p + 1]
  BY <1>2, <1>3
<1>5. \A p \in 1..Len(inbox) : p # 1 => p - 1 \in 1..Len(inbox') /\ (p - 1) + 1 = p
  BY <1>2, <1>3
<1>6. \A p \in 1..Len(inbox) : p # 1 => inbox'[p - 1] = inbox[p]
  <2>. SUFFICES ASSUME NEW p \in 1..Len(inbox), p # 1
                PROVE  inbox'[p - 1] = inbox[p]
    OBVIOUS
  <2>1. inbox'[p - 1] = inbox[(p - 1) + 1]
    BY <1>4, <1>5
  <2>. QED
    BY <1>5, <2>1
<1>. QED
  BY <1>1, <1>2, <1>3, <1>4, <1>5, <1>6 DEF Leaves

\* A response's handler keeps the agreement, if what it makes of the ids agrees
\* with what the response said.
LEMMA HandledAgrees ==
    ASSUME TypeOK, TypeOK', InStepInv, AgreementInv, closes = 0, Leaves,
           NEW i \in SubIds, NEW s, subs' = [subs EXCEPT ![i] = s], i \in byClientId,
           byClientId' \in {byClientId, byClientId \ {i}},
           UNCHANGED <<requests, registered, failedAsserts>>,
           inbox[1].type # "Event", inbox[1].clientId = i,
           \A m \in Request : outbox'[m] > 0 /\ m.type = "Unsubscribe" =>
               \/ outbox[m] > 0 /\ m.clientId # i
               \/ m.clientId = i /\ m.serviceId = s.serviceId,
           i \in byClientId' /\ s.serviceId # 0 =>
               byServiceId'[s.serviceId] = i /\ registered[s.serviceId] = i,
           i \in byClientId' /\ s.status \in {"Active", "Unsubscribing", "PendingSubscribe"} =>
               s.serviceId # 0,
           \A j \in byClientId \ {i} : subs[j].serviceId # 0 =>
               byServiceId'[subs[j].serviceId] = byServiceId[subs[j].serviceId],
           \A sid \in ServiceIds : registered[sid] = i => i \in byClientId' /\ s.serviceId = sid,
           \A sid \in ServiceIds \union {0} : IsGrant(inbox[1], i, sid) => byServiceId'[sid] = i,
           \A sid \in ServiceIds \union {0} :
               byServiceId[sid] # 0 /\ ~ IsRelease(inbox[1], byServiceId[sid]) =>
                   byServiceId'[sid] \in {byServiceId[sid], i}
    PROVE  AgreementInv'
<1>1. /\ Len(inbox) \in Nat /\ Len(inbox') = Len(inbox) - 1 /\ 1 \in 1..Len(inbox)
      /\ \A k \in 1..Len(inbox) : k # 1 => k - 1 \in 1..Len(inbox') /\ inbox'[k - 1] = inbox[k]
      /\ \A k \in 1..Len(inbox') : /\ k + 1 \in 1..Len(inbox) /\ k + 1 # 1
                                   /\ inbox'[k] = inbox[k + 1]
  BY DEF Leaves
<1>2. /\ subs \in [SubIds -> ServiceSubscription] /\ byClientId \subseteq SubIds
      /\ requests \in Seq(Request) /\ i # 0 /\ inbox \in Seq(Message)
      /\ registered \in [ServiceIds -> SubIds \union {0}]
  BY DEF TypeOK, SubIds
<1>3. subs'[i] = s /\ \A j \in SubIds \ {i} : subs'[j] = subs[j]
  BY <1>2
<1>4. 1 \in Answers
  BY <1>1 DEF Answers
<1>5. /\ \A k \in Answers : k # 1 => inbox[k].clientId # i
      /\ \A p \in 1..Len(requests) : requests[p].clientId # i
  <2>1. \A k, l \in Answers : k # l => inbox[k].clientId # inbox[l].clientId
    BY InStepParts DEF OneMessageEach
  <2>2. \A p \in 1..Len(requests) : \A k \in Answers : inbox[k].clientId # requests[p].clientId
    BY InStepParts DEF OneMessageEach
  <2>. QED
    BY <1>4, <2>1, <2>2
<1>6. \A k \in 1..Len(inbox) : k # 1 => ~ IsRelease(inbox[k], i)
  <2>1. \A k \in 1..Len(inbox) : IsRelease(inbox[k], i) => k \in Answers /\ inbox[k].clientId = i
    BY DEF IsRelease, Answers
  <2>. QED
    BY <1>5, <2>1
<1>7. IdsAgree'
  <2>1. ASSUME NEW j \in byClientId', subs'[j].serviceId # 0
        PROVE  /\ byServiceId'[subs'[j].serviceId] = j
               /\ \/ registered[subs'[j].serviceId] = j
                  \/ \E k \in 1..Len(inbox') : IsRelease(inbox'[k], j)
    <3>1. CASE j = i
      BY <1>3, <2>1, <3>1
    <3>2. CASE j # i
      <4>1. j \in byClientId /\ j \in SubIds /\ subs'[j] = subs[j]
        BY <1>2, <1>3, <3>2
      <4>2. /\ byServiceId[subs[j].serviceId] = j
            /\ \/ registered[subs[j].serviceId] = j
               \/ \E k \in 1..Len(inbox) : IsRelease(inbox[k], j)
        BY <2>1, <4>1, AgreementParts DEF IdsAgree
      <4>3. \A k \in 1..Len(inbox) : IsRelease(inbox[k], j) => k # 1
        BY <3>2 DEF IsRelease
      <4>4. (\E k \in 1..Len(inbox) : IsRelease(inbox[k], j)) =>
                \E k \in 1..Len(inbox') : IsRelease(inbox'[k], j)
        BY <1>1, <4>3
      <4>. QED
        BY <2>1, <3>2, <4>1, <4>2, <4>4
    <3>. QED
      BY <3>1, <3>2
  <2>2. ASSUME NEW j \in byClientId',
               subs'[j].status \in {"Active", "Unsubscribing", "PendingSubscribe"}
        PROVE  subs'[j].serviceId # 0
    <3>1. CASE j = i
      BY <1>3, <2>2, <3>1
    <3>2. CASE j # i
      <4>1. j \in byClientId /\ j \in SubIds /\ subs'[j] = subs[j]
        BY <1>2, <1>3, <3>2
      <4>. QED
        BY <2>2, <4>1, AgreementParts DEF IdsAgree
    <3>. QED
      BY <3>1, <3>2
  <2>3. ASSUME NEW sid \in ServiceIds, registered[sid] # 0
        PROVE  /\ registered[sid] \in byClientId'
               /\ \/ subs'[registered[sid]].serviceId = sid
                  \/ \E k \in 1..Len(inbox') : IsGrant(inbox'[k], registered[sid], sid)
    <3>1. PICK j \in SubIds : registered[sid] = j
      BY <1>2, <2>3
    <3>2. CASE j = i
      BY <1>3, <3>1, <3>2
    <3>3. CASE j # i
      <4>1. /\ j \in byClientId
            /\ subs[j].serviceId = sid \/ \E k \in 1..Len(inbox) : IsGrant(inbox[k], j, sid)
        BY <2>3, <3>1, AgreementParts DEF IdsAgree
      <4>2. j \in byClientId' /\ subs'[j] = subs[j]
        BY <1>3, <3>3, <4>1
      <4>3. \A k \in 1..Len(inbox) : IsGrant(inbox[k], j, sid) => k # 1
        BY <3>3 DEF IsGrant
      <4>4. (\E k \in 1..Len(inbox) : IsGrant(inbox[k], j, sid)) =>
                \E k \in 1..Len(inbox') : IsGrant(inbox'[k], j, sid)
        BY <1>1, <4>3
      <4>. QED
        BY <3>1, <4>1, <4>2, <4>4
    <3>. QED
      BY <3>2, <3>3
  <2>. QED
    BY <2>1, <2>2, <2>3 DEF IdsAgree
<1>8. RequestsAgree'
  <2>1. ASSUME NEW m \in Request, outbox'[m] > 0, m.type = "Unsubscribe"
        PROVE  m.serviceId = subs'[m.clientId].serviceId
    <3>1. m.clientId \in SubIds
      BY DEF Request
    <3>2. CASE outbox[m] > 0 /\ m.clientId # i
      <4>1. m.serviceId = subs[m.clientId].serviceId
        BY <2>1, <3>2, AgreementParts DEF RequestsAgree
      <4>. QED
        BY <1>3, <3>1, <3>2, <4>1
    <3>3. CASE m.clientId = i /\ m.serviceId = s.serviceId
      BY <1>3, <3>3
    <3>. QED
      BY <2>1, <3>2, <3>3
  <2>2. ASSUME NEW p \in 1..Len(requests), requests[p].type = "Unsubscribe"
        PROVE  requests[p].serviceId = subs'[requests[p].clientId].serviceId
    <3>1. requests[p].serviceId = subs[requests[p].clientId].serviceId
      BY <2>2, AgreementParts DEF RequestsAgree
    <3>2. requests[p].clientId \in SubIds /\ requests[p].clientId # i
      <4>1. requests[p] \in Request
        BY <1>2
      <4>. QED
        BY <1>5, <4>1 DEF Request
    <3>. QED
      BY <1>3, <3>1, <3>2
  <2>. QED
    BY <2>1, <2>2 DEF RequestsAgree
<1>9. AnswersAgree'
  BY <1>1, AgreementParts DEF AnswersAgree
<1>10. OrderAgrees'
  <2>1. ASSUME NEW k \in 1..Len(inbox'), NEW l \in 1..Len(inbox'), NEW a \in SubIds, NEW j \in SubIds,
               IsGrant(inbox'[k], a, subs'[j].serviceId), IsRelease(inbox'[l], j)
        PROVE  l < k
    <3>1. /\ k + 1 \in 1..Len(inbox) /\ inbox'[k] = inbox[k + 1]
          /\ l + 1 \in 1..Len(inbox) /\ inbox'[l] = inbox[l + 1] /\ l + 1 # 1
      BY <1>1
    <3>2. j # i
      BY <1>6, <2>1, <3>1
    <3>3. IsGrant(inbox[k + 1], a, subs[j].serviceId) /\ IsRelease(inbox[l + 1], j)
      BY <1>3, <2>1, <3>1, <3>2
    <3>4. l + 1 < k + 1
      BY <3>1, <3>3, AgreementParts DEF OrderAgrees
    <3>. QED
      BY <1>1, <3>4
  <2>2. ASSUME NEW k \in 1..Len(inbox'), inbox'[k].type = "Event"
        PROVE  \/ \E l \in 1..(k - 1) : \E a \in SubIds : IsGrant(inbox'[l], a, inbox'[k].serviceId)
               \/ /\ byServiceId'[inbox'[k].serviceId] # 0
                  /\ \A l \in 1..(k - 1) : ~ IsRelease(inbox'[l], byServiceId'[inbox'[k].serviceId])
    <3>1. /\ k + 1 \in 1..Len(inbox) /\ inbox'[k] = inbox[k + 1] /\ k \in Nat /\ k >= 1
          /\ k <= Len(inbox')
      BY <1>1
    <3>2. PICK e \in ServiceIds \union {0} : e = inbox'[k].serviceId
      BY <1>2, <3>1, MessageType
    <3>3. \A l \in 1..(k - 1) : /\ l \in 1..Len(inbox') /\ inbox'[l] = inbox[l + 1]
                                /\ l + 1 \in 1..k /\ l + 1 # 1 /\ l + 1 \in 1..Len(inbox)
      BY <1>1, <3>1
    <3>4. \/ \E l \in 1..k : \E a \in SubIds : IsGrant(inbox[l], a, e)
          \/ /\ byServiceId[e] # 0
             /\ \A l \in 1..k : ~ IsRelease(inbox[l], byServiceId[e])
      <4>1. (k + 1) - 1 = k
        BY <3>1
      <4>. QED
        BY <2>2, <3>1, <3>2, <4>1, AgreementParts DEF OrderAgrees
    <3>5. \A l \in 1..(k - 1) : ~ IsRelease(inbox'[l], i)
      BY <1>6, <3>3
    <3>6. CASE \E l \in 1..k : \E a \in SubIds : IsGrant(inbox[l], a, e)
      <4>1. PICK l \in 1..k, a \in SubIds : IsGrant(inbox[l], a, e)
        BY <3>6
      <4>2. CASE l = 1
        <5>1. IsGrant(inbox[1], i, e)
          BY <4>1, <4>2 DEF IsGrant
        <5>. QED
          BY <1>2, <3>2, <3>5, <5>1
      <4>3. CASE l # 1
        <5>1. l - 1 \in 1..(k - 1) /\ l \in 1..Len(inbox)
          BY <1>1, <3>1, <4>3
        <5>2. inbox'[l - 1] = inbox[l]
          BY <1>1, <4>3, <5>1
        <5>. QED
          BY <3>2, <4>1, <5>1, <5>2
      <4>. QED
        BY <4>2, <4>3
    <3>7. CASE byServiceId[e] # 0 /\ \A l \in 1..k : ~ IsRelease(inbox[l], byServiceId[e])
      <4>1. 1 \in 1..k
        BY <3>1
      <4>2. byServiceId'[e] \in {byServiceId[e], i}
        BY <3>7, <4>1
      <4>3. \A l \in 1..(k - 1) : ~ IsRelease(inbox'[l], byServiceId[e])
        BY <3>3, <3>7
      <4>. QED
        BY <1>2, <3>2, <3>5, <3>7, <4>2, <4>3
    <3>. QED
      BY <3>4, <3>6, <3>7
  <2>. QED
    BY <2>1, <2>2 DEF OrderAgrees
<1>. QED
  BY <1>7, <1>8, <1>9, <1>10, AgreementParts DEF AgreementInv, NoAssertFails

\* The subscription of the oldest response has no other message under way.
LEMMA OldestAnswer ==
    ASSUME TypeOK, InStepInv, closes = 0, 1 \in Answers, NEW i, i = inbox[1].clientId
    PROVE  /\ \A k \in 1..Len(inbox) : \A sid : IsGrant(inbox[k], i, sid) => k = 1
           /\ \A k \in 1..Len(inbox) : IsRelease(inbox[k], i) => k = 1
           /\ \A m \in Request : outbox[m] > 0 => m.clientId # i
<1>1. \A k \in Answers : inbox[k].clientId = i => k = 1
  BY InStepParts DEF OneMessageEach
<1>2. \A k \in 1..Len(inbox) : \A sid : IsGrant(inbox[k], i, sid) =>
          k \in Answers /\ inbox[k].clientId = i
  BY DEF IsGrant, Answers
<1>3. \A k \in 1..Len(inbox) : IsRelease(inbox[k], i) => k \in Answers /\ inbox[k].clientId = i
  BY DEF IsRelease, Answers
<1>4. \A m \in Request : outbox[m] > 0 => m.clientId # i
  <2>1. \A m \in Request : outbox[m] > 0 => \A k \in Answers : inbox[k].clientId # m.clientId
    BY InStepParts DEF OneMessageEach
  <2>. QED
    BY <2>1
<1>. QED
  BY <1>1, <1>2, <1>3, <1>4

\* Who waits for the answer to a subscribe has no id yet, so it is registered
\* only if the answer says so.
LEMMA RegisteredByAnswer ==
    ASSUME TypeOK, InStepInv, AgreementInv, closes = 0, 1 \in Answers,
           NEW i \in Joining, i = inbox[1].clientId
    PROVE  /\ subs[i].serviceId = 0
           /\ \A sid \in ServiceIds : registered[sid] = i => IsGrant(inbox[1], i, sid)
<1>1. subs[i].serviceId = 0
  BY InStepParts DEF IdsInStep, Joining
<1>2. ASSUME NEW sid \in ServiceIds, registered[sid] = i
      PROVE  IsGrant(inbox[1], i, sid)
  <2>1. i # 0 /\ sid # 0
    BY BoundsAssumption DEF Joining, TypeOK, SubIds
  <2>2. \/ subs[i].serviceId = sid
        \/ \E k \in 1..Len(inbox) : IsGrant(inbox[k], i, sid)
    BY <1>2, <2>1, AgreementParts DEF IdsAgree
  <2>3. PICK k \in 1..Len(inbox) : IsGrant(inbox[k], i, sid)
    BY <1>1, <2>1, <2>2
  <2>4. k = 1
    BY <2>3, OldestAnswer
  <2>. QED
    BY <2>3, <2>4
<1>. QED
  BY <1>1, <1>2

\* A grant is handled: nobody else has its id any more.
LEMMA GrantHandled ==
    ASSUME TypeOK, TypeOK', InStepInv, AgreementInv, closes = 0, Leaves,
           NEW m, m = inbox[1], NEW i \in SubIds, i = m.clientId, NEW s,
           subs' = [subs EXCEPT ![i] = s], SubscribeAnswered(m, i, s), m.code = "Success",
           UNCHANGED <<requests, registered>>
    PROVE  AgreementInv'
<1>. DEFINE ssid == m.serviceId
<1>0. PICK sid : sid = ssid
  OBVIOUS
<1>1. /\ inbox \in Seq(Message) /\ 1 \in 1..Len(inbox) /\ sid \in ServiceIds \union {0}
      /\ byServiceId \in [ServiceIds \union {0} -> SubIds \union {0}]
      /\ outbox \in [Request -> Nat] /\ subs \in [SubIds -> ServiceSubscription]
      /\ registered \in [ServiceIds -> SubIds \union {0}] /\ byClientId \subseteq SubIds /\ i # 0
  <2>1. inbox \in Seq(Message) /\ 1 \in 1..Len(inbox)
    BY DEF TypeOK, Leaves
  <2>2. sid \in ServiceIds \union {0}
    BY <1>0, <2>1, MessageType
  <2>3. i # 0
    BY DEF SubIds
  <2>. QED
    BY <2>1, <2>2, <2>3 DEF TypeOK
<1>2. /\ m.type = "SubscribeResponse" /\ i \in Joining /\ i \in byClientId
      /\ s.serviceId = sid /\ byServiceId' = [byServiceId EXCEPT ![sid] = i]
      /\ UNCHANGED <<byClientId, failedAsserts>>
      /\ UNCHANGED outbox \/ ToSend(UnsubscribeMessage(i, sid))
  BY <1>0 DEF SubscribeAnswered, Joining, BindServiceId
<1>3. 1 \in Answers /\ IsGrant(inbox[1], i, sid)
  BY <1>0, <1>1, <1>2 DEF Answers, IsGrant
<1>4. sid # 0 /\ sid \in ServiceIds /\ registered[sid] = i
  BY <1>1, <1>3, AgreementParts DEF AnswersAgree
<1>5. \A n \in Request : outbox'[n] > 0 /\ n.type = "Unsubscribe" =>
          \/ outbox[n] > 0 /\ n.clientId # i
          \/ n.clientId = i /\ n.serviceId = s.serviceId
  <2>. DEFINE r == UnsubscribeMessage(i, sid)
  <2>1. r.clientId = i /\ r.serviceId = sid
    BY DEF UnsubscribeMessage
  <2>2. UNCHANGED outbox \/ ToSend(r)
    BY <1>2
  <2>. HIDE DEF r
  <2>3. \A n \in Request : n # r => outbox'[n] = outbox[n]
    BY <1>1, <2>2 DEF ToSend
  <2>. QED
    BY <1>2, <1>3, <2>1, <2>3, OldestAnswer
<1>6. \A j \in byClientId \ {i} : subs[j].serviceId # 0 =>
          byServiceId'[subs[j].serviceId] = byServiceId[subs[j].serviceId]
  <2>. SUFFICES ASSUME NEW j \in byClientId \ {i}, subs[j].serviceId # 0
                PROVE  byServiceId'[subs[j].serviceId] = byServiceId[subs[j].serviceId]
    OBVIOUS
  <2>1. j \in SubIds /\ subs[j].serviceId \in ServiceIds \union {0}
    <3>1. j \in SubIds /\ subs[j] \in ServiceSubscription
      BY <1>1
    <3>. QED
      BY <3>1, SubFields
  <2>2. ASSUME subs[j].serviceId = sid
        PROVE  FALSE
    <3>1. PICK k \in 1..Len(inbox) : IsRelease(inbox[k], j)
      BY <1>4, <2>2, AgreementParts DEF IdsAgree
    <3>2. k < 1
      BY <1>1, <1>3, <2>1, <2>2, <3>1, AgreementParts DEF OrderAgrees
    <3>. QED
      BY <3>2
  <2>. QED
    BY <1>1, <1>2, <2>1, <2>2
<1>7. \A t \in ServiceIds : registered[t] = i => i \in byClientId' /\ s.serviceId = t
  <2>1. \A t \in ServiceIds : registered[t] = i => IsGrant(inbox[1], i, t)
    BY <1>2, <1>3, RegisteredByAnswer
  <2>. QED
    BY <1>0, <1>2, <2>1 DEF IsGrant
<1>8. byServiceId'[sid] = i /\ \A t \in ServiceIds \union {0} : t # sid => byServiceId'[t] = byServiceId[t]
  BY <1>1, <1>2
<1>9. \A t \in ServiceIds \union {0} : IsGrant(inbox[1], i, t) => byServiceId'[t] = i
  BY <1>0, <1>8 DEF IsGrant
<1>10. \A t \in ServiceIds \union {0} : byServiceId'[t] \in {byServiceId[t], i}
  BY <1>8
<1>11. byClientId' \in {byClientId, byClientId \ {i}} /\ inbox[1].type # "Event"
  BY <1>2
<1>12. /\ i \in byClientId' /\ s.serviceId # 0 =>
              byServiceId'[s.serviceId] = i /\ registered[s.serviceId] = i
       /\ s.serviceId # 0
  BY <1>2, <1>4, <1>8
<1>13. UNCHANGED <<requests, registered, failedAsserts>> /\ inbox[1].clientId = i
  BY <1>2
<1>. HIDE DEF ssid
<1>. QED
  BY <1>2, <1>5, <1>6, <1>7, <1>9, <1>10, <1>11, <1>12, <1>13, HandledAgrees

\* A refusal is handled: its subscription is registered nowhere.
LEMMA RefusalHandled ==
    ASSUME TypeOK, TypeOK', InStepInv, AgreementInv, closes = 0, Leaves,
           NEW m, m = inbox[1], NEW i \in SubIds, i = m.clientId, NEW s,
           subs' = [subs EXCEPT ![i] = s], SubscribeAnswered(m, i, s), m.code # "Success",
           UNCHANGED <<requests, registered>>
    PROVE  AgreementInv'
<1>1. /\ m.type = "SubscribeResponse" /\ i \in Joining /\ i \in byClientId
      /\ s.serviceId = subs[i].serviceId
      /\ s.status \in {subs[i].status, "Inactive"} \/ i \notin byClientId'
      /\ byClientId' \in {byClientId, byClientId \ {i}}
      /\ UNCHANGED <<byServiceId, outbox, failedAsserts>>
      /\ subs[i].status \in {"Subscribing", "PendingUnsubscribe"}
  BY DEF SubscribeAnswered, Joining
<1>2. 1 \in Answers
  BY <1>1 DEF Answers, Leaves
<1>3. \A t : ~ IsGrant(inbox[1], i, t)
  BY DEF IsGrant
<1>4. subs[i].serviceId = 0 /\ \A t \in ServiceIds : registered[t] # i
  BY <1>1, <1>2, <1>3, RegisteredByAnswer
<1>5. \A n \in Request : outbox'[n] > 0 /\ n.type = "Unsubscribe" => outbox[n] > 0 /\ n.clientId # i
  BY <1>1, <1>2, OldestAnswer
<1>6. i \in byClientId' => s.status \notin {"Active", "Unsubscribing", "PendingSubscribe"}
  BY <1>1
<1>. QED
  BY ZenonT(30), <1>1, <1>3, <1>4, <1>5, <1>6, HandledAgrees

\* The end of an unsubscribe is handled: nobody else has the id it frees.
LEMMA ReleaseHandled ==
    ASSUME TypeOK, TypeOK', InStepInv, AgreementInv, closes = 0, Leaves,
           NEW m, m = inbox[1], NEW i \in SubIds, i = m.clientId, NEW s,
           subs' = [subs EXCEPT ![i] = s], UnsubscribeAnswered(m, i, s),
           UNCHANGED <<requests, registered>>
    PROVE  AgreementInv'
<1>. DEFINE ssid == subs[i].serviceId
<1>0. PICK sid : sid = ssid
  OBVIOUS
<1>1. /\ inbox \in Seq(Message) /\ 1 \in 1..Len(inbox) /\ sid \in ServiceIds \union {0}
      /\ byServiceId \in [ServiceIds \union {0} -> SubIds \union {0}]
      /\ outbox \in [Request -> Nat] /\ subs \in [SubIds -> ServiceSubscription]
      /\ byClientId \subseteq SubIds /\ i # 0
  <2>1. subs[i] \in ServiceSubscription
    BY DEF TypeOK
  <2>2. sid \in ServiceIds \union {0}
    BY <1>0, <2>1, SubFields
  <2>3. i # 0
    BY DEF SubIds
  <2>. QED
    BY <2>2, <2>3 DEF TypeOK, Leaves
<1>2. /\ m.type = "UnsubscribeResponse" /\ i \in Parting /\ i \in byClientId
      /\ s.serviceId = 0 /\ byServiceId' = [byServiceId EXCEPT ![sid] = 0]
      /\ s.status = "Subscribing" \/ i \notin byClientId'
      /\ byClientId' \in {byClientId, byClientId \ {i}}
      /\ UNCHANGED failedAsserts
      /\ UNCHANGED outbox \/ ToSend(SubscribeMessage(i))
  BY <1>0 DEF UnsubscribeAnswered, Parting, BindServiceId
<1>3. 1 \in Answers /\ IsRelease(inbox[1], i) /\ \A t : ~ IsGrant(inbox[1], i, t)
  BY <1>1, <1>2 DEF Answers, IsRelease, IsGrant
<1>4. \A t \in ServiceIds : registered[t] # i
  BY <1>1, <1>3, AgreementParts DEF AnswersAgree
<1>5. sid # 0 /\ byServiceId[sid] = i
  BY <1>0, <1>2, AgreementParts DEF IdsAgree, Parting
<1>6. \A n \in Request : outbox'[n] > 0 /\ n.type = "Unsubscribe" => outbox[n] > 0 /\ n.clientId # i
  <2>. DEFINE r == SubscribeMessage(i)
  <2>1. r.type = "Subscribe"
    BY DEF SubscribeMessage
  <2>2. UNCHANGED outbox \/ ToSend(r)
    BY <1>2
  <2>. HIDE DEF r
  <2>3. \A n \in Request : n # r => outbox'[n] = outbox[n]
    BY <1>1, <2>2 DEF ToSend
  <2>. QED
    BY <1>3, <2>1, <2>3, OldestAnswer
<1>7. \A j \in byClientId \ {i} : subs[j].serviceId # 0 =>
          byServiceId'[subs[j].serviceId] = byServiceId[subs[j].serviceId]
  <2>. SUFFICES ASSUME NEW j \in byClientId \ {i}, subs[j].serviceId # 0
                PROVE  byServiceId'[subs[j].serviceId] = byServiceId[subs[j].serviceId]
    OBVIOUS
  <2>1. subs[j].serviceId \in ServiceIds \union {0}
    <3>1. subs[j] \in ServiceSubscription
      BY <1>1
    <3>. QED
      BY <3>1, SubFields
  <2>2. byServiceId[subs[j].serviceId] = j
    BY AgreementParts DEF IdsAgree
  <2>3. subs[j].serviceId # sid
    BY <1>5, <2>2
  <2>. QED
    BY <1>1, <1>2, <2>1, <2>3
<1>8. \A t \in ServiceIds \union {0} :
          byServiceId[t] # 0 /\ ~ IsRelease(inbox[1], byServiceId[t]) =>
              byServiceId'[t] \in {byServiceId[t], i}
  <2>1. \A t \in ServiceIds \union {0} : t # sid => byServiceId'[t] = byServiceId[t]
    BY <1>1, <1>2
  <2>. QED
    BY <1>3, <1>5, <2>1
<1>9. inbox[1].type # "Event"
  BY <1>2
<1>. QED
  BY <1>2, <1>3, <1>4, <1>6, <1>7, <1>8, <1>9, HandledAgrees

\* An event is handled: its subscription is known.
LEMMA EventHandled ==
    ASSUME TypeOK, TypeOK', InStepInv, AgreementInv, closes = 0, Leaves,
           inbox[1].type = "Event",
           UNCHANGED <<subs, byClientId, byServiceId, outbox, requests, registered>>,
           byServiceId[inbox[1].serviceId] # 0 => UNCHANGED failedAsserts
    PROVE  AgreementInv'
<1>1. /\ Len(inbox) \in Nat /\ Len(inbox') = Len(inbox) - 1 /\ 1 \in 1..Len(inbox)
      /\ \A k \in 1..Len(inbox) : k # 1 => k - 1 \in 1..Len(inbox') /\ inbox'[k - 1] = inbox[k]
      /\ \A k \in 1..Len(inbox') : /\ k + 1 \in 1..Len(inbox) /\ k + 1 # 1
                                   /\ inbox'[k] = inbox[k + 1]
  BY DEF Leaves
<1>2. byServiceId[inbox[1].serviceId] # 0
  <2>1. \/ \E l \in 1..(1 - 1) : \E i \in SubIds : IsGrant(inbox[l], i, inbox[1].serviceId)
        \/ byServiceId[inbox[1].serviceId] # 0
    BY <1>1, AgreementParts DEF OrderAgrees
  <2>2. 1..(1 - 1) = {}
    OBVIOUS
  <2>. QED
    BY <2>1, <2>2
<1>3. UNCHANGED failedAsserts
  BY <1>2
<1>4. \A k \in 1..Len(inbox) :
          /\ \A i, sid : IsGrant(inbox[k], i, sid) => k # 1
          /\ \A i : IsRelease(inbox[k], i) => k # 1
  BY DEF IsGrant, IsRelease
<1>5. IdsAgree'
  <2>1. ASSUME NEW i \in byClientId, subs[i].serviceId # 0
        PROVE  /\ byServiceId[subs[i].serviceId] = i
               /\ \/ registered[subs[i].serviceId] = i
                  \/ \E k \in 1..Len(inbox') : IsRelease(inbox'[k], i)
    <3>1. /\ byServiceId[subs[i].serviceId] = i
          /\ \/ registered[subs[i].serviceId] = i
             \/ \E k \in 1..Len(inbox) : IsRelease(inbox[k], i)
      BY <2>1, AgreementParts DEF IdsAgree
    <3>. QED
      BY <1>1, <1>4, <3>1
  <2>2. ASSUME NEW sid \in ServiceIds, registered[sid] # 0
        PROVE  /\ registered[sid] \in byClientId
               /\ \/ subs[registered[sid]].serviceId = sid
                  \/ \E k \in 1..Len(inbox') : IsGrant(inbox'[k], registered[sid], sid)
    <3>1. /\ registered[sid] \in byClientId
          /\ \/ subs[registered[sid]].serviceId = sid
             \/ \E k \in 1..Len(inbox) : IsGrant(inbox[k], registered[sid], sid)
      BY <2>2, AgreementParts DEF IdsAgree
    <3>. QED
      BY <1>1, <1>4, <3>1
  <2>3. \A i \in byClientId :
            subs[i].status \in {"Active", "Unsubscribing", "PendingSubscribe"} => subs[i].serviceId # 0
    BY AgreementParts DEF IdsAgree
  <2>. QED
    BY <2>1, <2>2, <2>3 DEF IdsAgree
<1>6. RequestsAgree'
  BY AgreementParts DEF RequestsAgree
<1>7. AnswersAgree'
  BY <1>1, AgreementParts DEF AnswersAgree
<1>8. OrderAgrees'
  <2>1. ASSUME NEW k \in 1..Len(inbox'), NEW l \in 1..Len(inbox'), NEW i \in SubIds, NEW j \in SubIds,
               IsGrant(inbox'[k], i, subs[j].serviceId), IsRelease(inbox'[l], j)
        PROVE  l < k
    <3>1. /\ k + 1 \in 1..Len(inbox) /\ l + 1 \in 1..Len(inbox)
          /\ IsGrant(inbox[k + 1], i, subs[j].serviceId) /\ IsRelease(inbox[l + 1], j)
      BY <1>1, <2>1
    <3>2. l + 1 < k + 1
      BY <3>1, AgreementParts DEF OrderAgrees
    <3>. QED
      BY <1>1, <3>2
  <2>2. ASSUME NEW k \in 1..Len(inbox'), inbox'[k].type = "Event"
        PROVE  \/ \E l \in 1..(k - 1) : \E i \in SubIds : IsGrant(inbox'[l], i, inbox'[k].serviceId)
               \/ /\ byServiceId[inbox'[k].serviceId] # 0
                  /\ \A l \in 1..(k - 1) : ~ IsRelease(inbox'[l], byServiceId[inbox'[k].serviceId])
    <3>1. /\ k + 1 \in 1..Len(inbox) /\ inbox'[k] = inbox[k + 1] /\ (k + 1) - 1 = k
          /\ k \in Nat /\ k <= Len(inbox')
      BY <1>1
    <3>2. \A l \in 1..(k - 1) : l \in 1..Len(inbox') /\ l + 1 \in 1..k
      BY <1>1, <3>1
    <3>3. \A l \in 1..k : l # 1 => l - 1 \in 1..(k - 1) /\ l \in 1..Len(inbox)
      BY <1>1, <3>1
    <3>4. \/ \E l \in 1..k : \E i \in SubIds : IsGrant(inbox[l], i, inbox'[k].serviceId)
          \/ /\ byServiceId[inbox'[k].serviceId] # 0
             /\ \A l \in 1..k : ~ IsRelease(inbox[l], byServiceId[inbox'[k].serviceId])
      BY <2>2, <3>1, AgreementParts DEF OrderAgrees
    <3>5. CASE \E l \in 1..k : \E i \in SubIds : IsGrant(inbox[l], i, inbox'[k].serviceId)
      <4>1. PICK l \in 1..k, i \in SubIds : IsGrant(inbox[l], i, inbox'[k].serviceId)
        BY <3>5
      <4>2. l # 1
        BY <1>1, <1>4, <4>1
      <4>3. l - 1 \in 1..(k - 1) /\ inbox'[l - 1] = inbox[l]
        BY <1>1, <3>3, <4>2
      <4>. QED
        BY <4>1, <4>3
    <3>6. CASE /\ byServiceId[inbox'[k].serviceId] # 0
               /\ \A l \in 1..k : ~ IsRelease(inbox[l], byServiceId[inbox'[k].serviceId])
      BY <1>1, <3>2, <3>6
    <3>. QED
      BY <3>4, <3>5, <3>6
  <2>. QED
    BY <2>1, <2>2 DEF OrderAgrees
<1>. QED
  BY <1>3, <1>5, <1>6, <1>7, <1>8, AgreementParts DEF AgreementInv, NoAssertFails

\* The handler of a message keeps the agreement, where m_queue is serial.
LEMMA MessageReceivedAgrees ==
    ASSUME TypeOK, TypeOK', InStepInv, AgreementInv, closes = 0, SerialDispatch,
           NEW k \in 1..Len(inbox), WebsocketMessageReceived(k)
    PROVE  AgreementInv'
<1>1. k = 1 /\ Leaves
  BY OldestLeaves
<1>2. UNCHANGED <<requests, registered>>
  BY DEF WebsocketMessageReceived, sockVars
<1>3. CASE inbox[k].type = "Event"
  <2>1. /\ UNCHANGED <<subs, byClientId, byServiceId, outbox>>
        /\ byServiceId[inbox[k].serviceId] # 0 => UNCHANGED failedAsserts
    BY <1>3 DEF WebsocketMessageReceived, IgnoreResponse, SubscribeSucceeded, SubscribeDenied,
       SubscribeThrottled, UnsubscribeResponse, EventHandler, AssertAt, mapVars
  <2>. QED
    BY <1>1, <1>2, <1>3, <2>1, EventHandled
<1>4. CASE k \in Answers
  <2>. DEFINE mm == inbox[k]
              ii == inbox[k].clientId
  <2>1. PICK m, i : m = mm /\ i = ii
    OBVIOUS
  <2>2. /\ i \in SubIds
        /\ \E s \in ServiceSubscription :
               /\ subs' = [subs EXCEPT ![i] = s]
               /\ SubscribeAnswered(m, i, s) \/ UnsubscribeAnswered(m, i, s)
    BY <1>4, <2>1, ResponseEffect
  <2>3. PICK s \in ServiceSubscription :
            /\ subs' = [subs EXCEPT ![i] = s]
            /\ SubscribeAnswered(m, i, s) \/ UnsubscribeAnswered(m, i, s)
    BY <2>2
  <2>4. m = inbox[1] /\ i = m.clientId
    BY <1>1, <2>1
  <2>5. CASE SubscribeAnswered(m, i, s) /\ m.code = "Success"
    BY <1>1, <1>2, <2>2, <2>3, <2>4, <2>5, GrantHandled
  <2>6. CASE SubscribeAnswered(m, i, s) /\ m.code # "Success"
    BY <1>1, <1>2, <2>2, <2>3, <2>4, <2>6, RefusalHandled
  <2>7. CASE UnsubscribeAnswered(m, i, s)
    BY <1>1, <1>2, <2>2, <2>3, <2>4, <2>7, ReleaseHandled
  <2>. QED
    BY <2>3, <2>5, <2>6, <2>7
<1>. QED
  BY <1>3, <1>4 DEF Answers

\* Every step keeps the agreement until the first close.
LEMMA NextAgrees ==
    ASSUME SerialDispatch, UnsubscribeCodes \subseteq {"Success"},
           TypeOK, TypeOK', TrackingInv, OneDriver, InStepInv, AgreementInv, [Next]_vars
    PROVE  AgreementInv'
<1>. SUFFICES ASSUME closes' = 0
              PROVE  AgreementInv'
  BY DEF AgreementInv
<1>1. closes \in Nat
  BY DEF TypeOK
<1>2. CASE DisconnectHandler
  BY <1>1, <1>2 DEF DisconnectHandler
<1>3. CASE UNCHANGED vars
  BY <1>3 DEF AgreementInv, NoAssertFails, IdsAgree, RequestsAgree, AnswersAgree, OrderAgrees,
     vars, connVars, mapVars, sockVars, opVars
<1>4. CASE \E c \in Clients : AddSubscription(c)
  <2>1. closes = 0
    BY <1>4 DEF AddSubscription, sockVars
  <2>. QED
    BY <1>4, <2>1, AddSubscriptionAgrees
<1>5. CASE \E c \in Clients : RemoveLast(c)
  <2>1. closes = 0
    BY <1>5 DEF RemoveLast, sockVars
  <2>. QED
    BY <1>5, <2>1, RemoveLastAgrees
<1>6. CASE \/ \E c \in Clients : RemoveUnknown(c) \/ RemoveShared(c)
           \/ ConnectTimerFires \/ ConnectTimerFails \/ ConnectFailed
           \/ NetworkConnects \/ NetworkRefuses
           \/ Cleanup \/ QueueTerminated
  <2>1. closes = 0
    BY <1>6 DEF RemoveUnknown, RemoveShared, ConnectTimerFires, ConnectTimerFails, ConnectFailed,
       NetworkConnects, NetworkRefuses, Cleanup, QueueTerminated, sockVars
  <2>. QED
    BY <1>6, <2>1, QuietAgrees
<1>7. CASE \/ \E i \in SubIds : RetrySubscribe(i)
           \/ \E m \in Request : SendAssembledMessage(m)
           \/ ConnectSucceeded
  <2>1. closes = 0
    BY <1>7 DEF RetrySubscribe, SendAssembledMessage, ConnectSucceeded, sockVars
  <2>. QED
    BY <1>7, <2>1, SendingAgrees
<1>8. CASE \/ \E sid \in ServiceIds : ServiceGrants(sid) \/ ServiceRaisesEvent(sid)
           \/ \E code \in Codes : ServiceDeclines(code)
           \/ \E code \in UnsubscribeCodes : ServiceReleases(code)
  <2>1. closes = 0
    BY <1>8 DEF ServiceGrants, ServiceRaisesEvent, ServiceDeclines, ServiceReleases, Reply
  <2>2. CASE \E sid \in ServiceIds : ServiceGrants(sid)
    BY <2>1, <2>2, ServiceGrantsAgrees
  <2>3. CASE \/ \E sid \in ServiceIds : ServiceRaisesEvent(sid)
             \/ \E code \in Codes : ServiceDeclines(code)
    BY <2>1, <2>3, ServiceSaysAgrees
  <2>4. CASE \E code \in UnsubscribeCodes : ServiceReleases(code)
    <3>1. ServiceReleases("Success")
      BY <2>4
    <3>. QED
      BY <2>1, <3>1, ServiceReleasesAgrees
  <2>. QED
    BY <1>8, <2>2, <2>3, <2>4
<1>9. CASE \E k \in 1..Len(inbox) : WebsocketMessageReceived(k)
  <2>1. closes = 0
    BY <1>9 DEF WebsocketMessageReceived, sockVars
  <2>. QED
    BY <1>9, <2>1, MessageReceivedAgrees
<1>. QED
  BY <1>2, <1>3, <1>4, <1>5, <1>6, <1>7, <1>8, <1>9 DEF Next, Component, Environment

\* Nothing is registered initially.
LEMMA InitAgrees == Init => AgreementInv
<1>. SUFFICES ASSUME Init PROVE AgreementInv
  OBVIOUS
<1>1. /\ byClientId = {} /\ failedAsserts = {} /\ requests = <<>> /\ inbox = <<>>
      /\ outbox = [m \in Request |-> 0] /\ registered = [s \in ServiceIds |-> 0]
  BY DEF Init
<1>2. Len(inbox) = 0 /\ Len(requests) = 0
  BY <1>1
<1>3. IdsAgree /\ RequestsAgree
  BY <1>1, <1>2 DEF IdsAgree, RequestsAgree
<1>4. AnswersAgree /\ OrderAgrees
  BY <1>2 DEF AnswersAgree, OrderAgrees
<1>. QED
  BY <1>1, <1>3, <1>4 DEF AgreementInv, NoAssertFails

\* The inductive invariant behind the agreement: until the first close, where
\* m_queue is serial and no unsubscribe refused, ids, requests, answers and their
\* order match what the service has registered.
THEOREM AgreementHolds ==
    ASSUME SerialDispatch, UnsubscribeCodes \subseteq {"Success"}
    PROVE  Spec => []AgreementInv
<1>1. Init => AgreementInv
  BY InitAgrees
<1>2. TypeOK /\ TypeOK' /\ TrackingInv /\ OneDriver /\ InStepInv /\ AgreementInv /\ [Next]_vars
          => AgreementInv'
  BY NextAgrees
<1>. QED
  BY <1>1, <1>2, TypeCorrect, Tracking, OneDriverHolds, InStep, PTL DEF Spec

\* All along a session whose messages m_queue handles in order, until its socket
\* is lost, no assert of the connection fails, what it takes for active is
\* registered under the id its maps hold, and nothing is registered that it does
\* not track.
THEOREM Agreement ==
    ASSUME SerialDispatch, UnsubscribeCodes \subseteq {"Success"}
    PROVE  Spec => [](closes = 0 => AgreesWithService)
<1>1. ASSUME TypeOK, InStepInv, AgreementInv, closes = 0
      PROVE  AgreesWithService
  <2>1. ASSUME NEW i \in byClientId, subs[i].status = "Active"
        PROVE  /\ subs[i].serviceId # 0
               /\ byServiceId[subs[i].serviceId] = i
               /\ registered[subs[i].serviceId] = i
    <3>1. subs[i].serviceId # 0
      BY <1>1, <2>1, AgreementParts DEF IdsAgree
    <3>2. /\ byServiceId[subs[i].serviceId] = i
          /\ \/ registered[subs[i].serviceId] = i
             \/ \E k \in 1..Len(inbox) : IsRelease(inbox[k], i)
      BY <1>1, <3>1, AgreementParts DEF IdsAgree
    <3>3. i \notin Parting
      BY <2>1 DEF Parting
    <3>. QED
      BY <1>1, <3>1, <3>2, <3>3, ReleasedIsParting
  <2>2. ActiveIsRegistered
    BY <2>1 DEF ActiveIsRegistered
  <2>3. NoOrphanRegistration
    BY <1>1, AgreementParts DEF IdsAgree, NoOrphanRegistration
  <2>. QED
    BY <1>1, <2>2, <2>3, AgreementParts DEF AgreesWithService, NoAssertFails
<1>. QED
  BY <1>1, TypeCorrect, InStep, AgreementHolds, PTL
=============================================================================
