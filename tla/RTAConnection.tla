--------------------------- MODULE RTAConnection ---------------------------
(***************************************************************************)
(* One Real Time Activity connection of one user: class Connection of      *)
(* Services/RealTimeActivityManager/real_time_activity_connection.cpp,     *)
(* with the websocket it drives and the RTA service behind it.             *)
(*                                                                         *)
(* The connection multiplexes the Subscription objects of the library's    *)
(* services ("clients") onto at most one service subscription per resource *)
(* URI, runs the subscribe / unsubscribe handshakes, retries when the      *)
(* service throttles, and registers everything again after a reconnect.    *)
(*                                                                         *)
(* Every action is one critical section under m_lock.  A message assembled *)
(* under the lock is sent only after the unlock, on whatever websocket     *)
(* m_websocket then is: it waits in outbox for SendAssembledMessage.       *)
(* A message received is posted to m_queue together with its handler, so   *)
(* it waits in inbox and survives the socket it came from.  The            *)
(* disconnect handler is called by the websocket's own thread, at once.    *)
(***************************************************************************)
EXTENDS Integers, Sequences, FiniteSets, SequencesExt

CONSTANTS
    Uris,           \* resource URIs
    NoUri,          \* not a URI: a ServiceSubscription not created yet
    Clients,        \* Subscription objects of the callers
    UriOf,          \* ResourceUri() of each of them
    ServiceIds,     \* subscription ids the service hands out
    Codes,          \* codes the service answers a Subscribe with
    UnsubscribeCodes, \* codes it answers an Unsubscribe with
    SerialDispatch, \* m_queue runs one callback at a time, in order
    MaxSubId,       \* bound: ServiceSubscription objects ever created
    MaxOps,         \* bound: calls of AddSubscription and RemoveSubscription
    MaxCloses,      \* bound: times an open websocket is lost
    MaxRetries,     \* bound: retry timers of one subscription at a time
    MaxInbox        \* bound: messages waiting in m_queue

ASSUME NamesAssumption ==
    /\ NoUri \notin Uris
    /\ UriOf \in [Clients -> Uris]
    /\ Codes \union UnsubscribeCodes \subseteq {"Success", "Throttled", "Denied"}
    /\ SerialDispatch \in BOOLEAN
ASSUME BoundsAssumption ==
    /\ ServiceIds \subseteq Nat \ {0}
    /\ MaxSubId \in Nat
    /\ MaxOps \in Nat
    /\ MaxCloses \in Nat
    /\ MaxRetries \in Nat
    /\ MaxInbox \in Nat

SubIds == 1..MaxSubId
OpIds  == 1..MaxOps

Status == {"Inactive", "Active", "PendingSubscribe", "Subscribing",
           "PendingUnsubscribe", "Unsubscribing"}

\* HRESULTs an AsyncContext is completed with; before that, "none" and "pending".
Results == {"none", "pending", "S_OK", "E_ABORT", "E_XBL_RTA_GENERIC_ERROR",
            "E_XBL_RTA_ACCESS_DENIED"}

\* struct ServiceSubscription; the lists of AsyncContexts are sets of call ids.
ServiceSubscription ==
    [uri                : Uris \union {NoUri},
     status             : Status,
     serviceId          : ServiceIds \union {0},
     clientSubscriptions: SUBSET Clients,
     subscribeOps       : SUBSET OpIds,
     unsubscribeOps     : SUBSET OpIds]

\* The asserts of the handlers that some interleaving might break, by line.
AssertSites == {"291: serviceId == 0", "461: status", "547: status", "609: status",
                "635: event of a known subscription", "663: m_subsByServiceId.empty()",
                "668: status == Inactive"}

Request ==
    [type: {"Subscribe"}, clientId: SubIds, serviceId: {0}]
    \union [type: {"Unsubscribe"}, clientId: SubIds, serviceId: ServiceIds \union {0}]
Message == [type: {"SubscribeResponse", "UnsubscribeResponse", "Event"},
            clientId: SubIds \union {0}, code: Codes \union UnsubscribeCodes \union {"none"},
            serviceId: ServiceIds \union {0}]

VARIABLES
    phase,          \* "live", "cleaned" (after Cleanup), "crashed"
    state,          \* m_state
    connectAttempt, \* m_connectAttempt, up to the value the code compares with
    connectTimers,  \* ScheduleConnect callbacks waiting in m_queue
    subs,           \* the ServiceSubscription objects, by client id
    byClientId,     \* keys of m_subsByClientId
    byUri,          \* m_subsByUri: a client id, or 0
    byServiceId,    \* m_subsByServiceId: a client id, or 0
    nextSubId,      \* m_nextSubId
    retryTimers,    \* throttle retries waiting in m_queue, per subscription
    outbox,         \* how many threads are about to send each request
    wire,           \* m_websocket: "none", "unstarted", "connecting", "open", "closed"
    completion,     \* connect completion waiting in m_queue: "none", "ok", "fail"
    requests,       \* requests on their way to the service
    registered,     \* what the service holds for this socket: id -> client id
    inbox,          \* messages posted to m_queue and not yet handled
    closes,         \* websockets lost so far
    nextOp,         \* next call id
    result,         \* what each call's AsyncContext was completed with
    aborting,       \* calls Cleanup collected for the terminated queue's callback
    held,           \* clients whose last call was AddSubscription
    failedAsserts   \* source lines of the asserts that have failed

connVars == <<state, connectAttempt, connectTimers>>
mapVars  == <<byClientId, byUri, nextSubId>>
sockVars == <<wire, completion, requests, registered, closes>>
opVars   == <<nextOp, result, held>>
vars == <<phase, connVars, subs, mapVars, byServiceId, retryTimers, outbox,
          sockVars, inbox, opVars, aborting, failedAsserts>>

(***************************************************************************)
(* Helpers                                                                 *)
(***************************************************************************)
NewSub == [uri |-> NoUri, status |-> "Inactive", serviceId |-> 0,
           clientSubscriptions |-> {}, subscribeOps |-> {}, unsubscribeOps |-> {}]

\* A thread has assembled m and is about to unlock and send it.
ToSend(m) == outbox' = [outbox EXCEPT ![m] = @ + 1]

SubscribeMessage(i) == [type |-> "Subscribe", clientId |-> i, serviceId |-> 0]
UnsubscribeMessage(i, sid) == [type |-> "Unsubscribe", clientId |-> i, serviceId |-> sid]

\* Mutant: the lists are copied and not cleared.
WithoutOps_Copies(sub) == sub

\* Moves a subscription's AsyncContexts out of its lists, or destroys them.
WithoutOps(sub) == [sub EXCEPT !.subscribeOps = {}, !.unsubscribeOps = {}]

\* Mutant: only m_subsByClientId is cleaned up.
EraseSub_KeepsUri(i) ==
    /\ byClientId' = byClientId \ {i}
    /\ UNCHANGED <<byUri, nextSubId>>

\* Remove a subscription from m_subsByClientId and m_subsByUri.
EraseSub(i) ==
    /\ byClientId' = byClientId \ {i}
    /\ byUri' = [byUri EXCEPT ![subs[i].uri] = 0]
    /\ UNCHANGED nextSubId

\* Complete the AsyncContexts in ops with r; the others are left alone.
Completed(res, ops, r) == [o \in OpIds |-> IF o \in ops THEN r ELSE res[o]]

AssertAt(line, condition) ==
    failedAsserts' = IF condition THEN failedAsserts ELSE failedAsserts \union {line}

\* Mutant: the service's code is passed on as it is.
ConvertRTAErrorCode_Raw(code) == code

ConvertRTAErrorCode(code) ==
    CASE code = "Success" -> "S_OK"
      [] code = "Denied"  -> "E_XBL_RTA_ACCESS_DENIED"
      [] OTHER            -> "E_XBL_RTA_GENERIC_ERROR"

\* Mutant: the backoff is counted but nothing is scheduled.
ScheduleConnect_Forgets ==
    /\ UNCHANGED connectTimers
    /\ connectAttempt' = IF connectAttempt < 4 THEN connectAttempt + 1 ELSE 4

\* ScheduleConnect's own effect; the callback is ConnectTimerFires.
ScheduleConnect ==
    /\ connectTimers' = connectTimers + 1
    /\ connectAttempt' = IF connectAttempt < 4 THEN connectAttempt + 1 ELSE 4

Init ==
    /\ phase = "live"
    /\ state = "Connecting"
    /\ connectAttempt = 1
    /\ connectTimers = 1
    /\ subs = [i \in SubIds |-> NewSub]
    /\ byClientId = {}
    /\ byUri = [u \in Uris |-> 0]
    /\ byServiceId = [s \in ServiceIds \union {0} |-> 0]
    /\ nextSubId = 1
    /\ retryTimers = [i \in SubIds |-> 0]
    /\ outbox = [m \in Request |-> 0]
    /\ wire = "none"
    /\ completion = "none"
    /\ requests = <<>>
    /\ registered = [s \in ServiceIds |-> 0]
    /\ inbox = <<>>
    /\ closes = 0
    /\ nextOp = 1
    /\ result = [o \in OpIds |-> "none"]
    /\ aborting = {}
    /\ held = {}
    /\ failedAsserts = {}

(***************************************************************************)
(* Calls made by the library's services, through RealTimeActivityManager   *)
(***************************************************************************)
\* Mutant: an Add does not call off an unsubscribe that waits for the handshake.
StatusAfterAdd_KeepsLeaving(status) ==
    CASE status = "Inactive" /\ state = "Connected" -> "Subscribing"
      [] status = "Unsubscribing"                   -> "PendingSubscribe"
      [] OTHER                                      -> status

\* Mutant: an Add does not wait for the end of the unsubscribe handshake.
StatusAfterAdd_SkipsPending(status) ==
    CASE status = "Inactive" /\ state = "Connected"        -> "Subscribing"
      [] status \in {"PendingUnsubscribe", "Unsubscribing"} -> "Subscribing"
      [] OTHER                                             -> status

\* Mutant: a Remove during the subscribe handshake is forgotten.
StatusAfterRemove_ForgetsHandshake(status) ==
    IF status \in {"Active", "PendingSubscribe"} THEN "Unsubscribing" ELSE status

\* The status a further, respectively the last remaining, client leaves.
StatusAfterAdd(status) ==
    CASE status = "Inactive" /\ state = "Connected" -> "Subscribing"
      [] status = "PendingUnsubscribe"              -> "Subscribing"
      [] status = "Unsubscribing"                   -> "PendingSubscribe"
      [] OTHER                                      -> status

StatusAfterRemove(status) ==
    CASE status \in {"Active", "PendingSubscribe"} -> "Unsubscribing"
      [] status = "Subscribing"                    -> "PendingUnsubscribe"
      [] OTHER                                     -> status

\* What becomes of this call's AsyncContext, and of those it cancels.
Waits(cancelled) ==
    result' = [Completed(result, cancelled, "E_ABORT") EXCEPT ![nextOp] = "pending"]
IsDone == result' = [result EXCEPT ![nextOp] = "S_OK"]

AddSubscription(c) ==
    LET u       == UriOf[c]
        i       == IF byUri[u] = 0 THEN nextSubId ELSE byUri[u]
        was     == subs[i].status
        sub     == [subs[i] EXCEPT !.uri = u, !.clientSubscriptions = @ \union {c},
                                   !.status = StatusAfterAdd(@)]
        waiting == [sub EXCEPT !.subscribeOps = @ \union {nextOp}]
    IN  /\ c \notin held
        /\ nextOp \in OpIds /\ i \in SubIds
        /\ byClientId' = byClientId \union {i}
        /\ byUri' = [byUri EXCEPT ![u] = i]
        /\ nextSubId' = IF byUri[u] = 0 THEN nextSubId + 1 ELSE nextSubId
        /\ held' = held \union {c}
        /\ nextOp' = nextOp + 1
        /\ \/ /\ was = "Inactive" /\ state = "Connected"
              /\ subs' = [subs EXCEPT ![i] = waiting]
              /\ Waits({})
              /\ ToSend(SubscribeMessage(i))
           \/ /\ was = "PendingUnsubscribe"
              /\ subs' = [subs EXCEPT ![i] = [waiting EXCEPT !.unsubscribeOps = {}]]
              /\ Waits(sub.unsubscribeOps)
              /\ UNCHANGED outbox
           \/ /\ was = "Active"
              /\ subs' = [subs EXCEPT ![i] = sub]
              /\ IsDone
              /\ UNCHANGED outbox
           \/ /\ \/ was = "Inactive" /\ state # "Connected"
                 \/ was \in {"Unsubscribing", "PendingSubscribe", "Subscribing"}
              /\ subs' = [subs EXCEPT ![i] = waiting]
              /\ Waits({})
              /\ UNCHANGED outbox
        /\ UNCHANGED <<connVars, byServiceId, retryTimers, sockVars, inbox, aborting,
                       failedAsserts>>

\* A client may remove a subscription this connection does not know: it was
\* added to an earlier connection of the same user.  The call returns at once
\* and drops its AsyncContext, so it has no result.
RemoveUnknown(c) ==
    /\ nextOp \in OpIds
    /\ byUri[UriOf[c]] = 0
    /\ nextOp' = nextOp + 1
    /\ held' = held \ {c}
    /\ UNCHANGED <<connVars, subs, mapVars, byServiceId, retryTimers, outbox, sockVars,
                   inbox, result, aborting, failedAsserts>>

RemoveShared(c) ==
    LET i   == byUri[UriOf[c]]
        sub == [subs[i] EXCEPT !.clientSubscriptions = @ \ {c}]
    IN  /\ nextOp \in OpIds
        /\ i # 0
        /\ sub.clientSubscriptions # {}
        /\ nextOp' = nextOp + 1
        /\ held' = held \ {c}
        /\ subs' = [subs EXCEPT ![i] = sub]
        /\ IsDone
        /\ UNCHANGED <<connVars, mapVars, byServiceId, retryTimers, outbox, sockVars, inbox,
                       aborting, failedAsserts>>

RemoveLast(c) ==
    LET i       == byUri[UriOf[c]]
        was     == subs[i].status
        sub     == [subs[i] EXCEPT !.clientSubscriptions = @ \ {c},
                                   !.status = StatusAfterRemove(@)]
        waiting == [sub EXCEPT !.unsubscribeOps = @ \union {nextOp}]
    IN  /\ nextOp \in OpIds
        /\ i # 0
        /\ sub.clientSubscriptions = {}
        /\ nextOp' = nextOp + 1
        /\ held' = held \ {c}
        /\ \/ /\ was = "Inactive"
              /\ AssertAt("291: serviceId == 0", sub.serviceId = 0)
              /\ EraseSub(i)
              /\ subs' = [subs EXCEPT ![i] = WithoutOps(sub)]
              /\ IsDone
              /\ UNCHANGED outbox
           \/ /\ was = "Active"
              /\ subs' = [subs EXCEPT ![i] = waiting]
              /\ Waits({})
              /\ ToSend(UnsubscribeMessage(i, sub.serviceId))
              /\ UNCHANGED <<mapVars, failedAsserts>>
           \/ /\ was = "PendingSubscribe"
              /\ subs' = [subs EXCEPT ![i] = [waiting EXCEPT !.subscribeOps = {}]]
              /\ Waits(sub.subscribeOps)
              /\ UNCHANGED <<mapVars, outbox, failedAsserts>>
           \/ /\ was \in {"Subscribing", "PendingUnsubscribe", "Unsubscribing"}
              /\ subs' = [subs EXCEPT ![i] = waiting]
              /\ Waits({})
              /\ UNCHANGED <<mapVars, outbox, failedAsserts>>
        /\ UNCHANGED <<connVars, byServiceId, retryTimers, sockVars, inbox, aborting>>

\* Disconnects without reconnecting, and hands every listed AsyncContext to
\* the callback that runs when the queue has terminated.
Cleanup ==
    /\ phase = "live"
    /\ phase' = "cleaned"
    /\ aborting' = UNION {subs[i].subscribeOps \union subs[i].unsubscribeOps : i \in byClientId}
    /\ subs' = [i \in SubIds |-> IF i \in byClientId
                                 THEN WithoutOps(subs[i])
                                 ELSE subs[i]]
    /\ UNCHANGED <<connVars, mapVars, byServiceId, retryTimers, outbox, sockVars, inbox,
                   opVars, failedAsserts>>

QueueTerminated ==
    /\ phase = "cleaned"
    /\ aborting # {}
    /\ result' = Completed(result, aborting, "E_ABORT")
    /\ aborting' = {}
    /\ UNCHANGED <<phase, connVars, subs, mapVars, byServiceId, retryTimers, outbox,
                   sockVars, inbox, nextOp, held, failedAsserts>>

(***************************************************************************)
(* The second half of SendSubscribeMessage, SendUnsubscribeMessage and of  *)
(* the loop in ConnectCompleteHandler, after the unlock.  Several threads  *)
(* may be there, so the order is free; a socket that is not open refuses.  *)
(***************************************************************************)
SendAssembledMessage(m) ==
    /\ outbox[m] > 0
    /\ outbox' = [outbox EXCEPT ![m] = @ - 1]
    /\ requests' = IF wire = "open" THEN Append(requests, m) ELSE requests
    /\ UNCHANGED <<connVars, subs, mapVars, byServiceId, retryTimers, wire, completion,
                   registered, closes, inbox, opVars, aborting, failedAsserts>>

(***************************************************************************)
(* Messages from the service                                               *)
(***************************************************************************)
\* Mutant: m_queue runs them in any order.
Dequeue_AnyOrder(k) ==
    /\ k \in 1..Len(inbox)
    /\ inbox' = RemoveAt(inbox, k)

\* m_queue runs a message handler: the oldest one if it runs them serially.
Dequeue(k) ==
    /\ k \in 1..Len(inbox)
    /\ SerialDispatch => k = 1
    /\ inbox' = RemoveAt(inbox, k)

IgnoreResponse(m) ==
    /\ m.type \in {"SubscribeResponse", "UnsubscribeResponse"}
    /\ m.clientId \notin byClientId
    /\ UNCHANGED <<phase, subs, mapVars, byServiceId, retryTimers, outbox, result,
                   failedAsserts>>

\* Mutant: the map is not updated.
BindServiceId_Skipped(sid, i) == UNCHANGED byServiceId

\* m_subsByServiceId[sid] = i, or without i if it is 0.
BindServiceId(sid, i) == byServiceId' = [byServiceId EXCEPT ![sid] = i]

SubscribeSucceeded(m) ==
    LET i   == m.clientId
        sub == [subs[i] EXCEPT !.serviceId = m.serviceId, !.subscribeOps = {}]
    IN  /\ m.type = "SubscribeResponse" /\ m.code = "Success"
        /\ i \in byClientId
        /\ BindServiceId(m.serviceId, i)
        /\ result' = Completed(result, subs[i].subscribeOps, "S_OK")
        /\ \/ /\ sub.status = "Subscribing"
              /\ subs' = [subs EXCEPT ![i] = [sub EXCEPT !.status = "Active"]]
              /\ UNCHANGED <<outbox, failedAsserts>>
           \/ /\ sub.status = "PendingUnsubscribe"
              /\ subs' = [subs EXCEPT ![i] = [sub EXCEPT !.status = "Unsubscribing"]]
              /\ ToSend(UnsubscribeMessage(i, m.serviceId))
              /\ UNCHANGED failedAsserts
           \/ /\ sub.status \notin {"Subscribing", "PendingUnsubscribe"}
              /\ subs' = [subs EXCEPT ![i] = sub]
              /\ AssertAt("461: status", FALSE)
              /\ UNCHANGED outbox
        /\ UNCHANGED <<phase, mapVars, retryTimers>>

\* UnknownResource, SubscriptionLimitReached, NoResourceData and unknown codes.
SubscribeDenied(m) ==
    /\ m.type = "SubscribeResponse" /\ m.code = "Denied"
    /\ m.clientId \in byClientId
    /\ UNCHANGED <<phase, subs, mapVars, byServiceId, retryTimers, outbox, result,
                   failedAsserts>>

SubscribeThrottled(m) ==
    LET i   == m.clientId
        sub == [subs[i] EXCEPT !.status = "Inactive"]
    IN  /\ m.type = "SubscribeResponse" /\ m.code = "Throttled"
        /\ i \in byClientId
        /\ \/ /\ subs[i].status = "Subscribing"
              /\ subs' = [subs EXCEPT ![i] = sub]
              /\ retryTimers' = [retryTimers EXCEPT ![i] = @ + 1]
              /\ UNCHANGED <<mapVars, result, failedAsserts>>
           \/ /\ subs[i].status = "PendingUnsubscribe"
              /\ EraseSub(i)
              /\ subs' = [subs EXCEPT ![i] = WithoutOps(sub)]
              /\ result' = Completed(
                               Completed(result, sub.subscribeOps, ConvertRTAErrorCode(m.code)),
                               sub.unsubscribeOps, "S_OK")
              /\ UNCHANGED <<retryTimers, failedAsserts>>
           \/ /\ subs[i].status \notin {"Subscribing", "PendingUnsubscribe"}
              /\ subs' = [subs EXCEPT ![i] = sub]
              /\ AssertAt("547: status", FALSE)
              /\ UNCHANGED <<mapVars, retryTimers, result>>
        /\ UNCHANGED <<phase, byServiceId, outbox>>

UnsubscribeResponse(m) ==
    LET i   == m.clientId
        sub == [subs[i] EXCEPT !.serviceId = 0, !.unsubscribeOps = {}]
    IN  /\ m.type = "UnsubscribeResponse"
        /\ i \in byClientId
        /\ BindServiceId(subs[i].serviceId, 0)
        /\ result' = Completed(result, subs[i].unsubscribeOps, ConvertRTAErrorCode(m.code))
        /\ \/ /\ sub.status = "Unsubscribing"
              /\ EraseSub(i)
              /\ subs' = [subs EXCEPT ![i] = [sub EXCEPT !.status = "Inactive"]]
              /\ UNCHANGED <<outbox, failedAsserts>>
           \/ /\ sub.status = "PendingSubscribe"
              /\ subs' = [subs EXCEPT ![i] = [sub EXCEPT !.status = "Subscribing"]]
              /\ ToSend(SubscribeMessage(i))
              /\ UNCHANGED <<mapVars, failedAsserts>>
           \/ /\ sub.status \notin {"Unsubscribing", "PendingSubscribe"}
              /\ subs' = [subs EXCEPT ![i] = sub]
              /\ AssertAt("609: status", FALSE)
              /\ UNCHANGED <<mapVars, outbox>>
        /\ UNCHANGED <<phase, retryTimers>>

\* An event for an unknown service id dereferences end(): the process dies.
EventHandler(m) ==
    LET known == byServiceId[m.serviceId] # 0
    IN  /\ m.type = "Event"
        /\ AssertAt("635: event of a known subscription", known)
        /\ phase' = IF known THEN phase ELSE "crashed"
        /\ UNCHANGED <<subs, mapVars, byServiceId, retryTimers, outbox, result>>

WebsocketMessageReceived(k) ==
    /\ phase = "live"
    /\ Dequeue(k)
    /\ LET m == inbox[k] IN
           \/ IgnoreResponse(m)
           \/ SubscribeSucceeded(m)
           \/ SubscribeDenied(m)
           \/ SubscribeThrottled(m)
           \/ UnsubscribeResponse(m)
           \/ EventHandler(m)
    /\ UNCHANGED <<connVars, sockVars, nextOp, held, aborting>>

\* Mutant: the retry looks at the wrong status.
StillThrottled_Subscribing(i) == i \in byClientId /\ subs[i].status = "Subscribing"

StillThrottled(i) == i \in byClientId /\ subs[i].status = "Inactive"

\* The callback scheduled by SubscribeThrottled; its weak pointers are dead
\* once the subscription has left the maps.
RetrySubscribe(i) ==
    /\ retryTimers[i] > 0
    /\ retryTimers' = [retryTimers EXCEPT ![i] = @ - 1]
    /\ \/ /\ StillThrottled(i)
          /\ subs' = [subs EXCEPT ![i].status = "Subscribing"]
          /\ ToSend(SubscribeMessage(i))
       \/ /\ ~StillThrottled(i)
          /\ UNCHANGED <<subs, outbox>>
    /\ UNCHANGED <<connVars, mapVars, byServiceId, sockVars, inbox, opVars, aborting,
                   failedAsserts>>

(***************************************************************************)
(* Connecting and reconnecting                                             *)
(***************************************************************************)
\* ScheduleConnect's callback: a new websocket takes the place of the old one,
\* whose handlers become no-ops.  The delay is counted from the disconnect, so
\* a serial queue has handled every message of the old socket before it.  The
\* result of Websocket::Connect is ignored: if no token can be asked for, the
\* socket never starts to connect and none of its handlers is ever called.
ConnectTimerFires ==
    /\ connectTimers > 0
    /\ SerialDispatch => inbox = <<>>
    /\ connectTimers' = connectTimers - 1
    /\ state' = "Connecting"
    /\ wire' \in {"connecting", "unstarted"}
    /\ completion' = "none"
    /\ requests' = <<>>
    /\ registered' = [s \in ServiceIds |-> 0]
    /\ UNCHANGED <<connectAttempt, subs, mapVars, byServiceId, retryTimers, outbox, closes,
                   inbox, opVars, aborting, failedAsserts>>

\* InitializeWebsocket failed: the user could not be copied.
ConnectTimerFails ==
    /\ connectTimers > 0
    /\ connectAttempt' = IF connectAttempt < 4 THEN connectAttempt + 1 ELSE 4
    /\ UNCHANGED <<state, connectTimers, subs, mapVars, byServiceId, retryTimers, outbox,
                   sockVars, inbox, opVars, aborting, failedAsserts>>

\* ConnectCompleteHandler with a success code subscribes every subscription.
ConnectSucceeded ==
    /\ completion = "ok"
    /\ completion' = "none"
    /\ state' = "Connected"
    /\ connectAttempt' = 0
    /\ failedAsserts' = failedAsserts
           \union {a \in {"663: m_subsByServiceId.empty()"} :
                     \E s \in DOMAIN byServiceId : byServiceId[s] # 0}
           \union {a \in {"668: status == Inactive"} :
                     \E i \in byClientId : subs[i].status # "Inactive"}
    /\ subs' = [i \in SubIds |-> IF i \in byClientId
                                 THEN [subs[i] EXCEPT !.status = "Subscribing"]
                                 ELSE subs[i]]
    /\ outbox' = [m \in Request |-> IF m.type = "Subscribe" /\ m.clientId \in byClientId
                                    THEN outbox[m] + 1 ELSE outbox[m]]
    /\ UNCHANGED <<connectTimers, mapVars, byServiceId, retryTimers, wire, requests,
                   registered, closes, inbox, opVars, aborting>>

ConnectFailed ==
    /\ completion = "fail"
    /\ completion' = "none"
    /\ state' = IF connectAttempt > 3 THEN "Disconnected" ELSE state
    /\ ScheduleConnect
    /\ UNCHANGED <<subs, mapVars, byServiceId, retryTimers, outbox, wire, requests,
                   registered, closes, inbox, opVars, aborting, failedAsserts>>

\* What a disconnect makes of a subscription; the ones on their way out leave
\* the maps as well.
Disconnected(sub) ==
    [sub EXCEPT
        !.status = "Inactive",
        !.serviceId = 0,
        !.subscribeOps = IF sub.status = "PendingUnsubscribe" THEN {} ELSE @,
        !.unsubscribeOps = IF sub.status \in {"PendingSubscribe", "PendingUnsubscribe", "Unsubscribing"}
                           THEN {} ELSE @]

\* The open websocket closes, whoever closed it (the network, the service, or
\* the 90 minute timer), and its thread calls DisconnectHandler.
DisconnectHandler ==
    LET removed == {i \in byClientId : subs[i].status \in {"PendingUnsubscribe", "Unsubscribing"}}
        Of(st)  == {i \in byClientId : subs[i].status \in st}
        unsubscribed == UNION {subs[i].unsubscribeOps : i \in removed \union Of({"PendingSubscribe"})}
        abandoned    == UNION {subs[i].subscribeOps : i \in Of({"PendingUnsubscribe"})}
    IN  /\ wire = "open"
        /\ closes < MaxCloses
        /\ closes' = closes + 1
        /\ wire' = "closed"
        /\ requests' = <<>>
        /\ registered' = [s \in ServiceIds |-> 0]
        /\ byServiceId' = [s \in ServiceIds \union {0} |-> 0]
        /\ byClientId' = byClientId \ removed
        /\ byUri' = [u \in Uris |-> IF \E i \in removed : subs[i].uri = u THEN 0 ELSE byUri[u]]
        /\ subs' = [i \in SubIds |-> IF i \in byClientId THEN Disconnected(subs[i]) ELSE subs[i]]
        /\ result' = Completed(Completed(result, unsubscribed, "S_OK"),
                               abandoned, "E_XBL_RTA_GENERIC_ERROR")
        /\ ScheduleConnect
        /\ UNCHANGED <<state, nextSubId, retryTimers, outbox, completion, inbox, nextOp, held,
                       aborting, failedAsserts>>

(***************************************************************************)
(* The websocket's network and the service, as src/ uses them              *)
(***************************************************************************)
NetworkConnects ==
    /\ wire = "connecting"
    /\ wire' = "open"
    /\ completion' = "ok"
    /\ UNCHANGED <<connVars, subs, mapVars, byServiceId, retryTimers, outbox, requests,
                   registered, closes, inbox, opVars, aborting, failedAsserts>>

NetworkRefuses ==
    /\ wire = "connecting"
    /\ wire' = "closed"
    /\ completion' = "fail"
    /\ UNCHANGED <<connVars, subs, mapVars, byServiceId, retryTimers, outbox, requests,
                   registered, closes, inbox, opVars, aborting, failedAsserts>>

Reply(m) ==
    /\ Len(inbox) < MaxInbox
    /\ inbox' = Append(inbox, m)
    /\ UNCHANGED <<connVars, subs, mapVars, byServiceId, retryTimers, outbox, wire,
                   completion, closes, opVars, aborting, failedAsserts>>

ServiceGrants(sid) ==
    /\ requests # <<>> /\ Head(requests).type = "Subscribe"
    /\ "Success" \in Codes
    /\ LET i == Head(requests).clientId
       IN  /\ registered[sid] \in {0, i}
           /\ registered' = [registered EXCEPT ![sid] = i]
           /\ Reply([type |-> "SubscribeResponse", clientId |-> i, code |-> "Success",
                     serviceId |-> sid])
    /\ requests' = Tail(requests)

ServiceDeclines(code) ==
    /\ requests # <<>> /\ Head(requests).type = "Subscribe"
    /\ code # "Success"
    /\ LET i == Head(requests).clientId
       IN  /\ code = "Throttled" => retryTimers[i] < MaxRetries
           /\ Reply([type |-> "SubscribeResponse", clientId |-> i, code |-> code,
                     serviceId |-> 0])
    /\ requests' = Tail(requests)
    /\ UNCHANGED registered

ServiceReleases(code) ==
    /\ requests # <<>> /\ Head(requests).type = "Unsubscribe"
    /\ registered' = IF code = "Success"
                     THEN [s \in ServiceIds |-> IF s = Head(requests).serviceId THEN 0 ELSE registered[s]]
                     ELSE registered
    /\ Reply([type |-> "UnsubscribeResponse", clientId |-> Head(requests).clientId,
              code |-> code, serviceId |-> 0])
    /\ requests' = Tail(requests)

ServiceRaisesEvent(sid) ==
    /\ wire = "open"
    /\ registered[sid] # 0
    /\ Reply([type |-> "Event", clientId |-> 0, code |-> "none", serviceId |-> sid])
    /\ UNCHANGED <<requests, registered>>

Environment ==
    \/ NetworkConnects
    \/ NetworkRefuses
    \/ \E sid \in ServiceIds : ServiceGrants(sid) \/ ServiceRaisesEvent(sid)
    \/ \E code \in Codes : ServiceDeclines(code)
    \/ \E code \in UnsubscribeCodes : ServiceReleases(code)

Component ==
    \/ \E c \in Clients : \/ AddSubscription(c)
                         \/ RemoveUnknown(c)
                         \/ RemoveShared(c)
                         \/ RemoveLast(c)
    \/ \E m \in Request : SendAssembledMessage(m)
    \/ \E i \in SubIds : RetrySubscribe(i)
    \/ ConnectTimerFires
    \/ ConnectTimerFails
    \/ ConnectSucceeded
    \/ ConnectFailed
    \/ DisconnectHandler

Next ==
    \/ phase = "live" /\ (Component \/ Environment) /\ UNCHANGED phase
    \/ \E k \in 1..Len(inbox) : WebsocketMessageReceived(k)
    \/ Cleanup
    \/ QueueTerminated

Spec == Init /\ [][Next]_vars

Live(A) == phase = "live" /\ A /\ UNCHANGED phase

\* m_queue runs what was submitted to it, threads reach their Send, the
\* network lets through one of endlessly many attempts, and the service grants
\* one of endlessly many Subscribe requests.
Fairness ==
    /\ \A m \in Request : WF_vars(Live(SendAssembledMessage(m)))
    /\ WF_vars(\E k \in 1..Len(inbox) : WebsocketMessageReceived(k))
    /\ \A i \in SubIds : WF_vars(Live(RetrySubscribe(i)))
    /\ WF_vars(Live(ConnectTimerFires))
    /\ WF_vars(Live(ConnectSucceeded))
    /\ WF_vars(Live(ConnectFailed))
    /\ WF_vars(QueueTerminated)
    /\ SF_vars(Live(NetworkConnects))
    /\ SF_vars(Live(\E sid \in ServiceIds : ServiceGrants(sid)))
    /\ SF_vars(Live(\E code \in UnsubscribeCodes : ServiceReleases(code)))

FairSpec == Spec /\ Fairness

(***************************************************************************)
(* Properties                                                              *)
(***************************************************************************)
TypeOK ==
    /\ phase \in {"live", "cleaned", "crashed"}
    /\ state \in {"Connecting", "Connected", "Disconnected"}
    /\ connectAttempt \in 0..4
    /\ connectTimers \in Nat
    /\ subs \in [SubIds -> ServiceSubscription]
    /\ byClientId \in SUBSET SubIds
    /\ byUri \in [Uris -> SubIds \union {0}]
    /\ byServiceId \in [ServiceIds \union {0} -> SubIds \union {0}]
    /\ nextSubId \in 1..(MaxSubId + 1)
    /\ retryTimers \in [SubIds -> Nat]
    /\ outbox \in [Request -> Nat]
    /\ wire \in {"none", "unstarted", "connecting", "open", "closed"}
    /\ completion \in {"none", "ok", "fail"}
    /\ requests \in Seq(Request)
    /\ registered \in [ServiceIds -> SubIds \union {0}]
    /\ inbox \in Seq(Message)
    /\ closes \in Nat
    /\ nextOp \in 1..(MaxOps + 1)
    /\ result \in [OpIds -> Results]
    /\ aborting \in SUBSET OpIds
    /\ held \in SUBSET Clients
    /\ failedAsserts \in SUBSET AssertSites

\* m_subsByUri and m_subsByClientId hold the same subscriptions, each under
\* its own URI, whatever handler erased or inserted last.
MapsAgree ==
    /\ \A u \in Uris : byUri[u] # 0 => byUri[u] \in byClientId /\ subs[byUri[u]].uri = u
    /\ \A i \in byClientId : subs[i].uri \in Uris /\ byUri[subs[i].uri] = i

\* No interleaving of handshakes, throttling, disconnects and calls loses a
\* subscription its client still wants.
HeldIsTracked ==
    \A c \in held : LET i == byUri[UriOf[c]]
                    IN  i # 0 /\ i \in byClientId /\ c \in subs[i].clientSubscriptions

\* A subscription is on its way out of the maps only while no client wants it.
LeavingIsUnwanted ==
    \A i \in byClientId :
        subs[i].status \in {"PendingUnsubscribe", "Unsubscribing"} => subs[i].clientSubscriptions = {}

\* The client ids in use have all been handed out.
FreshIds == \A i \in byClientId : i < nextSubId

\* Together these are inductive: what the two maps, the statuses and the
\* clients' lists must have in common for no handler to lose a subscription.
TrackingInv == MapsAgree /\ FreshIds /\ LeavingIsUnwanted /\ HeldIsTracked

\* The operations waiting on a subscription.
Listed(i) == subs[i].subscribeOps \union subs[i].unsubscribeOps

\* An AsyncContext waits in one list only and has not been completed before,
\* so none is ever completed twice.
WaitsOnce ==
    /\ \A i \in byClientId : \A o \in Listed(i) : result[o] = "pending"
    /\ \A i, j \in byClientId : i # j => Listed(i) \intersect Listed(j) = {}
    /\ \A i \in byClientId : subs[i].subscribeOps \intersect subs[i].unsubscribeOps = {}
    /\ \A o \in aborting : result[o] = "pending"

\* Calls not made yet have no result, client ids not handed out yet no calls;
\* what a live connection completes never waits for the terminated queue.
FreshCalls ==
    /\ \A o \in OpIds : o >= nextOp => result[o] = "none"
    /\ \A i \in SubIds : i >= nextSubId => Listed(i) = {}
AbortsWhenCleaned ==
    /\ phase = "live" => aborting = {}
    /\ phase = "cleaned" => \A i \in byClientId : Listed(i) = {}

\* Inductive, with TrackingInv: no handler completes a call twice.
WaitingInv == WaitsOnce /\ FreshCalls /\ AbortsWhenCleaned

\* What keeps a live connection going: scheduled attempts, an attempt under way
\* or an open socket, a failure about to be handled.
Drivers ==
    LET One(b) == IF b THEN 1 ELSE 0
    IN  connectTimers + One(wire \in {"connecting", "open"}) + One(completion = "fail")

\* Whatever is lost or refused, exactly one thing keeps the connection going:
\* two would race for m_websocket, none leaves it dead for good.  Only a socket
\* whose Connect failed before it started does that: nothing follows it.
OneDriver == Drivers = IF wire = "unstarted" THEN 0 ELSE 1

\* "Currently connecting to the real-time activity service": a connection that
\* says so is.  The code breaks it (README, section 6).
ConnectingIsUnderway == state = "Connecting" => Drivers > 0

\* The service's registrations and the connection's agree: an active
\* subscription is registered under its service id and found by it.
ActiveIsRegistered ==
    \A i \in byClientId : subs[i].status = "Active" =>
        LET sid == subs[i].serviceId
        IN  /\ sid # 0 /\ byServiceId[sid] = i
            /\ wire = "open" => registered[sid] = i

\* A registration of the open socket belongs to a subscription the connection
\* still tracks; otherwise nobody would ever unsubscribe it.
NoOrphanRegistration ==
    wire = "open" =>
        \A sid \in ServiceIds : registered[sid] # 0 => registered[sid] \in byClientId

\* A subscription without clients is on its way out.
UnwantedIsLeaving ==
    \A i \in byClientId : subs[i].clientSubscriptions = {} =>
        subs[i].status \in {"PendingUnsubscribe", "Unsubscribing"}

\* No assert of the connection fails.
NoAssertFails == failedAsserts = {}
\* The asserts of the connection's handlers, one by one: a disconnect breaks
\* each of them (README, section 6).
ConnectFindsInactive == "668: status == Inactive" \notin failedAsserts
ResponseIsExpected   == "461: status" \notin failedAsserts
EventIsKnown         == "635: event of a known subscription" \notin failedAsserts

\* Until the socket is lost, no assert of the handshake handlers fails and what
\* nobody wants is on its way out, whatever the order in which m_queue runs the
\* handlers.
HandshakesStayInStep ==
    closes = 0 => /\ failedAsserts \subseteq {"635: event of a known subscription"}
                  /\ UnwantedIsLeaving

\* The subscriptions in the middle of a subscribe, or an unsubscribe, handshake.
Joining == {i \in byClientId : subs[i].status \in {"Subscribing", "PendingUnsubscribe"}}
Parting == {i \in byClientId : subs[i].status \in {"Unsubscribing", "PendingSubscribe"}}

\* The responses, among what waits in m_queue.
Answers == {k \in 1..Len(inbox) : inbox[k].type # "Event"}

\* A handshake's messages are under way only while it goes on.
OnlyExpected ==
    /\ \A m \in Request : outbox[m] > 0 =>
           m.clientId \in IF m.type = "Subscribe" THEN Joining ELSE Parting
    /\ \A p \in 1..Len(requests) :
           requests[p].clientId \in IF requests[p].type = "Subscribe" THEN Joining ELSE Parting
    /\ \A k \in Answers :
           inbox[k].clientId \in IF inbox[k].type = "SubscribeResponse" THEN Joining ELSE Parting

\* A subscription has one message under way at a time: about to be sent, on its
\* way to the service, or on its way back.
OneMessageEach ==
    /\ \A m \in Request : outbox[m] \in {0, 1}
    /\ \A m, n \in Request : outbox[m] > 0 /\ outbox[n] > 0 /\ m # n => m.clientId # n.clientId
    /\ \A m \in Request : outbox[m] > 0 =>
           /\ \A p \in 1..Len(requests) : requests[p].clientId # m.clientId
           /\ \A k \in Answers : inbox[k].clientId # m.clientId
    /\ \A p, q \in 1..Len(requests) : p # q => requests[p].clientId # requests[q].clientId
    /\ \A p \in 1..Len(requests) : \A k \in Answers : inbox[k].clientId # requests[p].clientId
    /\ \A k, l \in Answers : k # l => inbox[k].clientId # inbox[l].clientId

\* The service's id is kept from its answer to the end of the unsubscribe, and
\* a client id that was not handed out is unused.
IdsInStep ==
    /\ \A i \in byClientId : subs[i].serviceId # 0 =>
           subs[i].status \in {"Active", "Unsubscribing", "PendingSubscribe"}
    /\ \A i \in SubIds : i >= nextSubId => subs[i] = NewSub

\* Before the first connect nothing has been sent; after it the socket is open.
FirstConnect ==
    /\ completion = "ok" => wire = "open"
    /\ state = "Connected" => wire = "open" /\ completion = "none"
    /\ state # "Connected" =>
           /\ \A m \in Request : outbox[m] = 0
           /\ requests = <<>> /\ inbox = <<>>
           /\ \A i \in byClientId : subs[i].status = "Inactive"
           /\ \A i \in SubIds : retryTimers[i] = 0
           /\ \A s \in ServiceIds \union {0} : byServiceId[s] = 0
           /\ \A s \in ServiceIds : registered[s] = 0

\* Inductive, with TrackingInv and OneDriver.
InStepInv ==
    closes = 0 => /\ HandshakesStayInStep
                  /\ OnlyExpected /\ OneMessageEach
                  /\ IdsInStep /\ FirstConnect

\* A Subscribe granted, and an Unsubscribe confirmed.
IsGrant(m, i, sid) ==
    m.type = "SubscribeResponse" /\ m.code = "Success" /\ m.clientId = i /\ m.serviceId = sid
IsRelease(m, i) == m.type = "UnsubscribeResponse" /\ m.clientId = i

\* What the connection has an id for is registered, or the news of its end is
\* on the way; what the service has registered, the connection knows or is about
\* to be told.
IdsAgree ==
    /\ \A i \in byClientId : subs[i].serviceId # 0 =>
           /\ byServiceId[subs[i].serviceId] = i
           /\ \/ registered[subs[i].serviceId] = i
              \/ \E k \in 1..Len(inbox) : IsRelease(inbox[k], i)
    /\ \A i \in byClientId :
           subs[i].status \in {"Active", "Unsubscribing", "PendingSubscribe"} => subs[i].serviceId # 0
    /\ \A sid \in ServiceIds : registered[sid] # 0 =>
           /\ registered[sid] \in byClientId
           /\ \/ subs[registered[sid]].serviceId = sid
              \/ \E k \in 1..Len(inbox) : IsGrant(inbox[k], registered[sid], sid)

\* An unsubscribe names the id its subscription has.
RequestsAgree ==
    /\ \A m \in Request : outbox[m] > 0 /\ m.type = "Unsubscribe" =>
           m.serviceId = subs[m.clientId].serviceId
    /\ \A p \in 1..Len(requests) : requests[p].type = "Unsubscribe" =>
           requests[p].serviceId = subs[requests[p].clientId].serviceId

\* What a response says is still so when it is handled.
AnswersAgree ==
    \A k \in 1..Len(inbox) : \A i \in SubIds :
        /\ \A sid \in ServiceIds \union {0} :
               IsGrant(inbox[k], i, sid) => sid # 0 /\ registered[sid] = i
        /\ IsRelease(inbox[k], i) => \A sid \in ServiceIds : registered[sid] # i

\* In m_queue's order, an id is released before it is granted again, and an
\* event comes while its subscription is known.
OrderAgrees ==
    /\ \A k, l \in 1..Len(inbox) : \A i, j \in SubIds :
           IsGrant(inbox[k], i, subs[j].serviceId) /\ IsRelease(inbox[l], j) => l < k
    /\ \A k \in 1..Len(inbox) : inbox[k].type = "Event" =>
           \/ \E l \in 1..(k - 1) : \E i \in SubIds : IsGrant(inbox[l], i, inbox[k].serviceId)
           \/ /\ byServiceId[inbox[k].serviceId] # 0
              /\ \A l \in 1..(k - 1) : ~ IsRelease(inbox[l], byServiceId[inbox[k].serviceId])

\* Inductive, with InStepInv, where m_queue is serial and no unsubscribe refused.
AgreementInv ==
    closes = 0 => NoAssertFails /\ IdsAgree /\ RequestsAgree /\ AnswersAgree /\ OrderAgrees

\* The connection and the service agree all along a session whose messages are
\* handled in order.
AgreesWithService == NoAssertFails /\ ActiveIsRegistered /\ NoOrphanRegistration

\* Once the terminated queue's callback has run, no call is left waiting: not
\* so for the Adds that RemoveSubscription forgets (README, section 6).
CleanupCompletesAll ==
    phase = "cleaned" /\ aborting = {} => \A o \in OpIds : result[o] # "pending"

\* A subscription a client holds on to becomes active, through any number of
\* refused connects and throttled requests and a bounded number of disconnects,
\* unless a Connect fails before it starts, which ends the connection.
HeldBecomesActive ==
    \A c \in Clients :
        c \in held ~> \/ c \notin held
                      \/ phase # "live" \/ wire = "unstarted"
                      \/ subs[byUri[UriOf[c]]].status = "Active"

\* A call that waits for the service's answer to an unsubscribe is completed.
RemovalCompletes ==
    \A o \in OpIds :
        (\E i \in byClientId : o \in subs[i].unsubscribeOps) ~> result[o] # "pending" \/ phase = "crashed"

\* The connection implements its contract: see RTARegistry.
Registry == INSTANCE RTARegistry WITH
    Outcomes <- Results \ {"none", "pending"},
    tracked  <- {u \in Uris : byUri[u] # 0},
    open     <- (phase = "live")

ImplementsRegistry == Registry!Spec

=============================================================================
