----------------------------- MODULE RTAManager -----------------------------
(***************************************************************************)
(* RealTimeActivityManager: one connection per user, created on demand and *)
(* torn down when nothing needs it any more.  Three parties need one: the  *)
(* services' subscriptions, the explicit activations the library's own     *)
(* components count, and the title through the deprecated Activate and     *)
(* Deactivate.                                                             *)
(*                                                                         *)
(* Every entry point runs under m_lock and is one action.  A connection is *)
(* reduced to what the manager sees of it: SubscriptionCount, and the      *)
(* moment it completes a RemoveSubscription.  It completes some inside the *)
(* call, the others from its own threads, whose callback then waits for    *)
(* m_lock; until it has it, other calls go first.  A request the websocket *)
(* refuses is answered to the caller as a failure, but what the connection *)
(* did before stays.  RTAConnection has the detail.                        *)
(***************************************************************************)
EXTENDS Integers, FiniteSets

CONSTANTS
    Users,
    Subs,          \* Subscription objects, each with a resource of its own
    UserOf,        \* the user on whose connection a subscription belongs
    MaxOps,        \* bound: calls of AddSubscription and RemoveSubscription
    MaxActivations \* bound: the count m_legacyActivations reaches for one user

ASSUME OwnerAssumption == UserOf \in [Subs -> Users]
ASSUME LimitsAssumption == MaxOps \in Nat /\ MaxActivations \in Nat

OpIds == 1..MaxOps

\* A connection's view of a subscription: not there, there but not sent yet,
\* subscribed or subscribing, on its way out, wanted again while on its way out.
Entry == {"none", "inactive", "active", "leaving", "rejoining"}

VARIABLES
    connected,      \* users with an entry in m_rtaConnections
    entry,          \* of each subscription, in its user's connection
    removals,       \* RemoveSubscription calls that wait in the connection
    callbacks,      \* completed calls whose callback is about to take m_lock
    unsent,         \* subscriptions whose last request the websocket refused
    orphaned,       \* subscriptions in the connection whose addition has failed
    activations,    \* m_legacyActivations
    titleActivated, \* m_titleActivated
    nextOp,         \* next call
    held,           \* subscriptions whose last call was AddSubscription; none after Cleanup
    outstanding,    \* activations their owners have not given back
    titleUsers,     \* users the title has activated
    forgotten       \* held subscriptions dropped when activations reached 0

callVars == <<nextOp, held>>
activationVars == <<activations, titleActivated, outstanding, titleUsers>>
sendVars == <<unsent, orphaned>>
vars == <<connected, entry, removals, callbacks, sendVars, activationVars, callVars, forgotten>>

SubsOf(u) == {s \in Subs : UserOf[s] = u}

\* SubscriptionCount() == 0, were the entries those of e.
IsEmpty(e, u) == \A s \in SubsOf(u) : e[s] = "none"

Init ==
    /\ connected = {}
    /\ entry = [s \in Subs |-> "none"]
    /\ removals = [s \in Subs |-> {}]
    /\ callbacks = [u \in Users |-> {}]
    /\ unsent = {} /\ orphaned = {}
    /\ activations = [u \in Users |-> 0]
    /\ titleActivated = FALSE
    /\ nextOp = 1
    /\ held = {}
    /\ outstanding = [u \in Users |-> 0]
    /\ titleUsers = {}
    /\ forgotten = {}

\* Mutant: the calls that wait in the connection are not taken out of it.
TearDown_KeepsRemovals(u) ==
    /\ connected' = connected \ {u}
    /\ entry' = [s \in Subs |-> IF UserOf[s] = u THEN "none" ELSE entry[s]]
    /\ unsent' = unsent \ SubsOf(u) /\ orphaned' = orphaned \ SubsOf(u)
    /\ UNCHANGED removals

\* Connection::Cleanup and erasing the connection: its queue terminates, and
\* the calls that still waited in it are aborted through their callbacks.
TearDown(u) ==
    /\ connected' = connected \ {u}
    /\ entry' = [s \in Subs |-> IF UserOf[s] = u THEN "none" ELSE entry[s]]
    /\ removals' = [s \in Subs |-> IF UserOf[s] = u THEN {} ELSE removals[s]]
    /\ unsent' = unsent \ SubsOf(u) /\ orphaned' = orphaned \ SubsOf(u)

Aborted(u) == UNION {removals[s] : s \in SubsOf(u)}

(***************************************************************************)
(* Activation                                                              *)
(***************************************************************************)
\* GetConnection can fail: then there is no connection and nobody is told.
Activate(u, title) ==
    /\ activations[u] < MaxActivations
    /\ outstanding' = [outstanding EXCEPT ![u] = @ + 1]
    /\ activations' = [activations EXCEPT ![u] = @ + 1]
    /\ \/ /\ title
          /\ titleActivated' = TRUE
          /\ titleUsers' = titleUsers \union {u}
          /\ connected' \in {connected, connected \union {u}}
       \/ /\ ~title
          /\ UNCHANGED <<titleActivated, titleUsers, connected>>
    /\ UNCHANGED <<entry, removals, callbacks, sendVars, callVars, forgotten>>

\* Mutant: only the title's deactivation closes the connection.
MayClose_TitleOnly(u) == titleActivated

\* The connection goes with the last activation if the title ever activated,
\* or if no subscription is left.
MayClose(u) == titleActivated \/ IsEmpty(entry, u)

\* Mutant: activations are a flag.
CountDown_ToZero(n) == 0

CountDown(n) == IF n > 0 THEN n - 1 ELSE n

\* Without a connection the call returns before it counts.
Deactivate(u) ==
    /\ outstanding[u] > 0
    /\ outstanding' = [outstanding EXCEPT ![u] = @ - 1]
    /\ \/ /\ u \notin connected
          /\ UNCHANGED <<activations, connected, entry, removals, callbacks, sendVars, forgotten>>
       \/ /\ u \in connected
          /\ activations[u] = 1 /\ MayClose(u)
          /\ activations' = [activations EXCEPT ![u] = 0]
          /\ TearDown(u)
          /\ callbacks' = [callbacks EXCEPT ![u] = @ \union Aborted(u)]
          /\ forgotten' = forgotten \union (held \intersect SubsOf(u))
       \/ /\ u \in connected
          /\ activations[u] # 1 \/ ~MayClose(u)
          /\ activations' = [activations EXCEPT ![u] = CountDown(@)]
          /\ UNCHANGED <<connected, entry, removals, callbacks, sendVars, forgotten>>
    /\ UNCHANGED <<titleActivated, titleUsers, callVars>>

(***************************************************************************)
(* Subscriptions                                                           *)
(***************************************************************************)
AddSubscription(s) ==
    LET u == UserOf[s]
    IN  /\ nextOp \in OpIds /\ s \notin held
        /\ nextOp' = nextOp + 1
        /\ held' = held \union {s}
        /\ forgotten' = forgotten \ {s}
        /\ orphaned' = orphaned \ {s}
        /\ connected' = connected \union {u}
        \* During the subscribe handshake the removals are aborted at once,
        \* during the unsubscribe handshake they wait for its end.
        /\ \/ /\ entry[s] = "leaving"
              /\ entry' = [entry EXCEPT ![s] = "active"]
              /\ removals' = [removals EXCEPT ![s] = {}]
              /\ callbacks' = [callbacks EXCEPT ![u] = @ \union removals[s]]
           \/ /\ entry[s] = "leaving"
              /\ entry' = [entry EXCEPT ![s] = "rejoining"]
              /\ UNCHANGED <<removals, callbacks>>
           \/ /\ entry[s] # "leaving"
              /\ entry' = [entry EXCEPT ![s] = IF @ = "none" THEN "inactive" ELSE @]
              /\ UNCHANGED <<removals, callbacks>>
        /\ UNCHANGED <<unsent, activationVars>>

\* The connection has entered the subscription in its maps when its websocket
\* refuses the request: the caller gets the error, and the entry stays.
AddSubscriptionUnsent(s) ==
    /\ nextOp \in OpIds /\ s \notin held
    /\ UserOf[s] \in connected /\ entry[s] \in {"none", "inactive"}
    /\ nextOp' = nextOp + 1
    /\ entry' = [entry EXCEPT ![s] = "active"]
    /\ unsent' = unsent \union {s}
    /\ orphaned' = orphaned \union {s}
    /\ UNCHANGED <<connected, removals, callbacks, activationVars, held, forgotten>>

\* GetConnection failed; the caller gets its error.
AddSubscriptionFails(s) ==
    /\ nextOp \in OpIds /\ s \notin held
    /\ UserOf[s] \notin connected
    /\ nextOp' = nextOp + 1
    /\ UNCHANGED <<connected, entry, removals, callbacks, sendVars, activationVars, held, forgotten>>

\* Mutant: the subscriptions are not counted.
NothingLeft_IgnoresSubs(e, u) == activations[u] = 0

\* Mutant: the subscriptions are counted before the removal.
NothingLeft_Stale(e, u) == IsEmpty(entry, u) /\ activations[u] = 0

\* The condition of the removal's callback, were the entries those of e.
NothingLeft(e, u) == IsEmpty(e, u) /\ activations[u] = 0

\* What the callback does once it has m_lock, in a state whose entries are e
\* and whose orphaned subscriptions are o.
CloseIfUnused(e, o, u) ==
    \/ /\ u \in connected /\ NothingLeft(e, u)
       /\ TearDown(u)
    \/ /\ ~(u \in connected /\ NothingLeft(e, u))
       /\ entry' = e
       /\ orphaned' = o
       /\ UNCHANGED <<connected, removals, unsent>>

\* The websocket may refuse the unsubscribe request of an active subscription:
\* the caller gets the error, and the removal waits with no answer to come.
RemoveSubscription(s) ==
    LET u == UserOf[s]
    IN  /\ nextOp \in OpIds
        /\ nextOp' = nextOp + 1
        /\ held' = held \ {s}
        /\ forgotten' = forgotten \ {s}
        /\ \/ /\ entry[s] = "none"  \* no connection, or unknown to it
              /\ UNCHANGED <<connected, entry, removals, callbacks, sendVars>>
           \/ /\ entry[s] = "inactive"  \* completed inside the call
              /\ CloseIfUnused([entry EXCEPT ![s] = "none"], orphaned \ {s}, u)
              /\ UNCHANGED callbacks
           \/ /\ entry[s] \in {"active", "leaving", "rejoining"}
              /\ entry' = [entry EXCEPT ![s] = "leaving"]
              /\ removals' = [removals EXCEPT ![s] = @ \union {nextOp}]
              /\ orphaned' = orphaned \ {s}
              /\ unsent' \in {unsent} \union (IF entry[s] = "active" THEN {unsent \union {s}} ELSE {})
              /\ UNCHANGED <<connected, callbacks>>
        /\ UNCHANGED activationVars

\* The callback only knows the user's id: it looks at whatever connection the
\* user has by then.
RemovalCompleted(u, op) ==
    /\ op \in callbacks[u]
    /\ CloseIfUnused(entry, orphaned, u)
    /\ callbacks' = [callbacks EXCEPT ![u] =
           (@ \ {op}) \union (IF u \notin connected' THEN Aborted(u) ELSE {})]
    /\ UNCHANGED <<activationVars, callVars, forgotten>>

\* The whole library goes down: every connection is closed, nobody is wronged.
Cleanup ==
    /\ connected # {}
    /\ connected' = {}
    /\ entry' = [s \in Subs |-> "none"]
    /\ removals' = [s \in Subs |-> {}]
    /\ callbacks' = [u \in Users |-> callbacks[u] \union Aborted(u)]
    /\ held' = {}
    /\ forgotten' = {}
    /\ unsent' = {} /\ orphaned' = {}
    /\ UNCHANGED <<activationVars, nextOp>>

(***************************************************************************)
(* What happens inside the connections                                     *)
(***************************************************************************)
\* The subscribe request is sent, unless the websocket refuses it.
Subscribes(s) ==
    /\ entry[s] = "inactive"
    /\ entry' = [entry EXCEPT ![s] = "active"]
    /\ unsent' \in {unsent, unsent \union {s}}
    /\ UNCHANGED <<connected, removals, callbacks, orphaned, activationVars, callVars, forgotten>>

\* The unsubscribe handshake ends; the waiting removals are completed.  Who
\* wants the subscription back sends its request now.
Unsubscribed(s) ==
    /\ s \notin unsent
    /\ \/ /\ entry[s] = "leaving"
          /\ entry' = [entry EXCEPT ![s] = "none"]
          /\ UNCHANGED unsent
       \/ /\ entry[s] = "rejoining"
          /\ entry' = [entry EXCEPT ![s] = "active"]
          /\ unsent' \in {unsent, unsent \union {s}}
    /\ removals' = [removals EXCEPT ![s] = {}]
    /\ callbacks' = [callbacks EXCEPT ![UserOf[s]] = @ \union removals[s]]
    /\ UNCHANGED <<connected, orphaned, activationVars, callVars, forgotten>>

\* A removal waited for the end of the subscribe handshake; the websocket
\* refuses the unsubscribe request that follows.
UnsubscribeRefused(s) ==
    /\ entry[s] = "leaving"
    /\ unsent' = unsent \union {s}
    /\ UNCHANGED <<connected, entry, removals, callbacks, orphaned, activationVars, callVars,
                   forgotten>>

\* What was on its way out is gone, the rest starts again.
AfterLoss(e) == IF e \in {"none", "leaving"} THEN "none" ELSE "inactive"

\* The socket is lost.
ConnectionLost(u) ==
    /\ u \in connected
    /\ entry' = [s \in Subs |-> IF UserOf[s] = u THEN AfterLoss(entry[s]) ELSE entry[s]]
    /\ removals' = [s \in Subs |-> IF UserOf[s] = u THEN {} ELSE removals[s]]
    /\ callbacks' = [callbacks EXCEPT ![u] = @ \union Aborted(u)]
    /\ unsent' = unsent \ SubsOf(u)
    /\ UNCHANGED <<connected, orphaned, activationVars, callVars, forgotten>>

Next ==
    \/ \E u \in Users : \/ \E title \in BOOLEAN : Activate(u, title)
                        \/ Deactivate(u)
                        \/ \E op \in OpIds : RemovalCompleted(u, op)
                        \/ ConnectionLost(u)
    \/ \E s \in Subs : \/ AddSubscription(s)
                       \/ AddSubscriptionUnsent(s)
                       \/ AddSubscriptionFails(s)
                       \/ RemoveSubscription(s)
                       \/ Subscribes(s)
                       \/ Unsubscribed(s)
                       \/ UnsubscribeRefused(s)
    \/ Cleanup

Spec == Init /\ [][Next]_vars

\* A websocket that refuses requests is not open, so its disconnect handler is
\* called, and what was not sent is inactive or gone.
SocketFollows(u) == ConnectionLost(u) /\ unsent \intersect SubsOf(u) # {}

\* Callbacks get their lock, and unsubscribe handshakes end.
FairSpec ==
    /\ Spec
    /\ \A u \in Users, op \in OpIds : WF_vars(RemovalCompleted(u, op))
    /\ \A s \in Subs : WF_vars(Unsubscribed(s))
    /\ \A u \in Users : WF_vars(SocketFollows(u))

(***************************************************************************)
(* Properties                                                              *)
(***************************************************************************)
\* Types, and the activation count never below the activations that will be
\* given back: Deactivate's assert(activationCount > 0) cannot fail.
TypeOK ==
    /\ connected \in SUBSET Users
    /\ entry \in [Subs -> Entry]
    /\ removals \in [Subs -> SUBSET OpIds]
    /\ callbacks \in [Users -> SUBSET OpIds]
    /\ unsent \in SUBSET Subs /\ orphaned \in SUBSET Subs
    /\ activations \in [Users -> Nat]
    /\ \A u \in Users : outstanding[u] <= activations[u]
    /\ titleActivated \in BOOLEAN
    /\ nextOp \in 1..(MaxOps + 1)
    /\ held \in SUBSET Subs
    /\ outstanding \in [Users -> Nat]
    /\ titleUsers \in SUBSET Users
    /\ forgotten \in SUBSET Subs

\* A connection that neither a subscription nor a counted activation needs is
\* about to be closed: a completed removal's callback is on its way to it.
IdleIsClosing ==
    \A u \in connected : IsEmpty(entry, u) /\ activations[u] = 0 => callbacks[u] # {}

\* No callback that arrives late, and no deactivation that meets a removal
\* half-way, closes the connection under a subscription that is still wanted;
\* only the deactivation that means to does.
HeldIsConnected ==
    \A s \in held \ forgotten :
        UserOf[s] \in connected /\ entry[s] \in {"inactive", "active", "rejoining"}

\* A subscription waits for a removal exactly while one is needed.
RemovalsWait ==
    \A s \in Subs : /\ entry[s] \in {"leaving", "rejoining"} <=> removals[s] # {}
                    /\ entry[s] # "none" => UserOf[s] \in connected

\* When everything that was subscribed has been removed, through refused
\* requests and lost sockets, and the activation count is back to 0 for good,
\* the connection is closed.  What a failed addition has left in the connection
\* counts: the caller holds nothing, but until it removes the subscription all
\* the same, or adds and removes it again, the connection stays.
UnusedIsClosed ==
    \A u \in Users :
        <>[](/\ (held \union orphaned) \intersect SubsOf(u) = {}
             /\ activations[u] = 0) => <>[](u \notin connected)

\* "If that was the last remaining subscription and there are no remaining
\* legacy activations, close the connection": so when the callers have no
\* subscription left.  A failed addition breaks it (README, section 6).
FailedAdditionsEnd ==
    \A u \in Users :
        <>[](held \intersect SubsOf(u) = {} /\ activations[u] = 0) => <>[](u \notin connected)

\* The socket is disconnected once all subscriptions are removed and every
\* activation has been given back: a user without either, and without a
\* removal still under way, has no connection.  The code breaks it (README,
\* section 6).
NoIdleConnection ==
    \A u \in connected :
        outstanding[u] = 0 => ~IsEmpty(entry, u) \/ callbacks[u] # {}

\* The connection of a user is only closed over live subscriptions if the
\* title activated and deactivated RTA for this user.  The code breaks it too.
OnlyTitleForgets == \A s \in forgotten : UserOf[s] \in titleUsers

=============================================================================
