--------------------------- MODULE UserStatistics ---------------------------
(***************************************************************************)
(* UserStatisticsService: the statistics tracked in real time for each     *)
(* user, and the RTA subscriptions they call for while a handler wants to  *)
(* hear of changes.  As in PresenceService every entry point runs under    *)
(* m_mutex, a call with several ids is several calls with one, and the RTA *)
(* manager is the set of subscriptions it holds: adding one fails before   *)
(* or after it is held, removing one for a null pointer or when it is no   *)
(* longer held.  A failed assert is recorded and execution goes on.        *)
(***************************************************************************)
EXTENDS Integers

CONSTANTS
    Users,
    Tracked,       \* pairs of a user and a statistic, of a configuration and a name
    CountRange,    \* size_t counts modulo this
    MaxTokens,     \* bound: handlers ever added
    MaxFailures    \* bound: calls in which the RTA manager fails, but for null pointers

ASSUME KeyAssumption == \A k \in Tracked : k[1] \in Users
ASSUME LimitsAssumption ==
    CountRange \in Nat \ {0, 1, 2} /\ MaxTokens \in Nat /\ MaxFailures \in Nat

Tokens == 1..MaxTokens
StatsOf(u) == {k \in Tracked : k[1] = u}

VARIABLES
    alive,        \* until the destructor has run
    keys,         \* keys of m_trackedStatsByUser, user and statistic
    refCount,     \* SubscriptionHolder::refCount
    subscription, \* SubscriptionHolder::subscription, "null" or "sub"
    handlers,     \* m_statisticChangeHandlers
    nextToken,    \* m_nextToken
    rta,          \* subscriptions the RTA manager holds
    nullRemoved,  \* whether RemoveSubscription was given a null pointer
    stopped,      \* of each user, when StopTrackingUsers was called for it
    unheard,      \* keys without the subscription, by a failure
    unstopped,    \* keys for which a StopTrackingStatistics call has failed
    failures      \* calls in which the RTA manager has failed

failVars == <<unheard, unstopped, failures>>
vars == <<alive, keys, refCount, subscription, handlers, nextToken, rta, nullRemoved, stopped,
          failVars>>

\* "last": nothing was tracked for the user since.
Stopped == {"never", "last", "earlier"}

Init ==
    /\ alive = TRUE
    /\ keys = {}
    /\ refCount = [k \in Tracked |-> 0]
    /\ subscription = [k \in Tracked |-> "null"]
    /\ handlers = {}
    /\ nextToken = 1
    /\ rta = {}
    /\ nullRemoved = FALSE
    /\ stopped = [u \in Users |-> "never"]
    /\ unheard = {} /\ unstopped = {} /\ failures = 0

HasHandlers == handlers # {}
Registered == {k \in keys : subscription[k] = "sub"}
Decremented(n) == (n - 1) % CountRange
MayFail == failures < MaxFailures

\* Nobody looks at what AddSubscription returns: the holders for which it has
\* failed have the pointer, and some of them are held all the same.
AddStatisticChangedHandler ==
    /\ alive /\ nextToken \in Tokens
    /\ handlers' = handlers \union {nextToken}
    /\ nextToken' = nextToken + 1
    /\ \/ /\ ~HasHandlers
          /\ subscription' = [k \in Tracked |-> IF k \in keys THEN "sub" ELSE "null"]
          /\ \E failed \in (IF MayFail THEN SUBSET keys ELSE {{}}) :
                /\ \E held \in SUBSET failed : rta' = rta \union (keys \ failed) \union held
                /\ unheard' = failed
                /\ failures' = IF failed = {} THEN failures ELSE failures + 1
       \/ /\ HasHandlers
          /\ UNCHANGED <<subscription, rta, unheard, failures>>
    /\ UNCHANGED <<alive, keys, refCount, nullRemoved, stopped, unstopped>>

\* With the last handler every subscription is removed and its pointer reset,
\* whether or not the removal succeeds.
RemoveStatisticChangedHandler(token) ==
    /\ alive /\ token \in handlers
    /\ handlers' = handlers \ {token}
    /\ \/ /\ handlers' # {}
          /\ UNCHANGED <<subscription, rta, nullRemoved>>
       \/ /\ handlers' = {}
          /\ rta' = rta \ Registered
          /\ subscription' = [k \in Tracked |-> "null"]
          /\ nullRemoved' = (nullRemoved \/ Registered # keys)
    /\ UNCHANGED <<alive, keys, refCount, nextToken, stopped, failVars>>

\* Mutant: a new statistic is registered by the next handler only.
Subscribes_Later(k) == FALSE

\* Whether tracking k adds a subscription: a holder that exists is counted,
\* whatever its count and its pointer.
Subscribes(k) == k \notin keys /\ HasHandlers

\* A holder whose addition fails stays, counted and with its pointer set.
TrackStatistic(k) ==
    /\ alive
    /\ k \in keys => refCount[k] # CountRange - 2
    /\ keys' = keys \union {k}
    /\ refCount' = [refCount EXCEPT ![k] = IF k \in keys THEN (@ + 1) % CountRange ELSE 1]
    /\ stopped' = [stopped EXCEPT ![k[1]] = IF @ = "never" THEN @ ELSE "earlier"]
    /\ \/ /\ Subscribes(k)
          /\ subscription' = [subscription EXCEPT ![k] = "sub"]
          /\ \/ /\ rta' = rta \union {k}
                /\ UNCHANGED <<unheard, failures>>
             \/ /\ MayFail
                /\ rta' \in {rta, rta \union {k}}
                /\ unheard' = unheard \union {k}
                /\ failures' = failures + 1
       \/ /\ ~Subscribes(k)
          /\ UNCHANGED <<subscription, rta, unheard, failures>>
    /\ UNCHANGED <<alive, handlers, nextToken, nullRemoved, unstopped>>

\* Mutant: the subscription of a statistic that is dropped stays.
AfterStop_Kept(k) == rta

AfterStop(k) == IF HasHandlers THEN rta \ {k} ELSE rta

\* Mutant: a holder survives its last count.
Erased_Kept(k) == keys

Erased(k) == keys \ {k}

\* A removal that fails ends the call with the holder still there, its count at
\* 0 and its pointer what it was: of a null pointer, or of a subscription that
\* is gone all the same.
StopTrackingStatistic(k) ==
    /\ alive /\ k \in keys
    /\ \/ /\ Decremented(refCount[k]) = 0
          /\ HasHandlers /\ subscription[k] = "null"
          /\ refCount' = [refCount EXCEPT ![k] = 0]
          /\ nullRemoved' = TRUE
          /\ UNCHANGED <<keys, subscription, rta, failVars>>
       \/ /\ Decremented(refCount[k]) = 0
          /\ HasHandlers /\ k \in rta /\ MayFail
          /\ refCount' = [refCount EXCEPT ![k] = 0]
          /\ rta' = rta \ {k}
          /\ unheard' = unheard \union {k} /\ unstopped' = unstopped \union {k}
          /\ failures' = failures + 1
          /\ UNCHANGED <<keys, subscription, nullRemoved>>
       \/ /\ Decremented(refCount[k]) = 0
          /\ ~(HasHandlers /\ subscription[k] = "null")
          /\ refCount' = [refCount EXCEPT ![k] = 0]
          /\ keys' = Erased(k)
          /\ subscription' = [subscription EXCEPT ![k] = "null"]
          /\ rta' = AfterStop(k)
          /\ unheard' = unheard \ {k} /\ unstopped' = unstopped \ {k}
          /\ UNCHANGED <<nullRemoved, failures>>
       \/ /\ Decremented(refCount[k]) # 0
          /\ refCount' = [refCount EXCEPT ![k] = Decremented(@)]
          /\ UNCHANGED <<keys, subscription, rta, nullRemoved, failVars>>
    /\ UNCHANGED <<alive, handlers, nextToken, stopped>>

\* The holders of u whose count StopTrackingUsers takes to 0 while there are
\* handlers; it removes their subscriptions but never the holders.
Dropped(u) ==
    {k \in keys \intersect StatsOf(u) : HasHandlers /\ Decremented(refCount[k]) = 0}

\* A removal that fails ends the call, of a null pointer or of the holder
\* "last", whose pointer stays; which holders came before is a matter of names.
StopTrackingUser(u) ==
    /\ alive
    /\ stopped' = [stopped EXCEPT ![u] = "last"]
    /\ LET null == {k \in Dropped(u) : subscription[k] = "null"}
       IN  \E done \in SUBSET (keys \intersect StatsOf(u)),
              last \in SUBSET (Dropped(u) \intersect rta) :
             /\ \/ /\ last = {} /\ null = {} /\ done = keys \intersect StatsOf(u)
                   /\ UNCHANGED <<nullRemoved, failures>>
                \/ /\ last = {} /\ \E k \in null : null \intersect done = {k}
                   /\ nullRemoved' = TRUE
                   /\ UNCHANGED failures
                \/ /\ MayFail /\ last \subseteq done /\ null \intersect done = {}
                   /\ \E k \in last : last = {k}
                   /\ failures' = failures + 1
                   /\ UNCHANGED nullRemoved
             /\ refCount' = [k \in Tracked |-> IF k \in done THEN Decremented(refCount[k])
                                                             ELSE refCount[k]]
             /\ rta' = rta \ (Dropped(u) \intersect done)
             /\ subscription' = [k \in Tracked |-> IF k \in (Dropped(u) \intersect done) \ last
                                                   THEN "null" ELSE subscription[k]]
    /\ UNCHANGED <<alive, keys, handlers, nextToken, unheard, unstopped>>

\* ~UserStatisticsService
Destroy ==
    /\ alive
    /\ alive' = FALSE
    /\ \/ /\ HasHandlers
          /\ rta' = rta \ Registered
          /\ nullRemoved' = (nullRemoved \/ Registered # keys)
       \/ /\ ~HasHandlers
          /\ UNCHANGED <<rta, nullRemoved>>
    /\ keys' = {} /\ handlers' = {}
    /\ refCount' = [k \in Tracked |-> 0]
    /\ subscription' = [k \in Tracked |-> "null"]
    /\ unheard' = {} /\ unstopped' = {}
    /\ UNCHANGED <<nextToken, stopped, failures>>

Next ==
    \/ AddStatisticChangedHandler
    \/ \E token \in Tokens : RemoveStatisticChangedHandler(token)
    \/ \E k \in Tracked : TrackStatistic(k) \/ StopTrackingStatistic(k)
    \/ \E u \in Users : StopTrackingUser(u)
    \/ Destroy

Spec == Init /\ [][Next]_vars

(***************************************************************************)
(* Properties                                                              *)
(***************************************************************************)
\* Types, and where StopTrackingUsers was never called and StopTrackingStatistics
\* has not failed, only statistics that somebody tracks have a holder, and no
\* count has wrapped around.
TypeOK ==
    /\ alive \in BOOLEAN /\ nullRemoved \in BOOLEAN
    /\ keys \subseteq Tracked /\ rta \subseteq Tracked
    /\ refCount \in [Tracked -> 0..(CountRange - 1)]
    /\ subscription \in [Tracked -> {"null", "sub"}]
    /\ handlers \subseteq Tokens
    /\ nextToken \in 1..(MaxTokens + 1)
    /\ stopped \in [Users -> Stopped]
    /\ unheard \subseteq keys /\ unstopped \subseteq keys
    /\ failures \in 0..MaxFailures
    /\ \A k \in Tracked \ unstopped : stopped[k[1]] = "never" =>
           /\ refCount[k] < CountRange - 1
           /\ k \in keys <=> refCount[k] > 0

\* The RTA manager holds no subscription the service has lost: each is some
\* holder's, a handler wants it, and none outlives the service.
RegisteredIsHeld == rta \subseteq Registered /\ (rta # {} => HasHandlers)

\* In whatever order statistics are tracked, dropped and handlers come and go,
\* a handler hears of every tracked statistic, for users StopTrackingUsers was
\* never called for, unless a call for that statistic's own subscription has
\* failed since it was last added.
TrackedIsWatched ==
    HasHandlers => \A k \in keys \ unheard : stopped[k[1]] = "never" => k \in rta

\* The same for all users: a statistic tracked again is heard of again.  What a
\* failed call or StopTrackingUsers leaves behind breaks it (README, section 6).
TrackedAgainIsWatched ==
    HasHandlers => \A k \in keys : stopped[k[1]] # "last" => k \in rta

\* "The API will cancel all real-time stat updates for the provided users":
\* until something is tracked for them again they have no subscription.  The
\* first handler added later breaks it (README, section 6).
StopCancelsAll == \A k \in rta : stopped[k[1]] # "last"

\* RemoveSubscription's assert(subscription), which can fail as well.
RemovesSubscriptions == ~nullRemoved

=============================================================================
