-------------------------- MODULE PresenceService --------------------------
(***************************************************************************)
(* PresenceService: which users and titles are tracked, which handlers     *)
(* want to hear of them, and the RTA subscriptions the two together call   *)
(* for.  Every entry point runs under m_mutex and is one action; a call    *)
(* with several ids is several calls with one, nothing in between.         *)
(*                                                                         *)
(* The RTA manager is reduced to the subscriptions it holds.  Adding one   *)
(* fails before it is held (GetConnection) or after (the websocket refuses *)
(* the request); removing one fails for a null pointer, before anything,   *)
(* or when the request is refused, after it is no longer held.             *)
(*                                                                         *)
(* A failed assert is recorded and the call goes on as a release build     *)
(* does; "undefined" is the state after it has run into undefined          *)
(* behaviour, of which nothing more is said.                               *)
(***************************************************************************)
EXTENDS Integers, FiniteSets

CONSTANTS
    Users,
    Titles,
    OwnTitle,      \* m_titleId
    CountRange,    \* size_t counts modulo this
    MaxTokens,     \* bound: handlers ever added
    MaxResyncs,    \* bound: resync requests in flight
    MaxFailures    \* bound: calls in which the RTA manager fails, but for null pointers

ASSUME TitleAssumption == OwnTitle \in Titles /\ "devices" \notin Titles
ASSUME LimitsAssumption ==
    /\ CountRange \in Nat /\ CountRange > 2 /\ MaxTokens \in Nat /\ MaxResyncs \in Nat
    /\ MaxFailures \in Nat

Devices == "devices"
Tokens == 1..MaxTokens
Topics == Users \X (Titles \union {Devices})

\* An entry of titlePresenceChangedSubscriptions: no key, a null pointer, a
\* subscription.
Pointer == {"absent", "null", "sub"}
TrackedXuidSubscriptions ==
    [refCount : 0..(CountRange - 1), device : {"null", "sub"}, titles : [Titles -> Pointer]]

VARIABLES
    status,         \* "alive", "destroyed", "undefined"
    tracked,        \* keys of m_trackedXuids
    xuids,          \* their TrackedXuidSubscriptions
    titleKeys,      \* keys of m_trackedTitles
    trackedTitles,  \* their counts
    deviceHandlers, \* m_devicePresenceChangedHandlers
    titleHandlers,  \* m_titlePresenceChangedHandlers
    nextToken,      \* m_nextHandlerToken
    resyncs,        \* users asked for by each resync request in flight
    updates,        \* users the last resync told the handlers about
    rta,            \* topics whose subscription the RTA manager holds
    leaked,         \* topics with a subscription it holds and nobody points to
    unheard,        \* tracked users without the device subscription, by a failure
    unstopped,      \* tracked users and titles for which a StopTracking call
    unstoppedTitles,\* has failed
    failures,       \* calls in which the RTA manager has failed
    failedAsserts   \* asserts that have failed

handlerVars == <<deviceHandlers, titleHandlers, nextToken>>
resyncVars == <<resyncs, updates>>
titleVars == <<titleKeys, trackedTitles>>
failVars == <<leaked, unheard, unstopped, unstoppedTitles, failures, failedAsserts>>
vars == <<status, tracked, xuids, titleVars, handlerVars, resyncVars, rta, failVars>>

NoSubs == [refCount |-> 0, device |-> "null", titles |-> [t \in Titles |-> "absent"]]

Keys(x) == {t \in Titles : xuids[x].titles[t] # "absent"}
NullKeys(x) == {t \in Titles : xuids[x].titles[t] = "null"}
HasNullKey(x) == NullKeys(x) # {}
TitleSubs == {topic \in tracked \X Titles : xuids[topic[1]].titles[topic[2]] = "sub"}
Incremented(n) == (n + 1) % CountRange
Decremented(n) == (n - 1) % CountRange

Init ==
    /\ status = "alive"
    /\ tracked = {}
    /\ xuids = [x \in Users |-> NoSubs]
    /\ titleKeys = {OwnTitle}
    /\ trackedTitles = [t \in Titles |-> IF t = OwnTitle THEN 1 ELSE 0]
    /\ deviceHandlers = {} /\ titleHandlers = {}
    /\ nextToken = 1
    /\ resyncs = {} /\ updates = {}
    /\ rta = {}
    /\ leaked = {} /\ unheard = {} /\ unstopped = {} /\ unstoppedTitles = {}
    /\ failures = 0 /\ failedAsserts = {}

MayFail == failures < MaxFailures

\* The sets of these users for which AddSubscription may fail at the same time.
Failures(users) == IF MayFail THEN SUBSET users ELSE {{}}

\* RemoveSubscription's assert, were null pointers of these users passed to it.
NullRemoved(users) == IF users = {} THEN {} ELSE {"RemoveSubscription"}

(***************************************************************************)
(* Handlers                                                                *)
(***************************************************************************)
\* The handler is stored before the test for the first one: the test fails,
\* and nothing is added for the users tracked already.
AddTitlePresenceChangedHandler ==
    /\ status = "alive"
    /\ nextToken \in Tokens
    /\ titleHandlers' = titleHandlers \union {nextToken}
    /\ nextToken' = nextToken + 1
    /\ UNCHANGED <<status, tracked, xuids, titleVars, deviceHandlers,
                   resyncVars, rta, failVars>>

\* With the last handler every subscription is removed and its pointer reset,
\* whether or not the removal succeeds; the keys stay, and so do nulls from an
\* earlier time.
RemoveTitlePresenceChangedHandler(token) ==
    /\ status = "alive"
    /\ token \in titleHandlers
    /\ titleHandlers' = titleHandlers \ {token}
    /\ \/ /\ titleHandlers' # {}
          /\ UNCHANGED <<xuids, rta, failedAsserts>>
       \/ /\ titleHandlers' = {}
          /\ rta' = rta \ TitleSubs
          /\ xuids' = [x \in Users |-> [xuids[x] EXCEPT !.titles =
                 [t \in Titles |-> IF @[t] = "absent" THEN "absent" ELSE "null"]]]
          /\ failedAsserts' = failedAsserts \union
                 NullRemoved({y \in tracked : HasNullKey(y)})
    /\ UNCHANGED <<status, tracked, titleVars, deviceHandlers, nextToken, resyncVars,
                   leaked, unheard, unstopped, unstoppedTitles, failures>>

\* Mutant: the handler is stored before the test, as for titles.
NeedsDeviceSubs_StoredFirst == FALSE

NeedsDeviceSubs == deviceHandlers = {}

\* Nobody looks at what AddSubscription returns: the users for whom it has
\* failed have the pointer, and some of them are held all the same.
AddDevicePresenceChangedHandler ==
    /\ status = "alive"
    /\ nextToken \in Tokens
    /\ \/ /\ NeedsDeviceSubs
          /\ xuids' = [x \in Users |-> IF x \in tracked THEN [xuids[x] EXCEPT !.device = "sub"]
                                                        ELSE xuids[x]]
          /\ \E failed \in Failures(tracked) :
                /\ \E held \in SUBSET failed :
                      rta' = rta \union (((tracked \ failed) \union held) \X {Devices})
                /\ unheard' = failed
                /\ failures' = IF failed = {} THEN failures ELSE failures + 1
       \/ /\ ~NeedsDeviceSubs
          /\ UNCHANGED <<xuids, rta, unheard, failures>>
    /\ deviceHandlers' = deviceHandlers \union {nextToken}
    /\ nextToken' = nextToken + 1
    /\ UNCHANGED <<status, tracked, titleVars, titleHandlers, resyncVars, leaked, unstopped,
                   unstoppedTitles, failedAsserts>>

RemoveDevicePresenceChangedHandler(token) ==
    /\ status = "alive"
    /\ token \in deviceHandlers
    /\ deviceHandlers' = deviceHandlers \ {token}
    /\ \/ /\ deviceHandlers' # {}
          /\ UNCHANGED <<xuids, rta, failedAsserts>>
       \/ /\ deviceHandlers' = {}
          /\ rta' = rta \ {<<x, Devices>> : x \in {y \in tracked : xuids[y].device = "sub"}}
          /\ xuids' = [x \in Users |-> [xuids[x] EXCEPT !.device = "null"]]
          /\ failedAsserts' = failedAsserts \union
                 NullRemoved({y \in tracked : xuids[y].device = "null"})
    /\ UNCHANGED <<status, tracked, titleVars, titleHandlers, nextToken, resyncVars,
                   leaked, unheard, unstopped, unstoppedTitles, failures>>

(***************************************************************************)
(* Tracked users                                                           *)
(***************************************************************************)
\* What TrackUsers wants registered for a new user.
Wanted(x) ==
    (IF deviceHandlers # {} THEN {<<x, Devices>>} ELSE {})
        \union (IF titleHandlers # {} THEN {x} \X titleKeys ELSE {})

NewSubs ==
    [refCount |-> 1,
     device   |-> IF deviceHandlers # {} THEN "sub" ELSE "null",
     titles   |-> [t \in Titles |-> IF titleHandlers # {} /\ t \in titleKeys
                                    THEN "sub" ELSE "absent"]]

\* The count of a user whose entry a failed StopTracking call has left behind
\* goes on from 0, or from below.
TrackUser(x) ==
    /\ status = "alive"
    /\ \/ /\ x \notin tracked
          /\ tracked' = tracked \union {x}
          /\ xuids' = [xuids EXCEPT ![x] = NewSubs]
          /\ rta' = rta \union Wanted(x)
       \/ /\ x \in tracked
          /\ xuids[x].refCount # CountRange - 2
          /\ xuids' = [xuids EXCEPT ![x].refCount = Incremented(@)]
          /\ UNCHANGED <<tracked, rta>>
    /\ UNCHANGED <<status, titleVars, handlerVars, resyncVars, failVars>>

\* The first AddSubscription that fails ends the call: the user is not
\* tracked, and what was added before, or by the call that fails, stays with
\* the RTA manager.  The device comes first; which titles come before the
\* failing one is a matter of ids.
TrackUserFails(x) ==
    /\ status = "alive"
    /\ MayFail /\ x \notin tracked /\ Wanted(x) # {}
    /\ \E added \in SUBSET Wanted(x) :
          /\ added # {} /\ deviceHandlers # {} => <<x, Devices>> \in added
          /\ leaked' = leaked \union added
    /\ failures' = failures + 1
    /\ UNCHANGED <<status, tracked, xuids, titleVars, handlerVars, resyncVars, rta, unheard,
                   unstopped, unstoppedTitles, failedAsserts>>

\* Mutant: the last user of an entry does not erase it.
Erased_Kept(x) == tracked

Erased(x) == tracked \ {x}

\* A RemoveSubscription that fails ends the call, with the entry still there
\* and its count at 0: of a null pointer, or of the subscription "last", which
\* is gone all the same.  The device comes first; which titles were removed
\* before is a matter of ids.
StopTrackingUser(x) ==
    /\ status = "alive"
    /\ x \in tracked
    /\ LET count == Decremented(xuids[x].refCount)
           nullDevice == deviceHandlers # {} /\ xuids[x].device = "null"
           nullTitle == titleHandlers # {} /\ HasNullKey(x)
           device == IF deviceHandlers # {} THEN {<<x, Devices>>} ELSE {}
           titles == IF titleHandlers # {} THEN {x} \X (Keys(x) \ NullKeys(x)) ELSE {}
       IN  \/ /\ count # 0
              /\ xuids' = [xuids EXCEPT ![x].refCount = count]
              /\ UNCHANGED <<tracked, rta, unheard, unstopped, failures, failedAsserts>>
           \/ /\ count = 0 /\ ~nullDevice /\ ~nullTitle
              /\ rta' = rta \ (device \union titles)
              /\ tracked' = Erased(x)
              /\ xuids' = [xuids EXCEPT ![x] = NoSubs]
              /\ unheard' = unheard \ {x} /\ unstopped' = unstopped \ {x}
              /\ UNCHANGED <<failures, failedAsserts>>
           \/ /\ count = 0 /\ (nullDevice \/ nullTitle)
              /\ \/ nullDevice /\ UNCHANGED rta
                 \/ /\ ~nullDevice
                    /\ \E before \in SUBSET titles : rta' = rta \ (device \union before)
              /\ xuids' = [xuids EXCEPT ![x].refCount = 0]
              /\ failedAsserts' = failedAsserts \union {"RemoveSubscription"}
              /\ UNCHANGED <<tracked, unheard, unstopped, failures>>
           \/ /\ count = 0 /\ MayFail /\ ~nullDevice
              /\ \E last \in (device \union titles) \intersect rta, before \in SUBSET titles :
                    /\ last \in device => before = {}
                    /\ rta' = rta \ (device \union before \union {last})
              /\ xuids' = [xuids EXCEPT ![x].refCount = 0]
              /\ unheard' = IF device # {} THEN unheard \union {x} ELSE unheard
              /\ unstopped' = unstopped \union {x}
              /\ failures' = failures + 1
              /\ UNCHANGED <<tracked, failedAsserts>>
    /\ UNCHANGED <<status, titleVars, handlerVars, resyncVars, leaked, unstoppedTitles>>

(***************************************************************************)
(* Tracked titles                                                          *)
(***************************************************************************)
TrackAdditionalTitle(t) ==
    /\ status = "alive"
    /\ \/ /\ t \notin titleKeys
          /\ titleKeys' = titleKeys \union {t}
          /\ trackedTitles' = [trackedTitles EXCEPT ![t] = 1]
          /\ \/ /\ titleHandlers = {}
                /\ UNCHANGED <<xuids, rta>>
             \/ /\ titleHandlers # {}
                /\ xuids' = [x \in Users |-> IF x \in tracked
                                             THEN [xuids[x] EXCEPT !.titles[t] = "sub"]
                                             ELSE xuids[x]]
                /\ rta' = rta \union (tracked \X {t})
       \/ /\ t \in titleKeys
          /\ trackedTitles[t] # CountRange - 2
          /\ trackedTitles' = [trackedTitles EXCEPT ![t] = Incremented(@)]
          /\ UNCHANGED <<titleKeys, xuids, rta>>
    /\ UNCHANGED <<status, tracked, handlerVars, resyncVars, failVars>>

\* The title is in m_trackedTitles already when AddSubscription fails for some
\* user x, held or not; the users after x get no entry for it.
TrackAdditionalTitleFails(t) ==
    /\ status = "alive"
    /\ MayFail /\ t \notin titleKeys /\ titleHandlers # {}
    /\ titleKeys' = titleKeys \union {t}
    /\ trackedTitles' = [trackedTitles EXCEPT ![t] = 1]
    /\ \E x \in tracked : \E before \in SUBSET (tracked \ {x}), held \in SUBSET {x} :
          /\ xuids' = [y \in Users |-> IF y \in before \union {x}
                                       THEN [xuids[y] EXCEPT !.titles[t] = "sub"]
                                       ELSE xuids[y]]
          /\ rta' = rta \union ((before \union held) \X {t})
    /\ failures' = failures + 1
    /\ UNCHANGED <<status, tracked, handlerVars, resyncVars, leaked, unheard, unstopped,
                   unstoppedTitles, failedAsserts>>

\* Mutant: the subscriptions of the title are not removed.
TitleTopics_None(t) == {}

TitleTopics(t) == IF titleHandlers # {} THEN tracked \X {t} ELSE {}

\* The title this process runs is never dropped.  A user without an entry for
\* the title makes the assert fail and end() be erased; a removal that fails, of
\* a null pointer or of the user "last", ends the call with the title's key
\* still there and its count at 0, the users before having lost their entries.
StopTrackingAdditionalTitle(t) ==
    /\ status = "alive"
    /\ t # OwnTitle /\ t \in titleKeys
    /\ LET count == Decremented(trackedTitles[t])
           unknown == {x \in tracked : xuids[x].titles[t] = "absent"}
           null == {x \in tracked : titleHandlers # {} /\ xuids[x].titles[t] = "null"}
           without(users) == [x \in Users |-> IF x \in users
                                              THEN [xuids[x] EXCEPT !.titles[t] = "absent"]
                                              ELSE xuids[x]]
       IN  /\ trackedTitles' = [trackedTitles EXCEPT ![t] = count]
           /\ \/ /\ count # 0
                 /\ UNCHANGED <<status, titleKeys, xuids, rta, unstoppedTitles, failures,
                                failedAsserts>>
              \/ /\ count = 0 /\ unknown \union null = {}
                 /\ titleKeys' = titleKeys \ {t}
                 /\ rta' = rta \ TitleTopics(t)
                 /\ xuids' = without(Users)
                 /\ unstoppedTitles' = unstoppedTitles \ {t}
                 /\ UNCHANGED <<status, failures, failedAsserts>>
              \/ /\ count = 0 /\ unknown # {}
                 /\ status' = "undefined"
                 /\ failedAsserts' = failedAsserts \union {"StopTrackingAdditionalTitles"}
                 /\ UNCHANGED <<titleKeys, xuids, rta, unstoppedTitles, failures>>
              \/ /\ count = 0 /\ null # {}
                 /\ \E before \in SUBSET (tracked \ (unknown \union null)) :
                       /\ rta' = rta \ (before \X {t})
                       /\ xuids' = without(before)
                 /\ failedAsserts' = failedAsserts \union {"RemoveSubscription"}
                 /\ UNCHANGED <<status, titleKeys, unstoppedTitles, failures>>
              \/ /\ count = 0 /\ MayFail /\ titleHandlers # {}
                 /\ \E last \in tracked, before \in SUBSET (tracked \ (unknown \union null)) :
                       /\ <<last, t>> \in rta /\ last \notin before
                       /\ rta' = rta \ ((before \union {last}) \X {t})
                       /\ xuids' = without(before)
                 /\ unstoppedTitles' = unstoppedTitles \union {t}
                 /\ failures' = failures + 1
                 /\ UNCHANGED <<status, titleKeys, failedAsserts>>
    /\ UNCHANGED <<tracked, handlerVars, resyncVars, leaked, unheard, unstopped>>

(***************************************************************************)
(* Resync and destruction                                                  *)
(***************************************************************************)
\* The users are read now, the answer comes later.
HandleRTAResync ==
    /\ status = "alive"
    /\ tracked # {} /\ Cardinality(resyncs) < MaxResyncs
    /\ resyncs' = resyncs \union {tracked}
    /\ UNCHANGED <<status, tracked, xuids, titleVars, handlerVars, updates, rta, failVars>>

\* The answer goes to the handlers there are by then, for the users there were.
PresenceResult(asked) ==
    /\ status = "alive"
    /\ asked \in resyncs
    /\ resyncs' = resyncs \ {asked}
    /\ updates' = IF deviceHandlers \union titleHandlers # {} THEN asked ELSE updates
    /\ UNCHANGED <<status, tracked, xuids, titleVars, handlerVars, rta, failVars>>

\* ~PresenceService
Destroy ==
    /\ status = "alive"
    /\ status' = "destroyed"
    /\ rta' = rta \ ({<<x, Devices>> : x \in {y \in tracked : deviceHandlers # {}}}
                     \union IF titleHandlers # {} THEN TitleSubs ELSE {})
    /\ failedAsserts' = failedAsserts \union
           NullRemoved({y \in tracked : \/ deviceHandlers # {} /\ xuids[y].device = "null"
                                        \/ titleHandlers # {} /\ HasNullKey(y)})
    /\ tracked' = {} /\ xuids' = [x \in Users |-> NoSubs]
    /\ deviceHandlers' = {} /\ titleHandlers' = {} /\ resyncs' = {}
    /\ unheard' = {} /\ unstopped' = {}
    /\ UNCHANGED <<titleVars, nextToken, updates, leaked, unstoppedTitles, failures>>

Next ==
    \/ AddTitlePresenceChangedHandler
    \/ AddDevicePresenceChangedHandler
    \/ \E token \in Tokens : \/ RemoveTitlePresenceChangedHandler(token)
                             \/ RemoveDevicePresenceChangedHandler(token)
    \/ \E x \in Users : TrackUser(x) \/ TrackUserFails(x) \/ StopTrackingUser(x)
    \/ \E t \in Titles : \/ TrackAdditionalTitle(t)
                         \/ TrackAdditionalTitleFails(t)
                         \/ StopTrackingAdditionalTitle(t)
    \/ HandleRTAResync
    \/ \E asked \in resyncs : PresenceResult(asked)
    \/ Destroy

Spec == Init /\ [][Next]_vars

(***************************************************************************)
(* Properties                                                              *)
(***************************************************************************)
\* Types, and until an assert fails no entry and no title outlives its last
\* count, nor is erased before it: but for those a StopTracking call that has
\* failed left behind.
TypeOK ==
    /\ status \in {"alive", "destroyed", "undefined"}
    /\ tracked \subseteq Users
    /\ xuids \in [Users -> TrackedXuidSubscriptions]
    /\ titleKeys \subseteq Titles
    /\ trackedTitles \in [Titles -> 0..(CountRange - 1)]
    /\ deviceHandlers \subseteq Tokens /\ titleHandlers \subseteq Tokens
    /\ nextToken \in 1..(MaxTokens + 1)
    /\ resyncs \subseteq SUBSET Users /\ updates \subseteq Users
    /\ rta \subseteq Topics /\ leaked \subseteq Topics
    /\ unheard \subseteq tracked /\ unstopped \subseteq tracked
    /\ unstoppedTitles \subseteq titleKeys
    /\ failures \in 0..MaxFailures
    /\ failedAsserts \subseteq {"RemoveSubscription", "StopTrackingAdditionalTitles"}
    /\ failedAsserts = {} =>
          /\ \A x \in Users \ unstopped : x \in tracked <=> xuids[x].refCount > 0
          /\ \A t \in Titles \ unstoppedTitles : t \in titleKeys <=> trackedTitles[t] > 0

\* Until an assert fails, the RTA manager holds a subscription only while its
\* user has an entry, its title a key, and a handler wants it, so that it can
\* be removed; and none once the service is destroyed.  What a failed
\* TrackUsers left behind is not among them: see NothingLeaks.
RegisteredIsTracked ==
    failedAsserts = {} =>
        \A topic \in rta :
            /\ topic[1] \in tracked
            /\ \/ topic[2] = Devices /\ deviceHandlers # {}
               \/ topic[2] \in titleKeys /\ titleHandlers # {}

\* In whatever order users are tracked and handlers are added, a handler hears
\* of the devices of every tracked user, unless a call for that user's own
\* device subscription has failed since it was last added.
DevicesWatched ==
    failedAsserts = {} /\ deviceHandlers # {} =>
        \A x \in tracked \ unheard : <<x, Devices>> \in rta

\* The RTA manager holds no subscription that nobody can remove any more: a
\* failed TrackUsers breaks it (README, section 6).
NothingLeaks == leaked = {}

\* Who tracks a user hears of its devices: the entry that a failed StopTracking
\* call or a failed addition leaves behind breaks it, when the user is tracked
\* again (README, section 6).
TrackedAgainIsWatched ==
    [][\A x \in Users :
          TrackUser(x) /\ failedAsserts = {} /\ deviceHandlers # {} => <<x, Devices>> \in rta']_vars

\* "The set of tracked users can be updated independent from the handlers":
\* the same for the titles.
TitlesWatched ==
    failedAsserts = {} /\ titleHandlers # {} => tracked \X titleKeys \subseteq rta

\* The asserts of StopTrackingAdditionalTitles and of RemoveSubscription: both
\* can fail (README, section 6).
TitleIsKnown == "StopTrackingAdditionalTitles" \notin failedAsserts
RemovesSubscriptions == "RemoveSubscription" \notin failedAsserts

\* "Presence updates for the specified Users will no longer be received": an
\* answer to a resync is (README, section 6).
UpdatesOnlyForTracked == [][updates' # updates => updates' \subseteq tracked]_vars

=============================================================================
