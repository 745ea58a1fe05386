------------------------ MODULE PresenceServiceProofs ------------------------
(***************************************************************************)
(* Proofs about PresenceService, for any users, titles and handlers.       *)
(*                                                                         *)
(* That the RTA manager holds only what is still wanted is not inductive:  *)
(* what is removed is found through the entries of the tracked users, so   *)
(* the invariant says that whatever is held has its entry (EntryFor).  It  *)
(* says nothing once an assert has failed.  That no count wraps needs that *)
(* a count in use stays below the one at which Track stops.                *)
(***************************************************************************)
EXTENDS PresenceService, TLAPS

-----------------------------------------------------------------------------
(* The invariant. *)

\* What is held for a user has an entry, through which it will be removed.
EntryFor(x, d) ==
    /\ x \in tracked
    /\ d = Devices => deviceHandlers # {} /\ xuids[x].device = "sub"
    /\ d \in Titles => titleHandlers # {} /\ d \in titleKeys /\ xuids[x].titles[d] = "sub"

HeldHasEntry ==
    failedAsserts = {} =>
        \A x \in Users, d \in Titles \union {Devices} :
            <<x, d>> \in rta => EntryFor(x, d)

\* An entry lives as long as its count, until an assert fails or a StopTracking
\* call does.
InUse == 1..(CountRange - 2)
CountsLive ==
    failedAsserts = {} =>
        \A x \in Users \ unstopped : IF x \in tracked THEN xuids[x].refCount \in InUse
                                                     ELSE xuids[x].refCount = 0

\* So does the key of a title.
TitlesLive ==
    failedAsserts = {} =>
        \A t \in Titles \ unstoppedTitles : IF t \in titleKeys THEN trackedTitles[t] \in InUse
                                                               ELSE trackedTitles[t] = 0

\* What has failed is remembered for what there is.
Histories ==
    /\ leaked \subseteq Topics /\ failures \in 0..MaxFailures
    /\ unheard \subseteq tracked /\ unstopped \subseteq tracked
    /\ unstoppedTitles \subseteq titleKeys

Counts == 0..(CountRange - 1)
Types ==
    /\ status \in {"alive", "destroyed", "undefined"}
    /\ tracked \subseteq Users
    /\ xuids \in [Users -> TrackedXuidSubscriptions]
    /\ titleKeys \subseteq Titles /\ trackedTitles \in [Titles -> Counts]
    /\ deviceHandlers \subseteq Tokens /\ titleHandlers \subseteq Tokens
    /\ nextToken \in 1..(MaxTokens + 1)
    /\ resyncs \subseteq SUBSET Users /\ updates \subseteq Users
    /\ rta \subseteq Topics
    /\ failedAsserts \subseteq {"RemoveSubscription", "StopTrackingAdditionalTitles"}

\* A count that wraps stays a count.
LEMMA DecrementedType ==
    ASSUME NEW n \in Counts
    PROVE  Decremented(n) \in Counts
<1>1. n - 1 \in Int /\ CountRange \in Int /\ CountRange > 0
    BY LimitsAssumption DEF Counts
<1>2. (n - 1) % CountRange \in 0..(CountRange - 1)
    BY <1>1
<1> QED
    BY <1>2 DEF Decremented, Counts

\* A count that is raised where Track goes on stays a count, and stays in use.
LEMMA IncrementedType ==
    ASSUME NEW n \in Counts
    PROVE  /\ Incremented(n) \in Counts
           /\ n \in InUse /\ n # CountRange - 2 => Incremented(n) \in InUse
<1>1. n + 1 \in Int /\ CountRange \in Int /\ CountRange > 0
    BY LimitsAssumption DEF Counts
<1>2. (n + 1) % CountRange \in 0..(CountRange - 1)
    BY <1>1
<1>3. ASSUME n \in InUse, n # CountRange - 2
      PROVE  (n + 1) % CountRange \in InUse
    <2>1. n + 1 \in 2..(CountRange - 2)
        BY <1>1, <1>3 DEF InUse
    <2>2. (n + 1) % CountRange = n + 1
        BY <1>1, <2>1
    <2> QED
        BY <2>1, <2>2 DEF InUse
<1> QED
    BY <1>2, <1>3 DEF Incremented, Counts

\* A count in use that is lowered is 0 or stays in use.
LEMMA DecrementedInUse ==
    ASSUME NEW n \in InUse
    PROVE  Decremented(n) = 0 \/ Decremented(n) \in InUse
<1>1. n - 1 \in 0..(CountRange - 3) /\ CountRange \in Int /\ CountRange > 2
    BY LimitsAssumption DEF InUse
<1>2. (n - 1) % CountRange = n - 1
    BY <1>1
<1> QED
    BY <1>1, <1>2 DEF Decremented, InUse

\* Null pointers that are removed fail the assert of RemoveSubscription.
LEMMA NullRemovedType ==
    ASSUME NEW users
    PROVE  NullRemoved(users) \subseteq {"RemoveSubscription", "StopTrackingAdditionalTitles"}
BY DEF NullRemoved

\* An entry stays one when one of its fields changes.
LEMMA EntryTypes ==
    ASSUME Types, NEW x \in Users
    PROVE  /\ xuids[x] \in TrackedXuidSubscriptions
           /\ xuids[x].refCount \in Counts /\ xuids[x].device \in {"null", "sub"}
           /\ xuids[x].titles \in [Titles -> Pointer]
           /\ NoSubs \in TrackedXuidSubscriptions /\ NewSubs \in TrackedXuidSubscriptions
           /\ \A n \in Counts : [xuids[x] EXCEPT !.refCount = n] \in TrackedXuidSubscriptions
           /\ \A d \in {"null", "sub"} : [xuids[x] EXCEPT !.device = d] \in TrackedXuidSubscriptions
           /\ \A f \in [Titles -> Pointer] : [xuids[x] EXCEPT !.titles = f] \in TrackedXuidSubscriptions
           /\ \A t \in Titles, p \in Pointer :
                  [xuids[x] EXCEPT !.titles[t] = p] \in TrackedXuidSubscriptions
<1>1. xuids[x] \in TrackedXuidSubscriptions
    BY DEF Types
<1>2. NoSubs \in TrackedXuidSubscriptions /\ NewSubs \in TrackedXuidSubscriptions
    BY LimitsAssumption DEF NoSubs, NewSubs, TrackedXuidSubscriptions, Pointer
<1>3. ASSUME NEW t \in Titles, NEW p \in Pointer
      PROVE  [xuids[x] EXCEPT !.titles[t] = p] \in TrackedXuidSubscriptions
    BY <1>1 DEF TrackedXuidSubscriptions
<1> QED
    BY <1>1, <1>2, <1>3 DEF TrackedXuidSubscriptions, Counts

\* Changing one field of an entry leaves the others.
LEMMA EntryFields ==
    ASSUME Types, NEW x \in Users
    PROVE  /\ \A n : [xuids[x] EXCEPT !.refCount = n].refCount = n
           /\ \A d : /\ [xuids[x] EXCEPT !.device = d].refCount = xuids[x].refCount
                     /\ [xuids[x] EXCEPT !.device = d].device = d
                     /\ [xuids[x] EXCEPT !.device = d].titles = xuids[x].titles
           /\ \A f : /\ [xuids[x] EXCEPT !.titles = f].refCount = xuids[x].refCount
                     /\ [xuids[x] EXCEPT !.titles = f].device = xuids[x].device
                     /\ [xuids[x] EXCEPT !.titles = f].titles = f
BY DEF Types, TrackedXuidSubscriptions

-----------------------------------------------------------------------------
(* Every variable keeps its type, and every entry its count. *)

TypeInv == Types /\ CountsLive

\* What the handlers' operations do to the types.
LEMMA HandlersTyped ==
    ASSUME TypeInv,
           \/ AddTitlePresenceChangedHandler \/ AddDevicePresenceChangedHandler
           \/ \E token \in Tokens : \/ RemoveTitlePresenceChangedHandler(token)
                                    \/ RemoveDevicePresenceChangedHandler(token)
    PROVE  TypeInv'
<1> USE DEF TypeInv, handlerVars, resyncVars, titleVars, failVars
<1>1. CASE AddTitlePresenceChangedHandler
    BY <1>1, LimitsAssumption DEF AddTitlePresenceChangedHandler, Types, CountsLive, Tokens
<1>2. CASE AddDevicePresenceChangedHandler
    <2>1. PICK failed \in SUBSET tracked :
            \/ /\ xuids' = [x \in Users |-> IF x \in tracked THEN [xuids[x] EXCEPT !.device = "sub"]
                                                             ELSE xuids[x]]
               /\ \E held \in SUBSET failed :
                     rta' = rta \union (((tracked \ failed) \union held) \X {Devices})
            \/ UNCHANGED <<xuids, rta>>
        BY <1>2 DEF AddDevicePresenceChangedHandler, Failures
    <2>2. /\ xuids' \in [Users -> TrackedXuidSubscriptions]
          /\ \A x \in Users : xuids'[x].refCount = xuids[x].refCount
        <3>1. ASSUME NEW x \in Users
              PROVE  /\ [xuids[x] EXCEPT !.device = "sub"] \in TrackedXuidSubscriptions
                     /\ [xuids[x] EXCEPT !.device = "sub"].refCount = xuids[x].refCount
                     /\ xuids[x] \in TrackedXuidSubscriptions
            BY EntryTypes, EntryFields DEF TypeInv
        <3>2. CASE UNCHANGED xuids
            BY <3>2 DEF TypeInv, Types
        <3>3. CASE xuids' = [x \in Users |-> IF x \in tracked
                                THEN [xuids[x] EXCEPT !.device = "sub"] ELSE xuids[x]]
            BY <3>1, <3>3
        <3> QED
            BY <2>1, <3>2, <3>3
    <2>3. rta' \subseteq Topics
        BY <2>1 DEF Types, Topics
    <2>4. /\ deviceHandlers' \subseteq Tokens /\ nextToken' \in 1..(MaxTokens + 1)
          /\ UNCHANGED <<status, tracked, titleKeys, trackedTitles, titleHandlers, resyncs,
                         updates, unstopped, failedAsserts>>
        BY <1>2, LimitsAssumption DEF AddDevicePresenceChangedHandler, Types, Tokens
    <2>5. Types'
        BY <2>2, <2>3, <2>4 DEF Types
    <2> QED
        BY <2>2, <2>4, <2>5 DEF CountsLive
<1>3. ASSUME NEW token \in Tokens, RemoveTitlePresenceChangedHandler(token)
      PROVE  TypeInv'
    <2>1. \/ UNCHANGED <<xuids, rta, failedAsserts>>
          \/ /\ rta' = rta \ TitleSubs
             /\ xuids' = [x \in Users |-> [xuids[x] EXCEPT !.titles =
                    [t \in Titles |-> IF @[t] = "absent" THEN "absent" ELSE "null"]]]
             /\ failedAsserts' = failedAsserts \union NullRemoved({y \in tracked : HasNullKey(y)})
        BY <1>3 DEF RemoveTitlePresenceChangedHandler
    <2>2. /\ xuids' \in [Users -> TrackedXuidSubscriptions]
          /\ \A x \in Users : xuids'[x].refCount = xuids[x].refCount
        <3> DEFINE reset(x) ==
                [t \in Titles |-> IF xuids[x].titles[t] = "absent" THEN "absent" ELSE "null"]
        <3>1. ASSUME NEW x \in Users
              PROVE  reset(x) \in [Titles -> Pointer]
            BY DEF Pointer
        <3>2. CASE UNCHANGED xuids
            BY <3>2 DEF TypeInv, Types
        <3>3. CASE xuids' = [x \in Users |-> [xuids[x] EXCEPT !.titles = reset(x)]]
            <4> HIDE DEF reset
            <4>1. ASSUME NEW x \in Users
                  PROVE  /\ [xuids[x] EXCEPT !.titles = reset(x)] \in TrackedXuidSubscriptions
                         /\ [xuids[x] EXCEPT !.titles = reset(x)].refCount = xuids[x].refCount
                BY <3>1, EntryTypes, EntryFields DEF TypeInv
            <4> QED
                BY <3>3, <4>1
        <3> QED
            BY <2>1, <3>2, <3>3
    <2>3. rta' \subseteq Topics
        BY <2>1 DEF Types
    <2>4. failedAsserts' \subseteq {"RemoveSubscription", "StopTrackingAdditionalTitles"}
        BY <2>1, NullRemovedType DEF Types
    <2>5. /\ titleHandlers' \subseteq Tokens
          /\ UNCHANGED <<status, tracked, titleKeys, trackedTitles, deviceHandlers, nextToken,
                         resyncs, updates, unstopped>>
        BY <1>3 DEF RemoveTitlePresenceChangedHandler, Types
    <2>6. Types'
        BY <2>2, <2>3, <2>4, <2>5 DEF Types
    <2>7. failedAsserts' = {} => failedAsserts = {}
        BY <2>1
    <2> QED
        BY <2>2, <2>5, <2>6, <2>7 DEF CountsLive
<1>4. ASSUME NEW token \in Tokens, RemoveDevicePresenceChangedHandler(token)
      PROVE  TypeInv'
    <2>1. \/ UNCHANGED <<xuids, rta, failedAsserts>>
          \/ /\ rta' = rta \ {<<x, Devices>> : x \in {y \in tracked : xuids[y].device = "sub"}}
             /\ xuids' = [x \in Users |-> [xuids[x] EXCEPT !.device = "null"]]
             /\ failedAsserts' = failedAsserts \union
                    NullRemoved({y \in tracked : xuids[y].device = "null"})
        BY <1>4 DEF RemoveDevicePresenceChangedHandler
    <2>2. /\ xuids' \in [Users -> TrackedXuidSubscriptions]
          /\ \A x \in Users : xuids'[x].refCount = xuids[x].refCount
        <3>1. ASSUME NEW x \in Users
              PROVE  /\ [xuids[x] EXCEPT !.device = "null"] \in TrackedXuidSubscriptions
                     /\ [xuids[x] EXCEPT !.device = "null"].refCount = xuids[x].refCount
            BY EntryTypes, EntryFields DEF TypeInv
        <3>2. CASE UNCHANGED xuids
            BY <3>2 DEF TypeInv, Types
        <3>3. CASE xuids' = [x \in Users |-> [xuids[x] EXCEPT !.device = "null"]]
            BY <3>1, <3>3
        <3> QED
            BY <2>1, <3>2, <3>3
    <2>3. rta' \subseteq Topics
        BY <2>1 DEF Types
    <2>4. failedAsserts' \subseteq {"RemoveSubscription", "StopTrackingAdditionalTitles"}
        BY <2>1, NullRemovedType DEF Types
    <2>5. /\ deviceHandlers' \subseteq Tokens
          /\ UNCHANGED <<status, tracked, titleKeys, trackedTitles, titleHandlers, nextToken,
                         resyncs, updates, unstopped>>
        BY <1>4 DEF RemoveDevicePresenceChangedHandler, Types
    <2>6. Types'
        BY <2>2, <2>3, <2>4, <2>5 DEF Types
    <2>7. failedAsserts' = {} => failedAsserts = {}
        BY <2>1
    <2> QED
        BY <2>2, <2>5, <2>6, <2>7 DEF CountsLive
<1> QED
    BY <1>1, <1>2, <1>3, <1>4

\* What the operations on users do to the types: an entry is made with the first
\* count and erased with the last.
LEMMA UsersTyped ==
    ASSUME TypeInv, NEW x \in Users, TrackUser(x) \/ TrackUserFails(x) \/ StopTrackingUser(x)
    PROVE  TypeInv'
<1> USE DEF TypeInv, handlerVars, resyncVars, titleVars, failVars
<1>1. Wanted(x) \subseteq Topics
    BY DEF Wanted, Topics, Types
<1>2. CASE TrackUser(x)
    <2>1. UNCHANGED <<status, titleKeys, trackedTitles, deviceHandlers, titleHandlers, nextToken,
                      resyncs, updates, unstopped, failedAsserts>>
        BY <1>2 DEF TrackUser
    <2>2. CASE x \notin tracked
        <3>1. /\ tracked' = tracked \union {x} /\ xuids' = [xuids EXCEPT ![x] = NewSubs]
              /\ rta' = rta \union Wanted(x)
            BY <1>2, <2>2 DEF TrackUser
        <3>2. xuids' \in [Users -> TrackedXuidSubscriptions]
            BY <3>1, EntryTypes DEF Types
        <3>3. Types'
            BY <1>1, <2>1, <3>1, <3>2 DEF Types
        <3>4. xuids'[x].refCount = 1 /\ \A y \in Users : y # x => xuids'[y] = xuids[y]
            BY <3>1 DEF Types, NewSubs
        <3>5. 1 \in InUse
            BY LimitsAssumption DEF InUse
        <3> QED
            BY <2>1, <3>1, <3>3, <3>4, <3>5 DEF CountsLive
    <2>3. CASE x \in tracked
        <3>1. /\ xuids' = [xuids EXCEPT ![x].refCount = Incremented(@)]
              /\ xuids[x].refCount # CountRange - 2 /\ UNCHANGED <<tracked, rta>>
            BY <1>2, <2>3 DEF TrackUser
        <3> DEFINE n == Incremented(xuids[x].refCount)
        <3>2. n \in Counts /\ (xuids[x].refCount \in InUse => n \in InUse)
            <4>1. xuids[x].refCount \in Counts
                BY EntryTypes
            <4> QED
                BY <3>1, <4>1, IncrementedType
        <3>3. xuids' = [xuids EXCEPT ![x] = [xuids[x] EXCEPT !.refCount = n]]
            BY <3>1 DEF Types
        <3> HIDE DEF n
        <3>4. xuids' \in [Users -> TrackedXuidSubscriptions]
            BY <3>2, <3>3, EntryTypes DEF Types
        <3>5. Types'
            BY <2>1, <3>1, <3>4 DEF Types
        <3>6. xuids'[x].refCount = n /\ \A y \in Users : y # x => xuids'[y] = xuids[y]
            BY <3>3, EntryTypes DEF Types, TrackedXuidSubscriptions
        <3> QED
            BY <2>1, <2>3, <3>1, <3>2, <3>5, <3>6 DEF CountsLive
    <2> QED
        BY <2>2, <2>3
<1>3. CASE TrackUserFails(x)
    BY <1>1, <1>3 DEF TrackUserFails, Types, CountsLive
<1>4. CASE StopTrackingUser(x)
    <2> DEFINE count == Decremented(xuids[x].refCount)
    <2>1. UNCHANGED <<status, titleKeys, trackedTitles, deviceHandlers, titleHandlers, nextToken,
                      resyncs, updates>>
        BY <1>4 DEF StopTrackingUser
    <2>2. count \in Counts /\ 0 \in Counts
        <3>1. xuids[x].refCount \in Counts
            BY EntryTypes
        <3>2. 0 \in Counts
            BY LimitsAssumption DEF Counts
        <3> QED
            BY <3>1, <3>2, DecrementedType
    <2>3. rta' \subseteq rta
        BY <1>4 DEF StopTrackingUser
    <2>4. CASE count # 0 /\ xuids' = [xuids EXCEPT ![x].refCount = count]
               /\ UNCHANGED <<tracked, unstopped, failedAsserts>>
        <3> HIDE DEF count
        <3>1. xuids' = [xuids EXCEPT ![x] = [xuids[x] EXCEPT !.refCount = count]]
            BY <2>4 DEF Types
        <3>2. xuids' \in [Users -> TrackedXuidSubscriptions]
            BY <2>2, <3>1, EntryTypes DEF Types
        <3>3. Types'
            BY <2>1, <2>3, <2>4, <3>2 DEF Types
        <3>4. xuids'[x].refCount = count /\ \A y \in Users : y # x => xuids'[y] = xuids[y]
            BY <3>1, EntryTypes DEF Types, TrackedXuidSubscriptions
        <3>5. x \in tracked /\ (xuids[x].refCount \in InUse => count \in InUse)
            BY <1>4, <2>4, DecrementedInUse DEF StopTrackingUser, count
        <3> QED
            BY <2>4, <3>3, <3>4, <3>5 DEF CountsLive
    <2>5. CASE tracked' = Erased(x) /\ xuids' = [xuids EXCEPT ![x] = NoSubs]
               /\ unstopped' = unstopped \ {x} /\ UNCHANGED failedAsserts
        <3>1. xuids' \in [Users -> TrackedXuidSubscriptions]
            BY <2>5, EntryTypes DEF Types
        <3>2. Types'
            BY <2>1, <2>3, <2>5, <3>1 DEF Types, Erased
        <3>3. xuids'[x].refCount = 0 /\ \A y \in Users : y # x => xuids'[y] = xuids[y]
            BY <2>5 DEF Types, NoSubs
        <3> QED
            BY <2>5, <3>2, <3>3 DEF CountsLive, Erased
    <2>6. CASE xuids' = [xuids EXCEPT ![x].refCount = 0] /\ UNCHANGED tracked
               /\ \/ failedAsserts' = failedAsserts \union {"RemoveSubscription"}
                  \/ unstopped' = unstopped \union {x} /\ UNCHANGED failedAsserts
        <3>1. xuids' = [xuids EXCEPT ![x] = [xuids[x] EXCEPT !.refCount = 0]]
            BY <2>6 DEF Types
        <3>2. xuids' \in [Users -> TrackedXuidSubscriptions]
            BY <2>2, <3>1, EntryTypes DEF Types
        <3>3. Types'
            BY <2>1, <2>3, <2>6, <3>2 DEF Types
        <3>4. \A y \in Users : y # x => xuids'[y] = xuids[y]
            BY <3>1 DEF Types
        <3> QED
            BY <2>6, <3>3, <3>4 DEF CountsLive
    <2> QED
        BY <1>4, <2>4, <2>5, <2>6 DEF StopTrackingUser
<1> QED
    BY <1>2, <1>3, <1>4

\* What the operations on titles do to the types.
LEMMA TitlesTyped ==
    ASSUME TypeInv, NEW t \in Titles,
           \/ TrackAdditionalTitle(t) \/ TrackAdditionalTitleFails(t)
           \/ StopTrackingAdditionalTitle(t)
    PROVE  TypeInv'
<1> USE DEF TypeInv, handlerVars, resyncVars, titleVars, failVars
<1> DEFINE With(y, p) == [xuids[y] EXCEPT !.titles[t] = p]
           SetFor(users, p) == [y \in Users |-> IF y \in users THEN With(y, p) ELSE xuids[y]]
           Retitled == UNCHANGED xuids \/ \E users : \E p \in Pointer : xuids' = SetFor(users, p)
<1>1. ASSUME NEW users, NEW p \in Pointer, xuids' = SetFor(users, p)
      PROVE  /\ xuids' \in [Users -> TrackedXuidSubscriptions]
             /\ \A y \in Users : xuids'[y].refCount = xuids[y].refCount
    <2>1. ASSUME NEW y \in Users
          PROVE  /\ With(y, p) \in TrackedXuidSubscriptions
                 /\ With(y, p).refCount = xuids[y].refCount
                 /\ xuids[y] \in TrackedXuidSubscriptions
        <3>1. With(y, p) \in TrackedXuidSubscriptions /\ xuids[y] \in TrackedXuidSubscriptions
            BY EntryTypes
        <3>2. With(y, p).refCount = xuids[y].refCount
            BY <3>1 DEF TrackedXuidSubscriptions
        <3> QED
            BY <3>1, <3>2
    <2> HIDE DEF With
    <2> QED
        BY <1>1, <2>1
<1>2. "sub" \in Pointer /\ "absent" \in Pointer
    BY DEF Pointer
<1>3. trackedTitles[t] \in Counts /\ 1 \in Counts
    BY LimitsAssumption DEF Types, Counts
<1>4. ASSUME /\ titleKeys' \subseteq Titles /\ trackedTitles' \in [Titles -> Counts]
             /\ rta' \subseteq Topics
             /\ status' \in {"alive", "destroyed", "undefined"}
             /\ failedAsserts' \subseteq {"RemoveSubscription", "StopTrackingAdditionalTitles"}
             /\ failedAsserts' = {} => failedAsserts = {}
             /\ UNCHANGED <<tracked, deviceHandlers, titleHandlers, nextToken, resyncs, updates,
                            unstopped>>,
             Retitled
      PROVE  TypeInv'
    <2>1. /\ xuids' \in [Users -> TrackedXuidSubscriptions]
          /\ \A y \in Users : xuids'[y].refCount = xuids[y].refCount
        <3>1. CASE UNCHANGED xuids
            BY <3>1 DEF Types
        <3>2. CASE \E users : \E p \in Pointer : xuids' = SetFor(users, p)
            BY <1>1, <3>2
        <3> QED
            BY <1>4, <3>1, <3>2
    <2>2. Types'
        BY <1>4, <2>1 DEF Types
    <2> QED
        BY <1>4, <2>1, <2>2 DEF CountsLive
<1>5. CASE TrackAdditionalTitle(t)
    <2>1. trackedTitles' \in [Titles -> Counts]
        <3>1. CASE trackedTitles' = [trackedTitles EXCEPT ![t] = 1]
            BY <1>3, <3>1 DEF Types
        <3>2. CASE trackedTitles' = [trackedTitles EXCEPT ![t] = Incremented(@)]
            <4>1. Incremented(trackedTitles[t]) \in Counts
                BY <1>3, IncrementedType
            <4> QED
                BY <3>2, <4>1 DEF Types
        <3> QED
            BY <1>5, <3>1, <3>2 DEF TrackAdditionalTitle
    <2>2. rta' \subseteq Topics
        BY <1>5 DEF TrackAdditionalTitle, Types, Topics
    <2>3. UNCHANGED xuids \/ xuids' = SetFor(tracked, "sub")
        BY <1>5 DEF TrackAdditionalTitle
    <2>4. UNCHANGED <<status, failedAsserts, tracked, deviceHandlers, titleHandlers,
                      nextToken, resyncs, updates, unstopped>>
        BY <1>5 DEF TrackAdditionalTitle
    <2>7. titleKeys' \subseteq Titles
        BY <1>5 DEF TrackAdditionalTitle, Types
    <2> HIDE DEF SetFor
    <2>5. Retitled
        BY <1>2, <2>3
    <2>6. /\ status' \in {"alive", "destroyed", "undefined"}
          /\ failedAsserts' \subseteq {"RemoveSubscription", "StopTrackingAdditionalTitles"}
          /\ failedAsserts' = {} => failedAsserts = {}
          /\ rta' \subseteq Topics
        BY <2>2, <2>4 DEF Types
    <2> HIDE DEF Retitled
    <2> QED
        BY <1>4, <2>1, <2>4, <2>5, <2>6, <2>7
<1>6. CASE TrackAdditionalTitleFails(t)
    <2>1. PICK x \in tracked :
            \E before \in SUBSET (tracked \ {x}), held \in SUBSET {x} :
               /\ xuids' = SetFor(before \union {x}, "sub")
               /\ rta' = rta \union ((before \union held) \X {t})
        BY <1>6 DEF TrackAdditionalTitleFails
    <2>2. titleKeys' \subseteq Titles /\ trackedTitles' \in [Titles -> Counts]
        BY <1>3, <1>6 DEF TrackAdditionalTitleFails, Types
    <2>3. rta' \subseteq Topics
        BY <2>1 DEF Types, Topics
    <2>4. UNCHANGED <<status, failedAsserts, tracked, deviceHandlers, titleHandlers,
                      nextToken, resyncs, updates, unstopped>>
        BY <1>6 DEF TrackAdditionalTitleFails
    <2> HIDE DEF SetFor
    <2>5. Retitled
        BY <1>2, <2>1
    <2>6. /\ status' \in {"alive", "destroyed", "undefined"}
          /\ failedAsserts' \subseteq {"RemoveSubscription", "StopTrackingAdditionalTitles"}
          /\ failedAsserts' = {} => failedAsserts = {}
          /\ rta' \subseteq Topics
        BY <2>3, <2>4 DEF Types
    <2> HIDE DEF Retitled
    <2> QED
        BY <1>4, <2>2, <2>4, <2>5, <2>6
<1>7. CASE StopTrackingAdditionalTitle(t)
    <2>1. trackedTitles' \in [Titles -> Counts]
        <3>1. Decremented(trackedTitles[t]) \in Counts
            BY <1>3, DecrementedType
        <3>2. trackedTitles' = [trackedTitles EXCEPT ![t] = Decremented(trackedTitles[t])]
            BY <1>7 DEF StopTrackingAdditionalTitle
        <3> QED
            BY <3>1, <3>2 DEF Types
    <2>2. rta' \subseteq rta
        BY <1>7 DEF StopTrackingAdditionalTitle
    <2>3. UNCHANGED xuids \/ \E users : xuids' = SetFor(users, "absent")
        BY <1>7 DEF StopTrackingAdditionalTitle
    <2>4. /\ status' \in {"alive", "destroyed", "undefined"}
          /\ failedAsserts' \subseteq {"RemoveSubscription", "StopTrackingAdditionalTitles"}
          /\ failedAsserts' = {} => failedAsserts = {}
        BY <1>7 DEF StopTrackingAdditionalTitle, Types
    <2>5. UNCHANGED <<tracked, deviceHandlers, titleHandlers, nextToken, resyncs, updates,
                      unstopped>>
        BY <1>7 DEF StopTrackingAdditionalTitle
    <2>8. titleKeys' \subseteq Titles
        BY <1>7 DEF StopTrackingAdditionalTitle, Types
    <2> HIDE DEF SetFor
    <2>6. Retitled
        BY <1>2, <2>3
    <2>7. /\ status' \in {"alive", "destroyed", "undefined"}
          /\ failedAsserts' \subseteq {"RemoveSubscription", "StopTrackingAdditionalTitles"}
          /\ failedAsserts' = {} => failedAsserts = {}
          /\ rta' \subseteq Topics
        BY <2>2, <2>4, <2>5 DEF Types
    <2> HIDE DEF Retitled
    <2> QED
        BY <1>4, <2>1, <2>5, <2>6, <2>7, <2>8
<1> QED
    BY <1>5, <1>6, <1>7

\* What resyncs, their answers and destruction do to the types.
LEMMA OthersTyped ==
    ASSUME TypeInv,
           HandleRTAResync \/ (\E asked \in resyncs : PresenceResult(asked)) \/ Destroy
    PROVE  TypeInv'
<1> USE DEF TypeInv, handlerVars, resyncVars, titleVars, failVars
<1>1. CASE HandleRTAResync
    BY <1>1 DEF HandleRTAResync, Types, CountsLive
<1>2. ASSUME NEW asked \in resyncs, PresenceResult(asked)
      PROVE  TypeInv'
    <2>1. resyncs' \subseteq SUBSET Users /\ updates' \subseteq Users
        BY <1>2 DEF PresenceResult, Types
    <2> QED
        BY <1>2, <2>1 DEF PresenceResult, Types, CountsLive
<1>3. CASE Destroy
    <2>1. xuids' \in [Users -> TrackedXuidSubscriptions] /\ \A x \in Users : xuids'[x].refCount = 0
        <3>1. NoSubs \in TrackedXuidSubscriptions /\ NoSubs.refCount = 0
            BY LimitsAssumption DEF NoSubs, TrackedXuidSubscriptions, Pointer
        <3> QED
            BY <1>3, <3>1 DEF Destroy
    <2>2. failedAsserts' \subseteq {"RemoveSubscription", "StopTrackingAdditionalTitles"}
        BY <1>3, NullRemovedType DEF Destroy, Types
    <2>3. rta' \subseteq rta
        BY <1>3 DEF Destroy
    <2>4. /\ status' = "destroyed" /\ tracked' = {} /\ deviceHandlers' = {}
          /\ titleHandlers' = {} /\ resyncs' = {}
          /\ UNCHANGED <<titleKeys, trackedTitles, nextToken, updates>>
        BY <1>3 DEF Destroy
    <2>5. Types'
        BY <2>1, <2>2, <2>3, <2>4 DEF Types
    <2> QED
        BY <2>1, <2>4, <2>5 DEF CountsLive
<1> QED
    BY <1>1, <1>2, <1>3

\* The counts of titles live as those of users do.
LEMMA TitlesStayLive ==
    ASSUME Types, TitlesLive, [Next]_vars
    PROVE  TitlesLive'
<1> USE DEF titleVars, failVars
<1>1. ASSUME UNCHANGED <<titleKeys, trackedTitles, unstoppedTitles>>,
             failedAsserts' = {} => failedAsserts = {}
      PROVE  TitlesLive'
    BY <1>1 DEF TitlesLive
<1>2. CASE UNCHANGED vars
    BY <1>1, <1>2 DEF vars
<1>3. CASE AddTitlePresenceChangedHandler \/ AddDevicePresenceChangedHandler
    BY <1>1, <1>3 DEF AddTitlePresenceChangedHandler, AddDevicePresenceChangedHandler
<1>4. ASSUME NEW token \in Tokens,
             RemoveTitlePresenceChangedHandler(token) \/ RemoveDevicePresenceChangedHandler(token)
      PROVE  TitlesLive'
    BY <1>1, <1>4 DEF RemoveTitlePresenceChangedHandler, RemoveDevicePresenceChangedHandler
<1>5. ASSUME NEW x \in Users, TrackUser(x) \/ TrackUserFails(x) \/ StopTrackingUser(x)
      PROVE  TitlesLive'
    BY <1>1, <1>5 DEF TrackUser, TrackUserFails, StopTrackingUser
<1>6. ASSUME NEW t \in Titles, TrackAdditionalTitle(t) \/ TrackAdditionalTitleFails(t)
      PROVE  TitlesLive'
    <2>1. UNCHANGED <<unstoppedTitles, failedAsserts>>
        BY <1>6 DEF TrackAdditionalTitle, TrackAdditionalTitleFails
    <2>2. CASE titleKeys' = titleKeys \union {t} /\ trackedTitles' = [trackedTitles EXCEPT ![t] = 1]
        <3>1. 1 \in InUse
            BY LimitsAssumption DEF InUse
        <3> QED
            BY <2>1, <2>2, <3>1 DEF TitlesLive, Types
    <2>3. CASE /\ t \in titleKeys /\ trackedTitles[t] # CountRange - 2 /\ UNCHANGED titleKeys
               /\ trackedTitles' = [trackedTitles EXCEPT ![t] = Incremented(@)]
        <3>1. trackedTitles[t] \in InUse => trackedTitles'[t] \in InUse
            BY <2>3, IncrementedType DEF Types
        <3> QED
            BY <2>1, <2>3, <3>1 DEF TitlesLive, Types
    <2> QED
        BY <1>6, <2>2, <2>3 DEF TrackAdditionalTitle, TrackAdditionalTitleFails
<1>7. ASSUME NEW t \in Titles, StopTrackingAdditionalTitle(t)
      PROVE  TitlesLive'
    <2> DEFINE count == Decremented(trackedTitles[t])
    <2>1. t \in titleKeys /\ trackedTitles' = [trackedTitles EXCEPT ![t] = count]
        BY <1>7 DEF StopTrackingAdditionalTitle
    <2>2. trackedTitles[t] \in InUse => count = 0 \/ count \in InUse
        BY DecrementedInUse
    <2>3. failedAsserts' = {} =>
             \/ count # 0 /\ UNCHANGED <<titleKeys, unstoppedTitles, failedAsserts>>
             \/ /\ count = 0 /\ titleKeys' = titleKeys \ {t}
                /\ unstoppedTitles' = unstoppedTitles \ {t} /\ UNCHANGED failedAsserts
             \/ /\ unstoppedTitles' = unstoppedTitles \union {t}
                /\ UNCHANGED <<titleKeys, failedAsserts>>
        BY <1>7 DEF StopTrackingAdditionalTitle
    <2> HIDE DEF count
    <2> QED
        BY <2>1, <2>2, <2>3 DEF TitlesLive, Types
<1>8. CASE HandleRTAResync
    BY <1>1, <1>8 DEF HandleRTAResync
<1>9. ASSUME NEW asked \in resyncs, PresenceResult(asked)
      PROVE  TitlesLive'
    BY <1>1, <1>9 DEF PresenceResult
<1>10. CASE Destroy
    BY <1>1, <1>10 DEF Destroy
<1> QED
    BY <1>2, <1>3, <1>4, <1>5, <1>6, <1>7, <1>8, <1>9, <1>10 DEF Next

\* A user or a title is remembered as failed only while it has an entry.
LEMMA HistoriesTyped ==
    ASSUME Types, Histories, [Next]_vars
    PROVE  Histories'
<1> USE LimitsAssumption DEF titleVars, failVars
<1>1. ASSUME tracked \subseteq tracked', titleKeys \subseteq titleKeys',
             UNCHANGED <<leaked, unheard, unstopped, unstoppedTitles, failures>>
      PROVE  Histories'
    BY <1>1 DEF Histories
<1>2. MayFail => failures + 1 \in 0..MaxFailures
    BY DEF MayFail, Histories
<1>3. CASE UNCHANGED vars
    BY <1>1, <1>3 DEF vars
<1>4. CASE AddTitlePresenceChangedHandler
    BY <1>1, <1>4 DEF AddTitlePresenceChangedHandler
<1>5. CASE AddDevicePresenceChangedHandler
    <2>1. UNCHANGED <<tracked, titleKeys, leaked, unstopped, unstoppedTitles>>
        BY <1>5 DEF AddDevicePresenceChangedHandler
    <2>2. unheard' \subseteq tracked /\ failures' \in 0..MaxFailures
        BY <1>2, <1>5 DEF AddDevicePresenceChangedHandler, Failures, Histories
    <2> QED
        BY <2>1, <2>2 DEF Histories
<1>6. ASSUME NEW token \in Tokens,
             RemoveTitlePresenceChangedHandler(token) \/ RemoveDevicePresenceChangedHandler(token)
      PROVE  Histories'
    BY <1>1, <1>6 DEF RemoveTitlePresenceChangedHandler, RemoveDevicePresenceChangedHandler
<1>7. ASSUME NEW x \in Users, TrackUser(x)
      PROVE  Histories'
    BY <1>1, <1>7 DEF TrackUser
<1>8. ASSUME NEW x \in Users, TrackUserFails(x)
      PROVE  Histories'
    <2>1. Wanted(x) \subseteq Topics
        BY DEF Wanted, Topics, Types
    <2> QED
        BY <1>2, <1>8, <2>1 DEF TrackUserFails, Histories
<1>9. ASSUME NEW x \in Users, StopTrackingUser(x)
      PROVE  Histories'
    <2>1. x \in tracked /\ UNCHANGED <<titleKeys, leaked, unstoppedTitles>>
        BY <1>9 DEF StopTrackingUser
    <2>2. \/ UNCHANGED <<tracked, unheard, unstopped, failures>>
          \/ /\ tracked' = Erased(x) /\ UNCHANGED failures
             /\ unheard' = unheard \ {x} /\ unstopped' = unstopped \ {x}
          \/ /\ MayFail /\ failures' = failures + 1 /\ UNCHANGED tracked
             /\ unheard' \in {unheard, unheard \union {x}}
             /\ unstopped' = unstopped \union {x}
        BY <1>9 DEF StopTrackingUser
    <2> QED
        BY <1>2, <2>1, <2>2 DEF Histories, Erased
<1>10. ASSUME NEW t \in Titles, TrackAdditionalTitle(t) \/ TrackAdditionalTitleFails(t)
      PROVE  Histories'
    <2>1. /\ titleKeys \subseteq titleKeys'
          /\ UNCHANGED <<tracked, leaked, unheard, unstopped, unstoppedTitles>>
        BY <1>10 DEF TrackAdditionalTitle, TrackAdditionalTitleFails
    <2>2. failures' \in 0..MaxFailures
        BY <1>2, <1>10 DEF TrackAdditionalTitle, TrackAdditionalTitleFails, Histories
    <2> QED
        BY <2>1, <2>2 DEF Histories
<1>11. ASSUME NEW t \in Titles, StopTrackingAdditionalTitle(t)
      PROVE  Histories'
    <2>1. t \in titleKeys /\ UNCHANGED <<tracked, leaked, unheard, unstopped>>
        BY <1>11 DEF StopTrackingAdditionalTitle
    <2>2. \/ UNCHANGED <<titleKeys, unstoppedTitles, failures>>
          \/ /\ titleKeys' = titleKeys \ {t} /\ unstoppedTitles' = unstoppedTitles \ {t}
             /\ UNCHANGED failures
          \/ /\ MayFail /\ failures' = failures + 1
             /\ unstoppedTitles' = unstoppedTitles \union {t} /\ UNCHANGED titleKeys
        BY <1>11 DEF StopTrackingAdditionalTitle
    <2> QED
        BY <1>2, <2>1, <2>2 DEF Histories
<1>12. CASE HandleRTAResync
    BY <1>1, <1>12 DEF HandleRTAResync
<1>13. ASSUME NEW asked \in resyncs, PresenceResult(asked)
      PROVE  Histories'
    BY <1>1, <1>13 DEF PresenceResult
<1>14. CASE Destroy
    BY <1>14 DEF Destroy, Histories
<1> QED
    BY <1>3, <1>4, <1>5, <1>6, <1>7, <1>8, <1>9, <1>10, <1>11, <1>12, <1>13, <1>14 DEF Next

\* The types hold at all times.
LEMMA TypedHolds == Spec => [](TypeInv /\ TitlesLive /\ Histories)
<1>1. Init => TypeInv /\ TitlesLive /\ Histories
    <2> SUFFICES ASSUME Init PROVE TypeInv /\ TitlesLive /\ Histories
        OBVIOUS
    <2>1. NoSubs \in TrackedXuidSubscriptions /\ NoSubs.refCount = 0
        BY LimitsAssumption DEF NoSubs, TrackedXuidSubscriptions, Pointer
    <2>2. /\ 0 \in Counts /\ 1 \in Counts /\ 1 \in 1..(MaxTokens + 1) /\ 1 \in InUse
          /\ 0 \in 0..MaxFailures
        BY LimitsAssumption DEF Counts, InUse
    <2>3. TypeInv
        BY <2>1, <2>2, TitleAssumption DEF Init, TypeInv, Types, CountsLive
    <2>4. TitlesLive /\ Histories
        BY <2>2 DEF Init, TitlesLive, Histories
    <2> QED
        BY <2>3, <2>4
<1>2. TypeInv /\ [Next]_vars => TypeInv'
    <2> SUFFICES ASSUME TypeInv, [Next]_vars PROVE TypeInv'
        OBVIOUS
    <2>1. CASE UNCHANGED vars
        BY <2>1 DEF vars, handlerVars, resyncVars, titleVars, failVars, TypeInv, Types, CountsLive
    <2>2. CASE Next
        BY <2>2, HandlersTyped, UsersTyped, TitlesTyped, OthersTyped DEF Next
    <2> QED
        BY <2>1, <2>2
<1>3. TypeInv /\ TitlesLive /\ [Next]_vars => TitlesLive'
    BY TitlesStayLive DEF TypeInv
<1>4. TypeInv /\ Histories /\ [Next]_vars => Histories'
    BY HistoriesTyped DEF TypeInv
<1> QED
    BY <1>1, <1>2, <1>3, <1>4, PTL DEF Spec

\* Every member keeps its type, and until an assert fails users and titles have
\* an entry exactly while their count says so, but for those for which a
\* StopTracking call has failed: for any number of handlers, of failures, and any
\* range of counts.
THEOREM PresenceTypeCorrect == Spec => []TypeOK
<1>1. TypeInv /\ TitlesLive /\ Histories => TypeOK
    <2> SUFFICES ASSUME TypeInv, TitlesLive, Histories PROVE TypeOK
        OBVIOUS
    <2>1. \A n \in InUse : n > 0
        BY LimitsAssumption DEF InUse
    <2>2. failedAsserts = {} =>
            /\ \A x \in Users \ unstopped : x \in tracked <=> xuids[x].refCount > 0
            /\ \A t \in Titles \ unstoppedTitles : t \in titleKeys <=> trackedTitles[t] > 0
        BY <2>1 DEF TypeInv, CountsLive, TitlesLive
    <2> QED
        BY <2>2 DEF TypeInv, Types, Histories, TypeOK, Counts
<1> QED
    BY <1>1, TypedHolds, PTL

-----------------------------------------------------------------------------
(* What the RTA manager holds is still wanted. *)

\* Devices are no title, so that no subscription is of both kinds.
LEMMA DevicesAreNoTitle == Devices \notin Titles
BY TitleAssumption DEF Devices

\* A step that adds nothing for a user, and takes no entry of the user away that
\* something is held for, keeps the user's entries.
LEMMA HandlersKeepEntries ==
    ASSUME Types, HeldHasEntry,
           \/ AddTitlePresenceChangedHandler \/ AddDevicePresenceChangedHandler
           \/ \E token \in Tokens : \/ RemoveTitlePresenceChangedHandler(token)
                                    \/ RemoveDevicePresenceChangedHandler(token)
    PROVE  HeldHasEntry'
<1> SUFFICES ASSUME failedAsserts' = {}, NEW x \in Users, NEW d \in Titles \union {Devices},
                    <<x, d>> \in rta'
             PROVE  EntryFor(x, d)'
    BY DEF HeldHasEntry
<1> USE DEF handlerVars, resyncVars, titleVars, failVars
<1>1. failedAsserts = {} /\ UNCHANGED <<tracked, titleKeys>>
    BY DEF AddTitlePresenceChangedHandler, AddDevicePresenceChangedHandler,
           RemoveTitlePresenceChangedHandler, RemoveDevicePresenceChangedHandler
<1>2. <<x, d>> \in rta => EntryFor(x, d)
    BY <1>1 DEF HeldHasEntry
<1>4. CASE AddTitlePresenceChangedHandler
    BY <1>1, <1>2, <1>4 DEF AddTitlePresenceChangedHandler, EntryFor
<1>5. CASE AddDevicePresenceChangedHandler
    <2>1. deviceHandlers' # {} /\ UNCHANGED titleHandlers
        BY <1>5 DEF AddDevicePresenceChangedHandler
    <2>2. CASE UNCHANGED <<xuids, rta>>
        BY <1>1, <1>2, <2>1, <2>2 DEF EntryFor
    <2>3. ASSUME NEW failed \in SUBSET tracked, NEW held \in SUBSET failed,
                 xuids' = [y \in Users |-> IF y \in tracked THEN [xuids[y] EXCEPT !.device = "sub"]
                                                            ELSE xuids[y]],
                 rta' = rta \union (((tracked \ failed) \union held) \X {Devices})
          PROVE  EntryFor(x, d)'
        <3>1. x \in tracked
            BY <1>2, <2>3 DEF EntryFor
        <3>2. xuids'[x] = [xuids[x] EXCEPT !.device = "sub"]
            BY <2>3, <3>1
        <3>3. xuids'[x].device = "sub" /\ xuids'[x].titles = xuids[x].titles
            BY <3>2, EntryFields
        <3>4. d \in Titles => <<x, d>> \in rta
            BY <2>3, DevicesAreNoTitle
        <3> QED
            BY <1>1, <1>2, <2>1, <3>1, <3>3, <3>4 DEF EntryFor
    <2> QED
        BY <1>5, <2>2, <2>3 DEF AddDevicePresenceChangedHandler, Failures
<1>6. ASSUME NEW token \in Tokens, RemoveTitlePresenceChangedHandler(token)
      PROVE  EntryFor(x, d)'
    <2>1. UNCHANGED deviceHandlers
        BY <1>6 DEF RemoveTitlePresenceChangedHandler
    <2>2. CASE titleHandlers' # {} /\ UNCHANGED <<xuids, rta>>
        BY <1>1, <1>2, <2>1, <2>2 DEF EntryFor
    <2>3. CASE /\ rta' = rta \ TitleSubs
               /\ xuids' = [y \in Users |-> [xuids[y] EXCEPT !.titles =
                      [t \in Titles |-> IF @[t] = "absent" THEN "absent" ELSE "null"]]]
        <3>1. EntryFor(x, d) /\ <<x, d>> \notin TitleSubs
            BY <1>2, <2>3
        <3>2. d \notin Titles
            BY <3>1 DEF EntryFor, TitleSubs
        <3>3. xuids'[x].device = xuids[x].device
            BY <2>3, EntryFields
        <3> QED
            BY <1>1, <2>1, <3>1, <3>2, <3>3 DEF EntryFor
    <2> QED
        BY <1>6, <2>2, <2>3 DEF RemoveTitlePresenceChangedHandler
<1>7. ASSUME NEW token \in Tokens, RemoveDevicePresenceChangedHandler(token)
      PROVE  EntryFor(x, d)'
    <2>1. UNCHANGED titleHandlers
        BY <1>7 DEF RemoveDevicePresenceChangedHandler
    <2>2. CASE deviceHandlers' # {} /\ UNCHANGED <<xuids, rta>>
        BY <1>1, <1>2, <2>1, <2>2 DEF EntryFor
    <2>3. CASE /\ rta' = rta \ {<<y, Devices>> : y \in {z \in tracked : xuids[z].device = "sub"}}
               /\ xuids' = [y \in Users |-> [xuids[y] EXCEPT !.device = "null"]]
        <3>1. EntryFor(x, d)
            BY <1>2, <2>3
        <3>2. d # Devices
            BY <2>3, <3>1 DEF EntryFor
        <3>3. xuids'[x].titles = xuids[x].titles
            BY <2>3, EntryFields
        <3> QED
            BY <1>1, <2>1, <3>1, <3>2, <3>3 DEF EntryFor
    <2> QED
        BY <1>7, <2>2, <2>3 DEF RemoveDevicePresenceChangedHandler
<1> QED
    BY <1>4, <1>5, <1>6, <1>7

\* The operations on a user make the entries with what they add, and erase them
\* with what they remove.
LEMMA UsersKeepEntries ==
    ASSUME Types, HeldHasEntry, NEW u \in Users,
           TrackUser(u) \/ TrackUserFails(u) \/ StopTrackingUser(u)
    PROVE  HeldHasEntry'
<1> SUFFICES ASSUME failedAsserts' = {}, NEW x \in Users, NEW d \in Titles \union {Devices},
                    <<x, d>> \in rta'
             PROVE  EntryFor(x, d)'
    BY DEF HeldHasEntry
<1> USE DEF handlerVars, resyncVars, titleVars, failVars
<1>1. failedAsserts = {} /\ UNCHANGED <<deviceHandlers, titleHandlers, titleKeys>>
    BY DEF TrackUser, TrackUserFails, StopTrackingUser
<1>2. <<x, d>> \in rta => EntryFor(x, d)
    BY <1>1 DEF HeldHasEntry
<1>4. CASE TrackUser(u)
    <2>1. CASE u \notin tracked
        <3>1. /\ tracked' = tracked \union {u} /\ xuids' = [xuids EXCEPT ![u] = NewSubs]
              /\ rta' = rta \union Wanted(u)
            BY <1>4, <2>1 DEF TrackUser
        <3>2. CASE <<x, d>> \in rta
            <4>1. x # u
                BY <1>2, <2>1, <3>2 DEF EntryFor
            <4> QED
                BY <1>1, <1>2, <3>1, <3>2, <4>1 DEF EntryFor, Types
        <3>3. CASE <<x, d>> \in Wanted(u)
            <4>1. /\ x = u /\ (d = Devices => deviceHandlers # {})
                  /\ d \in Titles => titleHandlers # {} /\ d \in titleKeys
                <5>1. CASE deviceHandlers # {} /\ <<x, d>> = <<u, Devices>>
                    BY <5>1, DevicesAreNoTitle
                <5>2. CASE titleHandlers # {} /\ <<x, d>> \in {u} \X titleKeys
                    <6>1. x = u /\ d \in titleKeys /\ d \in Titles
                        BY <5>2 DEF Types
                    <6> QED
                        BY <5>2, <6>1, DevicesAreNoTitle
                <5> QED
                    BY <3>3, <5>1, <5>2 DEF Wanted
            <4>2. xuids'[u] = NewSubs
                BY <3>1 DEF Types
            <4> QED
                BY <1>1, <3>1, <4>1, <4>2 DEF EntryFor, NewSubs
        <3> QED
            BY <3>1, <3>2, <3>3
    <2>2. CASE u \in tracked
        <3>1. xuids' = [xuids EXCEPT ![u].refCount = Incremented(@)] /\ UNCHANGED <<tracked, rta>>
            BY <1>4, <2>2 DEF TrackUser
        <3>2. xuids'[x].device = xuids[x].device /\ xuids'[x].titles = xuids[x].titles
            BY <3>1 DEF Types, TrackedXuidSubscriptions
        <3> QED
            BY <1>1, <1>2, <3>1, <3>2 DEF EntryFor
    <2> QED
        BY <2>1, <2>2
<1>5. CASE TrackUserFails(u)
    BY <1>1, <1>2, <1>5 DEF TrackUserFails, EntryFor
<1>6. CASE StopTrackingUser(u)
    <2> DEFINE device == IF deviceHandlers # {} THEN {<<u, Devices>>} ELSE {}
               titles == IF titleHandlers # {} THEN {u} \X (Keys(u) \ NullKeys(u)) ELSE {}
    <2>1. ASSUME NEW n, xuids' = [xuids EXCEPT ![u].refCount = n], UNCHANGED tracked,
                 rta' \subseteq rta
          PROVE  EntryFor(x, d)'
        <3>1. xuids'[x].device = xuids[x].device /\ xuids'[x].titles = xuids[x].titles
            BY <2>1 DEF Types, TrackedXuidSubscriptions
        <3> QED
            BY <1>1, <1>2, <2>1, <3>1 DEF EntryFor
    <2>2. CASE /\ rta' = rta \ (device \union titles) /\ tracked' = Erased(u)
               /\ xuids' = [xuids EXCEPT ![u] = NoSubs]
        <3>1. <<x, d>> \in rta /\ <<x, d>> \notin device /\ <<x, d>> \notin titles
            BY <2>2
        <3>2. EntryFor(x, d)
            BY <1>2, <3>1
        <3>3. x # u
            <4> SUFFICES ASSUME x = u PROVE FALSE
                OBVIOUS
            <4>1. d = Devices => <<x, d>> \in device
                BY <3>2 DEF EntryFor
            <4>2. d \in Titles => titleHandlers # {} /\ d \in Keys(u) \ NullKeys(u)
                BY <3>2 DEF EntryFor, Keys, NullKeys
            <4>3. d \in Titles => <<x, d>> \in titles
                BY <4>2
            <4> QED
                BY <3>1, <4>1, <4>3
        <3>4. x \in tracked' /\ xuids'[x] = xuids[x]
            BY <2>2, <3>2, <3>3 DEF EntryFor, Erased, Types
        <3> QED
            BY <1>1, <3>2, <3>4 DEF EntryFor
    <2> QED
        BY <1>6, <2>1, <2>2 DEF StopTrackingUser
<1> QED
    BY <1>4, <1>5, <1>6

\* So do the operations on a title.
LEMMA TitlesKeepEntries ==
    ASSUME Types, HeldHasEntry, NEW t \in Titles,
           \/ TrackAdditionalTitle(t) \/ TrackAdditionalTitleFails(t)
           \/ StopTrackingAdditionalTitle(t)
    PROVE  HeldHasEntry'
<1> SUFFICES ASSUME failedAsserts' = {}, NEW x \in Users, NEW d \in Titles \union {Devices},
                    <<x, d>> \in rta'
             PROVE  EntryFor(x, d)'
    BY DEF HeldHasEntry
<1> USE DEF handlerVars, resyncVars, titleVars, failVars
<1>1. failedAsserts = {} /\ UNCHANGED <<deviceHandlers, titleHandlers, tracked>>
    BY DEF TrackAdditionalTitle, TrackAdditionalTitleFails, StopTrackingAdditionalTitle
<1>2. <<x, d>> \in rta => EntryFor(x, d)
    BY <1>1 DEF HeldHasEntry
<1>3. ASSUME NEW p
      PROVE  /\ [xuids[x] EXCEPT !.titles[t] = p].device = xuids[x].device
             /\ [xuids[x] EXCEPT !.titles[t] = p].titles = [xuids[x].titles EXCEPT ![t] = p]
             /\ xuids[x].titles \in [Titles -> Pointer]
    BY DEF Types, TrackedXuidSubscriptions
<1>4. ASSUME titleKeys' \in {titleKeys, titleKeys \union {t}}, t \in titleKeys',
             \/ xuids'[x] = xuids[x] /\ <<x, d>> \in rta
             \/ /\ xuids'[x] = [xuids[x] EXCEPT !.titles[t] = "sub"]
                /\ <<x, d>> \in rta \/ (d = t /\ x \in tracked /\ titleHandlers # {})
      PROVE  EntryFor(x, d)'
    <2>1. titleKeys \subseteq titleKeys'
        BY <1>4
    <2>2. CASE xuids'[x] = xuids[x] /\ <<x, d>> \in rta
        BY <1>1, <1>2, <2>1, <2>2 DEF EntryFor
    <2>3. CASE xuids'[x] = [xuids[x] EXCEPT !.titles[t] = "sub"]
        <3>1. xuids'[x].device = xuids[x].device
            BY <1>3, <2>3
        <3>2. \A o \in Titles : xuids'[x].titles[o] = IF o = t THEN "sub" ELSE xuids[x].titles[o]
            BY <1>3, <2>3
        <3>3. CASE <<x, d>> \in rta
            BY <1>1, <1>2, <2>1, <3>1, <3>2, <3>3 DEF EntryFor
        <3>4. CASE d = t /\ x \in tracked /\ titleHandlers # {}
            <4>1. d \in titleKeys' /\ d # Devices
                BY <1>4, <3>4, DevicesAreNoTitle
            <4> QED
                BY <1>1, <3>2, <3>4, <4>1 DEF EntryFor
        <3> QED
            BY <1>4, <2>2, <2>3, <3>3, <3>4
    <2> QED
        BY <1>4, <2>2, <2>3
<1>5. CASE TrackAdditionalTitle(t)
    <2>1. titleKeys' \in {titleKeys, titleKeys \union {t}} /\ t \in titleKeys'
        BY <1>5 DEF TrackAdditionalTitle
    <2>2. CASE UNCHANGED <<xuids, rta>>
        BY <1>4, <2>1, <2>2
    <2>3. CASE /\ titleHandlers # {}
               /\ xuids' = [y \in Users |-> IF y \in tracked THEN [xuids[y] EXCEPT !.titles[t] = "sub"]
                                                             ELSE xuids[y]]
               /\ rta' = rta \union (tracked \X {t})
        <3>1. <<x, d>> \in rta \/ (d = t /\ x \in tracked)
            BY <2>3
        <3>2. xuids'[x] = IF x \in tracked THEN [xuids[x] EXCEPT !.titles[t] = "sub"] ELSE xuids[x]
            BY <2>3
        <3> QED
            BY <1>4, <2>1, <2>3, <3>1, <3>2
    <2> QED
        BY <1>5, <2>2, <2>3 DEF TrackAdditionalTitle
<1>6. CASE TrackAdditionalTitleFails(t)
    <2> DEFINE Added(z, before, held) ==
            /\ xuids' = [y \in Users |-> IF y \in before \union {z}
                                         THEN [xuids[y] EXCEPT !.titles[t] = "sub"] ELSE xuids[y]]
            /\ rta' = rta \union ((before \union held) \X {t})
    <2>5. PICK z \in tracked :
            \E before \in SUBSET (tracked \ {z}), held \in SUBSET {z} : Added(z, before, held)
        BY <1>6 DEF TrackAdditionalTitleFails
    <2>1. PICK before \in SUBSET (tracked \ {z}), held \in SUBSET {z} : Added(z, before, held)
        BY <2>5
    <2>2. titleKeys' = titleKeys \union {t} /\ titleHandlers # {}
        BY <1>6 DEF TrackAdditionalTitleFails
    <2>3. <<x, d>> \in rta \/ (d = t /\ x \in before \union {z})
        BY <2>1
    <2>4. xuids'[x] = IF x \in before \union {z} THEN [xuids[x] EXCEPT !.titles[t] = "sub"]
                                               ELSE xuids[x]
        BY <2>1
    <2> QED
        BY <1>4, <2>2, <2>3, <2>4
<1>7. CASE StopTrackingAdditionalTitle(t)
    <2>1. CASE UNCHANGED <<titleKeys, xuids, rta>>
        BY <1>1, <1>2, <2>1 DEF EntryFor
    <2>2. ASSUME NEW users, titleKeys \ {t} \subseteq titleKeys',
                 rta' \subseteq rta, x \in users => <<x, t>> \notin rta',
                 t \in titleKeys' \/ <<x, t>> \notin rta',
                 xuids' = [y \in Users |-> IF y \in users THEN [xuids[y] EXCEPT !.titles[t] = "absent"]
                                                          ELSE xuids[y]]
          PROVE  EntryFor(x, d)'
        <3>1. EntryFor(x, d) /\ (d = t => x \notin users /\ t \in titleKeys')
            BY <1>2, <2>2
        <3>2. /\ xuids'[x].device = xuids[x].device
              /\ d \in Titles => xuids'[x].titles[d] = xuids[x].titles[d]
            BY <1>3, <2>2, <3>1
        <3> QED
            BY <1>1, <2>2, <3>1, <3>2 DEF EntryFor
    <2>3. CASE /\ titleKeys' = titleKeys \ {t} /\ rta' = rta \ TitleTopics(t)
               /\ xuids' = [y \in Users |-> IF y \in Users
                                            THEN [xuids[y] EXCEPT !.titles[t] = "absent"]
                                            ELSE xuids[y]]
        <3>1. <<x, t>> \notin rta'
            <4> SUFFICES ASSUME <<x, t>> \in rta, <<x, t>> \notin TitleTopics(t) PROVE FALSE
                BY <2>3
            <4>1. EntryFor(x, t)
                BY <1>1 DEF HeldHasEntry
            <4> QED
                BY <4>1 DEF EntryFor, TitleTopics
        <3>2. rta' \subseteq rta /\ titleKeys \ {t} \subseteq titleKeys'
            BY <2>3
        <3> QED
            BY <2>2, <2>3, <3>1, <3>2
    <2>4. CASE /\ UNCHANGED titleKeys
               /\ \E last \in tracked, before \in SUBSET tracked :
                     /\ rta' = rta \ ((before \union {last}) \X {t})
                     /\ xuids' = [y \in Users |-> IF y \in before
                                                  THEN [xuids[y] EXCEPT !.titles[t] = "absent"]
                                                  ELSE xuids[y]]
        <3>1. t \in titleKeys
            BY <1>7 DEF StopTrackingAdditionalTitle
        <3>2. PICK last \in tracked, before \in SUBSET tracked :
                     /\ rta' = rta \ ((before \union {last}) \X {t})
                     /\ xuids' = [y \in Users |-> IF y \in before
                                                  THEN [xuids[y] EXCEPT !.titles[t] = "absent"]
                                                  ELSE xuids[y]]
            BY <2>4
        <3>3. rta' \subseteq rta /\ (x \in before => <<x, t>> \notin rta')
            BY <3>2
        <3> QED
            BY <2>2, <2>4, <3>1, <3>2, <3>3
    <2>5. CASE failedAsserts' \in {failedAsserts \union {"StopTrackingAdditionalTitles"},
                                   failedAsserts \union {"RemoveSubscription"}}
        BY <2>5
    <2> QED
        BY <1>7, <2>1, <2>3, <2>4, <2>5 DEF StopTrackingAdditionalTitle
<1> QED
    BY <1>5, <1>6, <1>7

\* Whatever is held has its entry, at all times.
LEMMA EntriesHold == Spec => []HeldHasEntry
<1>1. Init => HeldHasEntry
    BY DEF Init, HeldHasEntry
<1>2. TypeInv /\ HeldHasEntry /\ [Next]_vars => HeldHasEntry'
    <2> SUFFICES ASSUME TypeInv, HeldHasEntry, [Next]_vars PROVE HeldHasEntry'
        OBVIOUS
    <2> USE DEF TypeInv, handlerVars, resyncVars, titleVars, failVars
    <2>1. ASSUME UNCHANGED <<tracked, xuids, titleKeys, deviceHandlers, titleHandlers, rta,
                             failedAsserts>>
          PROVE  HeldHasEntry'
        BY <2>1 DEF HeldHasEntry, EntryFor
    <2>2. CASE UNCHANGED vars
        BY <2>1, <2>2 DEF vars
    <2>3. CASE HandleRTAResync
        BY <2>1, <2>3 DEF HandleRTAResync
    <2>4. ASSUME NEW asked \in resyncs, PresenceResult(asked)
          PROVE  HeldHasEntry'
        BY <2>1, <2>4 DEF PresenceResult
    <2>5. CASE Destroy
        <3> SUFFICES ASSUME failedAsserts' = {}, NEW x \in Users,
                            NEW d \in Titles \union {Devices}, <<x, d>> \in rta'
                     PROVE  FALSE
            BY DEF HeldHasEntry
        <3>1. /\ failedAsserts = {} /\ <<x, d>> \in rta
              /\ deviceHandlers # {} /\ x \in tracked => d # Devices
              /\ titleHandlers # {} => <<x, d>> \notin TitleSubs
            BY <2>5 DEF Destroy
        <3>2. EntryFor(x, d)
            BY <3>1 DEF HeldHasEntry
        <3>3. d \in Titles
            BY <3>1, <3>2 DEF EntryFor
        <3>4. <<x, d>> \in TitleSubs /\ titleHandlers # {}
            BY <3>2, <3>3 DEF EntryFor, TitleSubs
        <3> QED
            BY <3>1, <3>4
    <2> QED
        BY <2>2, <2>3, <2>4, <2>5, HandlersKeepEntries, UsersKeepEntries, TitlesKeepEntries DEF Next
<1> QED
    BY <1>1, <1>2, TypedHolds, PTL DEF Spec

\* Until an assert fails the RTA manager holds a subscription only while the user
\* has an entry, the title a key and a handler wants it, in whatever order users,
\* titles and handlers come and go and calls fail; but for what a failed TrackUsers
\* has left with it.
THEOREM RegisteredAlwaysTracked == Spec => []RegisteredIsTracked
<1>1. TypeInv /\ HeldHasEntry => RegisteredIsTracked
    <2> SUFFICES ASSUME Types, HeldHasEntry, failedAsserts = {},
                        NEW topic \in rta
                 PROVE  /\ topic[1] \in tracked
                        /\ \/ topic[2] = Devices /\ deviceHandlers # {}
                           \/ topic[2] \in titleKeys /\ titleHandlers # {}
        BY DEF TypeInv, RegisteredIsTracked
    <2>1. /\ topic[1] \in Users /\ topic[2] \in Titles \union {Devices}
          /\ topic = <<topic[1], topic[2]>>
        BY DEF Types, Topics
    <2>2. EntryFor(topic[1], topic[2])
        BY <2>1 DEF HeldHasEntry
    <2> QED
        BY <2>1, <2>2 DEF EntryFor
<1> QED
    BY <1>1, TypedHolds, EntriesHold, PTL

\* A user's devices stay watched while there are handlers for them and no call for
\* that subscription fails.
THEOREM DevicesAlwaysWatched == Spec => []DevicesWatched
<1>1. Init => DevicesWatched
    BY DEF Init, DevicesWatched
<1>2. TypeInv /\ DevicesWatched /\ [Next]_vars => DevicesWatched'
    <2> SUFFICES ASSUME Types, DevicesWatched, [Next]_vars,
                        failedAsserts' = {}, deviceHandlers' # {},
                        NEW x \in Users, x \in tracked', x \notin unheard'
                 PROVE  <<x, Devices>> \in rta'
        <3>1. ASSUME TypeInv, [Next]_vars PROVE tracked' \subseteq Users
            BY <3>1, HandlersTyped, UsersTyped, TitlesTyped, OthersTyped
               DEF Next, vars, TypeInv, Types
        <3> QED
            BY <3>1 DEF TypeInv, DevicesWatched
    <2> USE DEF handlerVars, resyncVars, titleVars, failVars
    <2>1. ASSUME deviceHandlers # {}, failedAsserts = {}, x \in tracked, x \notin unheard,
                 <<x, Devices>> \in rta => <<x, Devices>> \in rta'
          PROVE  <<x, Devices>> \in rta'
        BY <2>1 DEF DevicesWatched
    <2>2. CASE UNCHANGED vars
        BY <2>1, <2>2 DEF vars
    <2>3. CASE AddTitlePresenceChangedHandler
        BY <2>1, <2>3 DEF AddTitlePresenceChangedHandler
    <2>4. CASE AddDevicePresenceChangedHandler
        BY <2>1, <2>4 DEF AddDevicePresenceChangedHandler, NeedsDeviceSubs
    <2>5. ASSUME NEW token \in Tokens, RemoveTitlePresenceChangedHandler(token)
          PROVE  <<x, Devices>> \in rta'
        <3>1. <<x, Devices>> \notin TitleSubs
            BY DevicesAreNoTitle DEF TitleSubs
        <3> QED
            BY <2>1, <2>5, <3>1 DEF RemoveTitlePresenceChangedHandler
    <2>6. ASSUME NEW token \in Tokens, RemoveDevicePresenceChangedHandler(token)
          PROVE  <<x, Devices>> \in rta'
        BY <2>1, <2>6 DEF RemoveDevicePresenceChangedHandler
    <2>7. ASSUME NEW u \in Users, TrackUser(u)
          PROVE  <<x, Devices>> \in rta'
        BY <2>1, <2>7 DEF TrackUser, Wanted
    <2>8. ASSUME NEW u \in Users, TrackUserFails(u)
          PROVE  <<x, Devices>> \in rta'
        BY <2>1, <2>8 DEF TrackUserFails
    <2>9. ASSUME NEW u \in Users, StopTrackingUser(u)
          PROVE  <<x, Devices>> \in rta'
        <3>1. UNCHANGED deviceHandlers
            BY <2>9 DEF StopTrackingUser
        <3>2. x # u /\ <<x, Devices>> \in rta => <<x, Devices>> \in rta'
            <4> DEFINE device == IF deviceHandlers # {} THEN {<<u, Devices>>} ELSE {}
                       titles == IF titleHandlers # {} THEN {u} \X (Keys(u) \ NullKeys(u)) ELSE {}
            <4>1. x # u => <<x, Devices>> \notin device /\ <<x, Devices>> \notin titles
                OBVIOUS
            <4>2. rta \ (device \union titles) \subseteq rta'
                <5>1. CASE UNCHANGED rta
                    BY <5>1
                <5>2. ASSUME NEW gone \in SUBSET titles, rta' = rta \ (device \union gone)
                      PROVE  rta \ (device \union titles) \subseteq rta'
                    BY <5>2
                <5>3. ASSUME NEW last \in device \union titles, NEW gone \in SUBSET titles,
                             rta' = rta \ (device \union gone \union {last})
                      PROVE  rta \ (device \union titles) \subseteq rta'
                    BY <5>3
                <5>4. CASE rta' = rta \ (device \union titles)
                    BY <5>4
                <5> QED
                    BY <2>9, <5>1, <5>2, <5>3, <5>4 DEF StopTrackingUser
            <4> QED
                BY <4>1, <4>2
        <3>3. CASE UNCHANGED <<tracked, rta, unheard, failedAsserts>>
            BY <2>1, <3>1, <3>3
        <3>4. CASE tracked' = Erased(u) /\ unheard' = unheard \ {u} /\ UNCHANGED failedAsserts
            BY <2>1, <3>1, <3>2, <3>4 DEF Erased
        <3>5. CASE unheard' = unheard \union {u} /\ UNCHANGED <<tracked, failedAsserts>>
            BY <2>1, <3>1, <3>2, <3>5
        <3>6. CASE failedAsserts' = failedAsserts \union {"RemoveSubscription"}
            BY <3>6
        <3> QED
            BY <2>9, <3>1, <3>3, <3>4, <3>5, <3>6 DEF StopTrackingUser
    <2>10. ASSUME NEW t \in Titles, TrackAdditionalTitle(t) \/ TrackAdditionalTitleFails(t)
           PROVE  <<x, Devices>> \in rta'
        BY <2>1, <2>10 DEF TrackAdditionalTitle, TrackAdditionalTitleFails
    <2>11. ASSUME NEW t \in Titles, StopTrackingAdditionalTitle(t)
           PROVE  <<x, Devices>> \in rta'
        <3>1. Devices # t
            BY DevicesAreNoTitle
        <3> QED
            BY <2>1, <2>11, <3>1 DEF StopTrackingAdditionalTitle, TitleTopics
    <2>12. CASE HandleRTAResync
        BY <2>1, <2>12 DEF HandleRTAResync
    <2>13. ASSUME NEW asked \in resyncs, PresenceResult(asked)
           PROVE  <<x, Devices>> \in rta'
        BY <2>1, <2>13 DEF PresenceResult
    <2>14. CASE Destroy
        BY <2>14 DEF Destroy
    <2> QED
        BY <2>2, <2>3, <2>4, <2>5, <2>6, <2>7, <2>8, <2>9, <2>10, <2>11, <2>12, <2>13, <2>14 DEF Next
<1> QED
    BY <1>1, <1>2, TypedHolds, PTL DEF Spec
=============================================================================
