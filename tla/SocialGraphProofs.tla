-------------------------- MODULE SocialGraphProofs --------------------------
(***************************************************************************)
(* Proofs about SocialGraph, for any users, groups, refreshes and bounds.  *)
(*                                                                         *)
(* The invariants come in layers.  Types hold of every title.  A title     *)
(* that waits for its groups to load keeps a group's stage, its task and   *)
(* its members in step (Staged), which is what keeps the two mutexes apart *)
(* and the group's pointers to profiles current.                           *)
(***************************************************************************)
EXTENDS SocialGraph, FiniteSetTheorems, TLAPS

-----------------------------------------------------------------------------
(* The polls. *)

\* A poll keeps its types.
LEMMA PresencePollTyped ==
    ASSUME Presence!PollTypeOK, NEW xuids \in SUBSET Users, Presence!Poll(xuids)
    PROVE  Presence!PollTypeOK'
    BY DEF Presence!PollTypeOK, Presence!Poll, Presence!PollServiceCall

\* So does a request for profiles.
LEMMA HubPollTyped ==
    ASSUME Hub!PollTypeOK, NEW xuids \in SUBSET Users, Hub!Poll(xuids)
    PROVE  Hub!PollTypeOK'
    BY DEF Hub!PollTypeOK, Hub!Poll, Hub!PollServiceCall

\* The answer, the failure and the next call of the presence poll keep its type.
LEMMA PresenceCallTyped ==
    ASSUME Presence!PollTypeOK,
           Presence!PollSucceeds \/ Presence!PollFails \/ Presence!RunNextPoll
    PROVE  Presence!PollTypeOK'
    BY DEF Presence!PollTypeOK, Presence!PollServiceCall,
           Presence!PollSucceeds, Presence!PollFails, Presence!RunNextPoll

\* So do those of the poll of the people hub.
LEMMA HubCallTyped ==
    ASSUME Hub!PollTypeOK, Hub!PollSucceeds \/ Hub!PollFails \/ Hub!RunNextPoll
    PROVE  Hub!PollTypeOK'
    BY DEF Hub!PollTypeOK, Hub!PollServiceCall, Hub!PollSucceeds, Hub!PollFails, Hub!RunNextPoll

\* If service calls do not fail before they are made, every step of a poll leaves
\* it in progress exactly while something goes on with it.
LEMMA PresencePollEnds ==
    ASSUME ~StartMayFail, Presence!PollTypeOK, Presence!PollEnds, NEW xuids \in SUBSET Users,
           \/ Presence!Poll(xuids)
           \/ Presence!PollSucceeds \/ Presence!PollFails \/ Presence!RunNextPoll
    PROVE  Presence!PollEnds'
<1> USE DEF Presence!PollTypeOK, Presence!PollEnds, Presence!PollServiceCall
<1>1. CASE Presence!Poll(xuids)
    BY <1>1 DEF Presence!Poll
<1>2. CASE Presence!PollSucceeds
    BY <1>2 DEF Presence!PollSucceeds
<1>3. CASE Presence!PollFails
    BY <1>3 DEF Presence!PollFails
<1>4. CASE Presence!RunNextPoll
    BY <1>4 DEF Presence!RunNextPoll
<1> QED
    BY <1>1, <1>2, <1>3, <1>4

\* The same holds for the poll of the people hub.
LEMMA HubPollEnds ==
    ASSUME ~StartMayFail, Hub!PollTypeOK, Hub!PollEnds, NEW xuids \in SUBSET Users,
           \/ Hub!Poll(xuids)
           \/ Hub!PollSucceeds \/ Hub!PollFails \/ Hub!RunNextPoll
    PROVE  Hub!PollEnds'
<1> USE DEF Hub!PollTypeOK, Hub!PollEnds, Hub!PollServiceCall
<1>1. CASE Hub!Poll(xuids)
    BY <1>1 DEF Hub!Poll
<1>2. CASE Hub!PollSucceeds
    BY <1>2 DEF Hub!PollSucceeds
<1>3. CASE Hub!PollFails
    BY <1>3 DEF Hub!PollFails
<1>4. CASE Hub!RunNextPoll
    BY <1>4 DEF Hub!RunNextPoll
<1> QED
    BY <1>1, <1>2, <1>3, <1>4

-----------------------------------------------------------------------------
(* Types, variable by variable. *)

Profile == Profiles \union {NoProfile}
GraphType ==
    /\ profiles \in [Users -> Profile]
    /\ tracked \in [Users -> Nat]
    /\ pendingUpdates \in [Users -> Updates]
    /\ initialized \in BOOLEAN /\ localUserAdded \in BOOLEAN
GroupType ==
    /\ stage \in [Groups -> {"none", "Pending", "Scheduled", "Complete"}]
    /\ initTasks \in SUBSET Groups
    /\ wanted \in [Groups -> SUBSET Users] /\ wantedView \in [Groups -> SUBSET Users]
    /\ members \in [Groups -> [Users -> Profile]]
    /\ loaded \in [Groups -> BOOLEAN]
TitleType ==
    /\ handle \in [Groups -> {"unused", "open", "closed"}]
    /\ updating \in [group : Groups, list : SUBSET Users, step : {"none", "stop", "register"}]
    /\ updates \in 0..MaxUpdates /\ notices \in 0..MaxNotices
RefreshType ==
    refresh \in [1..MaxRefreshes ->
        [step : {"idle", "called", "retry", "track", "stop", "update", "initialize", "done"},
         previous : SUBSET Users, answer : [Users -> Profile]]]
PollType == Presence!PollTypeOK /\ Hub!PollTypeOK
LockType ==
    /\ unfinished \in [Callers -> [subscribed : SUBSET Users, asks : SUBSET Users]]
    /\ answering \in {"none", "presence", "hub"}

\* The parts make up the type invariant.
LEMMA TypeParts ==
    TypeOK <=> GraphType /\ GroupType /\ TitleType /\ RefreshType /\ PollType /\ LockType
    BY DEF TypeOK, GraphType, GroupType, TitleType, RefreshType, PollType, LockType, Profile

\* The steps that only ask for profiles and presence, or let the manager go on.
Polling ==
    \/ PresenceAnswered \/ HubAnswered \/ PresencePolls \/ HubPolls \/ PresenceChanged
    \/ \E c \in Callers : PollPeopleHub(c) \/ \E u \in Users : OnSubscribe(c, u)

\* They leave the graph, its groups and its refreshes alone.
LEMMA PollingFrame ==
    ASSUME Polling
    PROVE  UNCHANGED <<graphVars, groupVars, titleVars, refresh>>
    BY DEF Polling, PresenceAnswered, HubAnswered, PresencePolls, HubPolls, PresenceChanged,
           PollPeopleHub, OnSubscribe

\* What each method of the graph makes of its members.
LEMMA TrackUsersTyped ==
    ASSUME GraphType, LockType, NEW caller \in Callers, NEW xuids \in SUBSET Users,
           NEW mode \in {"IfNew", "Always", "Never"}, TrackUsers(caller, xuids, mode)
    PROVE  /\ tracked' \in [Users -> Nat]
           /\ unfinished' \in [Callers -> [subscribed : SUBSET Users, asks : SUBSET Users]]
<1> DEFINE new == {u \in xuids : tracked[u] = 0}
           asked == CASE mode = "IfNew" -> new
                      [] mode = "Always" -> xuids
                      [] mode = "Never" -> {}
<1>1. tracked' \in [Users -> Nat]
    BY DEF GraphType, TrackUsers
<1>2. new \in SUBSET Users /\ asked \in SUBSET Users
    OBVIOUS
<1>3. PICK active \in SUBSET (IF OthersSubscribe THEN new ELSE {}) :
          unfinished' = [unfinished EXCEPT ![caller] = [subscribed |-> active, asks |-> asked]]
    BY DEF TrackUsers
<1>4. active \in SUBSET Users
    BY <1>2
<1>5. [subscribed |-> active, asks |-> asked] \in [subscribed : SUBSET Users, asks : SUBSET Users]
    BY <1>2, <1>4
<1> HIDE DEF new, asked
<1> QED
    BY <1>1, <1>3, <1>5 DEF LockType

\* Giving references up takes no count below zero.
LEMMA StopTrackingUsersTyped ==
    ASSUME GraphType, NEW xuids, StopTrackingUsers(xuids)
    PROVE  tracked' \in [Users -> Nat] /\ pendingUpdates' \in [Users -> Updates]
<1>1. tracked' \in [Users -> Nat]
    BY DEF GraphType, StopTrackingUsers
<1>2. Update({}, NoProfile) \in Updates
    BY DEF Update, Updates
<1>3. pendingUpdates' \in [Users -> Updates]
    BY <1>2 DEF GraphType, StopTrackingUsers
<1> QED
    BY <1>1, <1>3

\* What a profile's answer leaves pending is an update.
LEMMA PeoplehubResultTyped ==
    ASSUME GraphType, NEW answer \in [Users -> Profile], PeoplehubResultHandler(answer)
    PROVE  pendingUpdates' \in [Users -> Updates]
<1>1. ASSUME NEW u \in Users, answer[u] # NoProfile, NEW changes \in SUBSET Changes
      PROVE  Update(changes, answer[u]) \in Updates
    BY <1>1 DEF Update, Updates, Profile
<1>2. ASSUME NEW u \in Users
      PROVE  CompareProfiles(profiles[u], answer[u]) \in SUBSET Changes
    BY DEF CompareProfiles
<1>3. {} \in SUBSET Changes
    OBVIOUS
<1>4. ASSUME NEW u \in Users PROVE pendingUpdates'[u] \in Updates
    BY <1>1, <1>2, <1>3 DEF GraphType, PeoplehubResultHandler
<1> QED
    BY <1>4 DEF PeoplehubResultHandler

\* So is what a presence answer leaves, merged into the update there was or not.
LEMMA PresenceResultTyped ==
    ASSUME GraphType, NEW call \in SUBSET Users, NEW records \in [call -> Presences],
           PresenceResultHandler(records)
    PROVE  pendingUpdates' \in [Users -> Updates]
<1> DEFINE compared(u) == IF pendingUpdates[u].profile # NoProfile
                          THEN pendingUpdates[u].profile ELSE profiles[u]
<1>1. ASSUME NEW u \in Users PROVE compared(u) \in Profile /\ pendingUpdates[u] \in Updates
    BY DEF GraphType, Profile, Updates
<1>2. ASSUME NEW u \in call, compared(u) # NoProfile
      PROVE  Update({"presence"}, [compared(u) EXCEPT !.presence = records[u]]) \in Updates
    BY <1>1, <1>2 DEF Update, Updates, Profile, Profiles, Changes
<1>3. ASSUME NEW u \in Users PROVE pendingUpdates'[u] \in Updates
    BY <1>1, <1>2 DEF PresenceResultHandler
<1> QED
    BY <1>3 DEF PresenceResultHandler

\* Applying updates puts profiles in the graph and empty updates in their place.
LEMMA ApplyTyped ==
    ASSUME GraphType, NEW limit, NEW applied, ApplyGraphUpdates(limit, applied)
    PROVE  profiles' \in [Users -> Profile] /\ pendingUpdates' \in [Users -> Updates]
<1>1. ASSUME NEW u \in Users PROVE ProfileAfter(u) \in Profile
    BY DEF GraphType, ProfileAfter, Updates, Profile
<1>2. NoUpdate \in Updates
    BY DEF NoUpdate, Updates
<1> QED
    BY <1>1, <1>2 DEF GraphType, ApplyGraphUpdates

-----------------------------------------------------------------------------
(* Every step is typed. *)

AllTyped == GraphType /\ GroupType /\ TitleType /\ RefreshType /\ PollType /\ LockType

\* The frame of an action that leaves variables alone.
LEMMA TypeFrames ==
    /\ GraphType /\ UNCHANGED graphVars => GraphType'
    /\ GroupType /\ UNCHANGED groupVars => GroupType'
    /\ TitleType /\ UNCHANGED <<titleVars, notices>> => TitleType'
    /\ RefreshType /\ UNCHANGED refresh => RefreshType'
    /\ LockType /\ UNCHANGED lockVars => LockType'
    /\ Presence!PollTypeOK /\ UNCHANGED presenceVars => Presence!PollTypeOK'
    /\ Hub!PollTypeOK /\ UNCHANGED hubVars => Hub!PollTypeOK'
    BY DEF GraphType, GroupType, TitleType, RefreshType, LockType,
           Presence!PollTypeOK, Hub!PollTypeOK,
           graphVars, groupVars, titleVars, presenceVars, hubVars, lockVars

\* The program starts in the types.
LEMMA InitTyped == Init => AllTyped
<1> SUFFICES ASSUME Init PROVE AllTyped
    OBVIOUS
<1>1. NotUpdating.group \in Groups
    BY GroupAssumption DEF NotUpdating
<1>2. GraphType /\ GroupType /\ RefreshType /\ PollType /\ LockType
    BY DEF Init, GraphType, GroupType, RefreshType, PollType, LockType, Finished, Profile, NoUpdate, Updates, NoRefresh,
           Presence!PollInit, Hub!PollInit, Presence!PollTypeOK, Hub!PollTypeOK
<1>3. TitleType
    BY <1>1, LimitsAssumption DEF Init, TitleType, NotUpdating
<1> QED
    BY <1>2, <1>3 DEF AllTyped

\* A frame and the title's calls.
LEMMA TitleTyped ==
    ASSUME AllTyped,
           \/ DoWork \/ UpdateStops \/ UpdateRegisters
           \/ \E g \in Groups :
               \/ InitializeGroup(g) \/ CreateFilterGroup(g) \/ GetTrackedUsers(g) \/ DestroyGroup(g)
               \/ \E list \in Lists : CreateListGroup(g, list) \/ UpdateTracks(g, list)
    PROVE  AllTyped'
<1> USE TypeFrames DEF AllTyped, PollType, Profile
<1>1. CASE DoWork
    <2>1. PICK applied \in SUBSET Users :
              /\ ApplyGraphUpdates(MaxUpdatesPerFrame, applied)
              /\ members' = [g \in Groups |->
                    IF stage[g] = "Complete" THEN MembersAfter(g, applied) ELSE members[g]]
        BY <1>1 DEF DoWork
    <2>2. GraphType'
        BY <1>1, <2>1, ApplyTyped DEF DoWork, GraphType
    <2>3. ASSUME NEW g \in Groups PROVE MembersAfter(g, applied) \in [Users -> Profile]
        <3>1. ASSUME NEW u \in Users PROVE ProfileAfter(u) \in Profile
            BY DEF GraphType, ProfileAfter, Updates
        <3> QED
            BY <3>1 DEF MembersAfter, GroupType
    <2>4. members' \in [Groups -> [Users -> Profile]]
        BY <2>1, <2>3 DEF GroupType
    <2>5. /\ loaded' \in [Groups -> BOOLEAN]
          /\ stage' \in [Groups -> {"none", "Pending", "Scheduled", "Complete"}]
          /\ initTasks' \in SUBSET Groups
        BY <1>1 DEF DoWork, GroupType, StageAfter, IsLoaded
    <2>6. GroupType'
        BY <1>1, <2>4, <2>5 DEF DoWork, GroupType
    <2> QED
        BY <1>1, <2>2, <2>6 DEF DoWork
<1>2. CASE UpdateStops
    <2>1. GraphType'
        BY <1>2, StopTrackingUsersTyped DEF UpdateStops, GraphType
    <2>2. TitleType'
        BY <1>2 DEF UpdateStops, TitleType
    <2> QED
        BY <1>2, <2>1, <2>2 DEF UpdateStops
<1>3. CASE UpdateRegisters
    <2>1. updating.group \in Groups /\ updating.list \in SUBSET Users
        BY DEF TitleType
    <2>2. GroupType'
        BY <1>3, <2>1 DEF UpdateRegisters, GroupType
    <2>3. NotUpdating.group \in Groups
        BY GroupAssumption DEF NotUpdating
    <2>4. TitleType'
        BY <1>3, <2>3 DEF UpdateRegisters, TitleType, NotUpdating
    <2> QED
        BY <1>3, <2>2, <2>4 DEF UpdateRegisters
<1>4. ASSUME NEW g \in Groups, InitializeGroup(g) PROVE AllTyped'
    <2>1. GroupType'
        BY <1>4 DEF InitializeGroup, GroupType, GraphType
    <2> QED
        BY <1>4, <2>1 DEF InitializeGroup
<1>5. ASSUME NEW g \in Groups, CreateFilterGroup(g) PROVE AllTyped'
    <2>1. GroupType' /\ TitleType'
        BY <1>5 DEF CreateFilterGroup, GroupType, TitleType
    <2> QED
        BY <1>5, <2>1 DEF CreateFilterGroup
<1>6. ASSUME NEW g \in Groups, GetTrackedUsers(g) PROVE AllTyped'
    <2>1. GroupType'
        BY <1>6 DEF GetTrackedUsers, GroupType
    <2> QED
        BY <1>6, <2>1 DEF GetTrackedUsers
<1>7. ASSUME NEW g \in Groups, DestroyGroup(g) PROVE AllTyped'
    <2>1. GraphType'
        BY <1>7, StopTrackingUsersTyped DEF DestroyGroup, GraphType
    <2>2. GroupType' /\ TitleType'
        BY <1>7 DEF DestroyGroup, GroupType, TitleType
    <2> QED
        BY <1>7, <2>1, <2>2 DEF DestroyGroup
<1>8. ASSUME NEW g \in Groups, NEW list \in Lists, CreateListGroup(g, list) PROVE AllTyped'
    <2>1. list \in SUBSET Users
        BY GroupAssumption
    <2>2. <<"title", 0>> \in Callers
        BY DEF Callers
    <2>4. GraphType' /\ LockType'
        BY <1>8, <2>1, <2>2, TrackUsersTyped DEF CreateListGroup, GraphType, LockType
    <2>3. GroupType' /\ TitleType'
        BY <1>8, <2>1 DEF CreateListGroup, GroupType, TitleType
    <2> QED
        BY <1>8, <2>3, <2>4 DEF CreateListGroup
<1>9. ASSUME NEW g \in Groups, NEW list \in Lists, UpdateTracks(g, list) PROVE AllTyped'
    <2>1. list \in SUBSET Users
        BY GroupAssumption
    <2>2. <<"title", 0>> \in Callers
        BY DEF Callers
    <2>4. GraphType' /\ LockType'
        BY <1>9, <2>1, <2>2, TrackUsersTyped DEF UpdateTracks, GraphType, LockType
    <2>3. TitleType'
        BY <1>9, <2>1, LimitsAssumption DEF UpdateTracks, TitleType
    <2> QED
        BY <1>9, <2>3, <2>4 DEF UpdateTracks
<1> QED
    BY <1>1, <1>2, <1>3, <1>4, <1>5, <1>6, <1>7, <1>8, <1>9

\* The refreshes.
LEMMA RefreshTyped ==
    ASSUME AllTyped, NEW r \in DOMAIN refresh,
           \/ RefreshStarts(r) \/ RefreshFails(r) \/ RefreshRetries(r) \/ RefreshAnswered(r)
           \/ RefreshTracks(r) \/ RefreshStops(r) \/ RefreshUpdates(r) \/ RefreshInitializes(r)
    PROVE  AllTyped'
<1> USE TypeFrames DEF AllTyped, PollType, Profile
<1> r \in 1..MaxRefreshes
    BY DEF RefreshType
<1>1. CASE RefreshStarts(r)
    <2>1. RefreshType'
        BY <1>1 DEF RefreshStarts, RefreshType
    <2>2. {u \in Users : profiles[u] # NoProfile /\ ~profiles[u].followed} \in SUBSET Users
        OBVIOUS
    <2>3. LockType'
        BY <1>1, <2>2 DEF RefreshStarts, LockType
    <2> QED
        BY <1>1, <2>1, <2>3 DEF RefreshStarts
<1>2. CASE RefreshFails(r)
    <2>1. RefreshType'
        BY <1>2 DEF RefreshFails, RefreshType
    <2> QED
        BY <1>2, <2>1 DEF RefreshFails
<1>3. CASE RefreshRetries(r)
    <2>1. RefreshType'
        BY <1>3 DEF RefreshRetries, RefreshType
    <2> QED
        BY <1>3, <2>1 DEF RefreshRetries
<1>4. CASE RefreshAnswered(r)
    <2>1. PICK followed \in FollowedSets : \E answer \in Answers(followed, followed) :
              refresh' = [refresh EXCEPT ![r] =
                  [step |-> "track", answer |-> answer, previous |->
                      {u \in Users : profiles[u] # NoProfile /\ profiles[u].followed}]]
        BY <1>4 DEF RefreshAnswered
    <2>2. PICK answer \in Answers(followed, followed) :
              refresh' = [refresh EXCEPT ![r] =
                  [step |-> "track", answer |-> answer, previous |->
                      {u \in Users : profiles[u] # NoProfile /\ profiles[u].followed}]]
        BY <2>1
    <2>3. answer \in [Users -> Profile]
        BY DEF Answers
    <2>4. RefreshType'
        BY <2>2, <2>3 DEF RefreshType
    <2> QED
        BY <1>4, <2>4 DEF RefreshAnswered
<1>5. CASE RefreshTracks(r)
    <2>1. RefreshType'
        BY <1>5 DEF RefreshTracks, RefreshType
    <2>2. {u \in Users : refresh[r].answer[u] # NoProfile} \in SUBSET Users
        OBVIOUS
    <2>3. <<"answer", r>> \in Callers
        BY DEF Callers
    <2>4. GraphType' /\ LockType'
        BY <1>5, <2>2, <2>3, TrackUsersTyped DEF RefreshTracks, GraphType, LockType
    <2> QED
        BY <1>5, <2>1, <2>4 DEF RefreshTracks
<1>6. CASE RefreshStops(r)
    <2>1. RefreshType'
        BY <1>6 DEF RefreshStops, RefreshType
    <2>2. GraphType'
        BY <1>6, StopTrackingUsersTyped DEF RefreshStops, GraphType
    <2> QED
        BY <1>6, <2>1, <2>2 DEF RefreshStops
<1>7. CASE RefreshUpdates(r)
    <2>1. refresh[r].answer \in [Users -> Profile]
        BY DEF RefreshType
    <2>2. GraphType'
        BY <1>7, <2>1, PeoplehubResultTyped DEF RefreshUpdates, GraphType
    <2>3. RefreshType'
        BY <1>7 DEF RefreshUpdates, RefreshType, NoRefresh
    <2> QED
        BY <1>7, <2>2, <2>3 DEF RefreshUpdates
<1>8. CASE RefreshInitializes(r)
    <2>1. GraphType'
        BY <1>8, ApplyTyped DEF RefreshInitializes, GraphType
    <2>2. RefreshType'
        BY <1>8 DEF RefreshInitializes, RefreshType
    <2> QED
        BY <1>8, <2>1, <2>2 DEF RefreshInitializes
<1> QED
    BY <1>1, <1>2, <1>3, <1>4, <1>5, <1>6, <1>7, <1>8

\* A notification has a thread of its own.
LEMMA NoticeCaller ==
    ASSUME TitleType, Notice
    PROVE  Notified \in Callers
<1>1. notices' \in 1..MaxNotices
    BY LimitsAssumption DEF TitleType, Notice
<1> QED
    BY <1>1 DEF Notified, Callers

\* Answers to the polls, and notifications.
LEMMA NoticeTyped ==
    ASSUME AllTyped,
           \/ Polling \/ PresenceHandled \/ HubHandled
           \/ \E u \in MayBeFollowed : \/ SocialRelationshipAdded(u) \/ SocialRelationshipChanged(u)
                                       \/ SocialRelationshipRemoved(u)
    PROVE  AllTyped'
<1> USE TypeFrames DEF AllTyped, PollType, Profile
<1>1. CASE PresenceHandled
    <2>1. presenceCall \in SUBSET Users
        BY DEF Presence!PollTypeOK
    <2>2. GraphType'
        BY <1>1, <2>1, PresenceResultTyped DEF PresenceHandled, GraphType
    <2>3. Presence!PollTypeOK'
        BY <1>1, PresenceCallTyped DEF PresenceHandled
    <2>4. LockType'
        BY <1>1 DEF PresenceHandled, LockType
    <2> QED
        BY <1>1, <2>2, <2>3, <2>4 DEF PresenceHandled
<1>2. CASE HubHandled
    <2>1. PICK followed \in FollowedSets : \E answer \in Answers(hubCall, followed) :
              PeoplehubResultHandler(answer)
        BY <1>2 DEF HubHandled
    <2>2. PICK answer \in Answers(hubCall, followed) : PeoplehubResultHandler(answer)
        BY <2>1
    <2>3. answer \in [Users -> Profile]
        BY DEF Answers
    <2>4. GraphType'
        BY <1>2, <2>2, <2>3, PeoplehubResultTyped DEF HubHandled, GraphType
    <2>5. Hub!PollTypeOK'
        BY <1>2, HubCallTyped DEF HubHandled
    <2>6. LockType'
        BY <1>2 DEF HubHandled, LockType
    <2> QED
        BY <1>2, <2>4, <2>5, <2>6 DEF HubHandled
<1>3. CASE PresencePolls
    BY <1>3, PresenceCallTyped DEF PresencePolls
<1>4. CASE HubPolls
    BY <1>4, HubCallTyped DEF HubPolls
<1> DEFINE Noted == notices' = notices + 1 /\ UNCHANGED titleVars /\ Notice
<1>5. Noted => TitleType'
    BY LimitsAssumption DEF TitleType, Notice, titleVars
<1>6. CASE PresenceChanged
    <2>1. \E xuids \in SUBSET Users : Presence!Poll(xuids)
        BY <1>6 DEF PresenceChanged
    <2>2. Presence!PollTypeOK'
        BY <2>1, PresencePollTyped
    <2> QED
        BY <1>5, <1>6, <2>2 DEF PresenceChanged, Notice
<1>8. CASE PresenceAnswered \/ HubAnswered
    <2>1. LockType'
        BY <1>8 DEF PresenceAnswered, HubAnswered, LockType
    <2> QED
        BY <1>8, <2>1 DEF PresenceAnswered, HubAnswered
<1>9. ASSUME NEW c \in Callers, PollPeopleHub(c) PROVE AllTyped'
    <2>1. Hub!PollTypeOK'
        BY <1>9, HubPollTyped DEF PollPeopleHub, LockType
    <2>2. LockType'
        BY <1>9 DEF PollPeopleHub, LockType, Finished
    <2> QED
        BY <1>9, <2>1, <2>2 DEF PollPeopleHub
<1>10. ASSUME NEW c \in Callers, NEW u \in Users, OnSubscribe(c, u) PROVE AllTyped'
    <2>1. Presence!PollTypeOK'
        BY <1>10, PresencePollTyped DEF OnSubscribe
    <2>2. LockType'
        BY <1>10 DEF OnSubscribe, LockType
    <2> QED
        BY <1>10, <2>1, <2>2 DEF OnSubscribe
<1>11. Notice => Notified \in Callers
    BY NoticeCaller
<1>7. ASSUME NEW u \in MayBeFollowed,
             \/ SocialRelationshipAdded(u) \/ SocialRelationshipChanged(u)
             \/ SocialRelationshipRemoved(u)
      PROVE  AllTyped'
    <2> u \in Users
        BY GroupAssumption DEF MayBeFollowed
    <2>1. CASE SocialRelationshipAdded(u)
        <3>1. GraphType' /\ LockType'
            BY <1>11, <2>1, TrackUsersTyped DEF SocialRelationshipAdded, GraphType, LockType
        <3> QED
            BY <1>5, <2>1, <3>1 DEF SocialRelationshipAdded, Notice
    <2>2. CASE SocialRelationshipChanged(u)
        <3>1. LockType'
            BY <1>11, <2>2 DEF SocialRelationshipChanged, LockType
        <3> QED
            BY <1>5, <2>2, <3>1 DEF SocialRelationshipChanged, Notice
    <2>3. CASE SocialRelationshipRemoved(u)
        <3>1. GraphType'
            BY <2>3, StopTrackingUsersTyped DEF SocialRelationshipRemoved, GraphType
        <3>2. {v \in {u} : tracked'[v] > 0} \in SUBSET Users
            OBVIOUS
        <3>3. LockType'
            BY <1>11, <2>3, <3>2 DEF SocialRelationshipRemoved, LockType
        <3> QED
            BY <1>5, <2>3, <3>1, <3>3 DEF SocialRelationshipRemoved, Notice
    <2> QED
        BY <1>7, <2>1, <2>2, <2>3
<1> QED
    BY <1>1, <1>2, <1>3, <1>4, <1>6, <1>7, <1>8, <1>9, <1>10 DEF Polling

\* Every step keeps the types.
LEMMA TypePreserved == AllTyped /\ [Next]_vars => AllTyped'
<1> SUFFICES ASSUME AllTyped, [Next]_vars PROVE AllTyped'
    OBVIOUS
<1>1. CASE UNCHANGED vars
    BY <1>1, TypeFrames DEF vars, AllTyped, PollType
<1>2. CASE Next
    BY <1>2, TitleTyped, RefreshTyped, NoticeTyped DEF Next, Polling
<1> QED
    BY <1>1, <1>2

\* The types hold at all times.
LEMMA TypedHolds == Spec => []AllTyped
    BY InitTyped, TypePreserved, PTL DEF Spec

\* Every member keeps its type, whatever the title does and the services answer:
\* in particular no reference count goes below zero.
THEOREM SocialTypeCorrect == Spec => []TypeOK
<1>1. AllTyped => TypeOK
    BY TypeParts DEF AllTyped
<1> QED
    BY <1>1, TypedHolds, PTL

-----------------------------------------------------------------------------
(* Updates that wait for DoWork. *)

\* An update of a profile the graph holds says that it changes it, and says so of
\* the presence whenever that differs.
UpdateSays(u) ==
    profiles[u] # NoProfile /\ pendingUpdates[u].profile # NoProfile =>
        /\ pendingUpdates[u].changes # {}
        /\ pendingUpdates[u].profile.presence # profiles[u].presence
           => "presence" \in pendingUpdates[u].changes
PendingInv == \A u \in Users : UpdateSays(u)

\* The answers PeoplehubResultHandler may be given.
ServedAnswers ==
    {refresh[r].answer : r \in 1..MaxRefreshes}
    \union UNION {Answers(hubCall, followed) : followed \in FollowedSets}

\* What the people hub answers are profiles.
LEMMA ServedTyped ==
    ASSUME AllTyped
    PROVE  ServedAnswers \subseteq [Users -> Profile]
    BY DEF ServedAnswers, Answers, AllTyped, RefreshType, Profile

\* The five things a step may do to profiles and pending updates.
LEMMA GraphSteps ==
    ASSUME AllTyped, [Next]_vars
    PROVE  \/ UNCHANGED <<profiles, pendingUpdates>>
           \/ /\ UNCHANGED profiles
              /\ \E xuids : StopTrackingUsers(xuids)
           \/ /\ UNCHANGED profiles
              /\ \E answer \in ServedAnswers : PeoplehubResultHandler(answer)
           \/ /\ UNCHANGED profiles
              /\ \E call \in SUBSET Users : \E records \in [call -> Presences] :
                     PresenceResultHandler(records)
           \/ \E limit, applied : ApplyGraphUpdates(limit, applied)
<1> USE DEF graphVars
<1>1. CASE UNCHANGED vars
    BY <1>1 DEF vars
<1>2. CASE DoWork
    BY <1>2 DEF DoWork
<1>3. CASE UpdateStops \/ UpdateRegisters
    BY <1>3 DEF UpdateStops, UpdateRegisters
<1>4. ASSUME NEW g \in Groups,
             InitializeGroup(g) \/ CreateFilterGroup(g) \/ GetTrackedUsers(g) \/ DestroyGroup(g)
      PROVE  \/ UNCHANGED <<profiles, pendingUpdates>>
             \/ UNCHANGED profiles /\ \E xuids : StopTrackingUsers(xuids)
    BY <1>4 DEF InitializeGroup, CreateFilterGroup, GetTrackedUsers, DestroyGroup
<1>5. ASSUME NEW g \in Groups, NEW list \in Lists, CreateListGroup(g, list) \/ UpdateTracks(g, list)
      PROVE  UNCHANGED <<profiles, pendingUpdates>>
    BY <1>5 DEF CreateListGroup, UpdateTracks
<1>6. ASSUME NEW r \in DOMAIN refresh,
             \/ RefreshStarts(r) \/ RefreshFails(r) \/ RefreshRetries(r)
             \/ RefreshAnswered(r) \/ RefreshTracks(r)
      PROVE  UNCHANGED <<profiles, pendingUpdates>>
    BY <1>6 DEF RefreshStarts, RefreshFails, RefreshRetries, RefreshAnswered, RefreshTracks
<1>7. ASSUME NEW r \in DOMAIN refresh, RefreshStops(r)
      PROVE  UNCHANGED profiles /\ \E xuids : StopTrackingUsers(xuids)
    BY <1>7 DEF RefreshStops
<1>8. ASSUME NEW r \in DOMAIN refresh, RefreshUpdates(r)
      PROVE  /\ UNCHANGED profiles
             /\ \E answer \in ServedAnswers : PeoplehubResultHandler(answer)
    <2>1. refresh[r].answer \in ServedAnswers
        BY DEF AllTyped, RefreshType, ServedAnswers
    <2> QED
        BY <1>8, <2>1 DEF RefreshUpdates
<1>9. ASSUME NEW r \in DOMAIN refresh, RefreshInitializes(r)
      PROVE  \E limit, applied : ApplyGraphUpdates(limit, applied)
    BY <1>9 DEF RefreshInitializes
<1>10. CASE PresenceHandled
    <2>1. presenceCall \in SUBSET Users
        BY DEF AllTyped, PollType, Presence!PollTypeOK
    <2> QED
        BY <1>10, <2>1 DEF PresenceHandled
<1>11. CASE HubHandled
    <2>1. PICK followed \in FollowedSets : \E answer \in Answers(hubCall, followed) :
              PeoplehubResultHandler(answer)
        BY <1>11 DEF HubHandled
    <2>2. PICK answer \in Answers(hubCall, followed) : PeoplehubResultHandler(answer)
        BY <2>1
    <2>3. answer \in ServedAnswers
        BY DEF ServedAnswers
    <2> QED
        BY <1>11, <2>2, <2>3 DEF HubHandled
<1>12. CASE Polling
    BY <1>12, PollingFrame
<1>13. ASSUME NEW u \in MayBeFollowed,
              \/ SocialRelationshipAdded(u) \/ SocialRelationshipChanged(u)
              \/ SocialRelationshipRemoved(u)
       PROVE  \/ UNCHANGED <<profiles, pendingUpdates>>
              \/ UNCHANGED profiles /\ \E xuids : StopTrackingUsers(xuids)
    BY <1>13 DEF SocialRelationshipAdded, SocialRelationshipChanged, SocialRelationshipRemoved
<1> QED
    BY <1>1, <1>2, <1>3, <1>4, <1>5, <1>6, <1>7, <1>8, <1>9, <1>10, <1>11, <1>12, <1>13 DEF Next, Polling

\* Every step keeps each pending update true to the profile it will replace.
LEMMA PendingPreserved ==
    ASSUME AllTyped, PendingInv, [Next]_vars
    PROVE  PendingInv'
<1> SUFFICES ASSUME NEW u \in Users PROVE UpdateSays(u)'
    BY DEF PendingInv
<1> USE DEF PendingInv, UpdateSays
<1>1. CASE UNCHANGED <<profiles, pendingUpdates>>
    BY <1>1
<1>2. ASSUME UNCHANGED profiles, NEW xuids, StopTrackingUsers(xuids) PROVE UpdateSays(u)'
    BY <1>2 DEF StopTrackingUsers, Update
<1>3. ASSUME UNCHANGED profiles, NEW answer \in [Users -> Profile], PeoplehubResultHandler(answer)
      PROVE  UpdateSays(u)'
    <2>1. CASE pendingUpdates'[u] = pendingUpdates[u]
        BY <1>3, <2>1
    <2>2. CASE profiles[u] = NoProfile
        BY <1>3, <2>2
    <2>3. CASE /\ profiles[u] # NoProfile /\ answer[u] # NoProfile
               /\ CompareProfiles(profiles[u], answer[u]) # {}
               /\ pendingUpdates'[u] = Update(CompareProfiles(profiles[u], answer[u]), answer[u])
        BY <1>3, <2>3 DEF Update, CompareProfiles, Changes
    <2> QED
        BY <1>3, <2>1, <2>2, <2>3 DEF PeoplehubResultHandler
<1>4. ASSUME UNCHANGED profiles, NEW call \in SUBSET Users, NEW records \in [call -> Presences],
             PresenceResultHandler(records)
      PROVE  UpdateSays(u)'
    <2>1. CASE pendingUpdates'[u] = pendingUpdates[u]
        BY <1>4, <2>1
    <2>2. CASE pendingUpdates'[u].changes = {"presence"}
        BY <1>4, <2>2
    <2> QED
        BY <1>4, <2>1, <2>2 DEF PresenceResultHandler, Update
<1>5. ASSUME NEW limit, NEW applied, ApplyGraphUpdates(limit, applied) PROVE UpdateSays(u)'
    BY <1>5 DEF ApplyGraphUpdates, NoUpdate
<1> QED
    BY <1>1, <1>2, <1>3, <1>4, <1>5, GraphSteps, ServedTyped

\* A pending update is true to the profile it will replace at all times.
LEMMA PendingHolds == Spec => []PendingInv
<1>1. Init => PendingInv
    BY DEF Init, PendingInv, UpdateSays
<1> QED
    BY <1>1, PendingPreserved, TypedHolds, PTL DEF Spec

\* Whenever a step changes the presence of a user who stays in the graph, the
\* update it applies is flagged, in whatever order two services' answers were
\* merged into it.
THEOREM PresenceAlwaysReported == Spec => PresenceChangesReported
<1>1. ASSUME AllTyped, PendingInv, [Next]_vars,
             NEW u \in Users, profiles[u] # NoProfile, profiles'[u] # NoProfile,
             profiles[u].presence # profiles'[u].presence
      PROVE  "presence" \in EventsFor(u)
    <2>1. PICK limit, applied : ApplyGraphUpdates(limit, applied)
        BY <1>1, GraphSteps
    <2>2. profiles'[u] = ProfileAfter(u)
        BY <1>1, <2>1 DEF ApplyGraphUpdates
    <2>3. ~Removes(u) /\ pendingUpdates[u].profile # NoProfile
        BY <1>1, <2>2 DEF ProfileAfter
    <2>4. profiles'[u] = pendingUpdates[u].profile /\ EventsFor(u) = pendingUpdates[u].changes
        BY <1>1, <2>2, <2>3 DEF ProfileAfter, EventsFor
    <2> QED
        BY <1>1, <2>3, <2>4 DEF PendingInv, UpdateSays
<1> DEFINE Reported == refresh' = refresh =>
        \A u \in Users :
            /\ profiles[u] # NoProfile /\ profiles'[u] # NoProfile
            /\ profiles[u].presence # profiles'[u].presence
            => "presence" \in EventsFor(u)
<1>2. AllTyped /\ PendingInv /\ [Next]_vars => [Reported]_vars
    BY <1>1
<1>3. Spec => [][Reported]_vars
    BY <1>2, TypedHolds, PendingHolds, PTL DEF Spec
<1> QED
    BY <1>3 DEF PresenceChangesReported

-----------------------------------------------------------------------------
(* Groups of a title that waits for them to load. *)

\* A group on its way is empty and not loaded, and is queued only once it was
\* scheduled.  The title has never used a handle it has not, and the group it is
\* updating is not queued.
NoMembers == [u \in Users |-> NoProfile]
Staged(g) ==
    /\ g \in initTasks => stage[g] = "Scheduled"
    /\ stage[g] \in {"Pending", "Scheduled"} => ~loaded[g] /\ members[g] = NoMembers
    /\ handle[g] = "unused" => stage[g] = "none" /\ ~loaded[g] /\ members[g] = NoMembers
    /\ updating.step # "none" /\ updating.group = g => g \notin initTasks /\ handle[g] = "open"
StagedInv == \A g \in Groups : Staged(g)

\* Every step keeps the stage of a group, its task and its members in step, if the
\* title waits for its groups.
LEMMA StagedPreserved ==
    ASSUME PatientTitle, AllTyped, StagedInv, [Next]_vars
    PROVE  StagedInv'
<1> USE DEF AllTyped, GroupType, TitleType, StagedInv, Staged, NoMembers
<1>1. CASE UNCHANGED <<groupVars, titleVars>>
    BY <1>1 DEF groupVars, titleVars
<1>2. CASE DoWork
    BY <1>2 DEF DoWork, titleVars, StageAfter, Idle
<1>3. CASE UpdateStops
    BY <1>3 DEF UpdateStops, groupVars
<1>4. CASE UpdateRegisters
    BY <1>4 DEF UpdateRegisters, NotUpdating
<1>5. ASSUME NEW g \in Groups, InitializeGroup(g) PROVE StagedInv'
    BY <1>5 DEF InitializeGroup, titleVars
<1>6. ASSUME NEW g \in Groups, CreateFilterGroup(g) PROVE StagedInv'
    BY <1>6 DEF CreateFilterGroup, MayCreate, Idle
<1>7. ASSUME NEW g \in Groups, GetTrackedUsers(g) PROVE StagedInv'
    BY <1>7 DEF GetTrackedUsers, titleVars
<1>8. ASSUME NEW g \in Groups, DestroyGroup(g) PROVE StagedInv'
    BY <1>8 DEF DestroyGroup, Usable, Idle
<1>9. ASSUME NEW g \in Groups, NEW list \in Lists, CreateListGroup(g, list) PROVE StagedInv'
    BY <1>9 DEF CreateListGroup, MayCreate, Idle
<1>10. ASSUME NEW g \in Groups, NEW list \in Lists, UpdateTracks(g, list) PROVE StagedInv'
    BY <1>10 DEF UpdateTracks, Usable, Idle, groupVars
<1>11. ASSUME NEW r \in DOMAIN refresh,
              \/ RefreshStarts(r) \/ RefreshFails(r) \/ RefreshRetries(r) \/ RefreshAnswered(r)
              \/ RefreshTracks(r) \/ RefreshStops(r) \/ RefreshUpdates(r) \/ RefreshInitializes(r)
       PROVE  UNCHANGED <<groupVars, titleVars>>
    BY <1>11 DEF RefreshStarts, RefreshFails, RefreshRetries, RefreshAnswered,
                 RefreshTracks, RefreshStops, RefreshUpdates, RefreshInitializes
<1>12. CASE \/ Polling \/ PresenceHandled \/ HubHandled
            \/ \E u \in MayBeFollowed :
                \/ SocialRelationshipAdded(u) \/ SocialRelationshipChanged(u)
                \/ SocialRelationshipRemoved(u)
    <2>1. UNCHANGED <<groupVars, titleVars>>
        BY <1>12, PollingFrame DEF PresenceHandled, HubHandled,
                     SocialRelationshipAdded, SocialRelationshipChanged, SocialRelationshipRemoved
    <2> QED
        BY <1>1, <2>1
<1>13. CASE UNCHANGED vars
    BY <1>1, <1>13 DEF vars
<1> QED
    BY <1>1, <1>2, <1>3, <1>4, <1>5, <1>6, <1>7, <1>8, <1>9, <1>10, <1>11, <1>12, <1>13 DEF Next, Polling

\* They are in step at all times then.
LEMMA StagedHolds ==
    ASSUME PatientTitle
    PROVE  Spec => []StagedInv
<1>1. Init => StagedInv
    BY DEF Init, StagedInv, Staged, NoMembers, NotUpdating
<1>2. AllTyped /\ StagedInv /\ [Next]_vars => StagedInv'
    BY StagedPreserved
<1> QED
    BY <1>1, <1>2, TypedHolds, PTL DEF Spec

\* Each step of the graph is at most one step of each poll.
LEMMA PollSteps ==
    ASSUME AllTyped, [Next]_vars
    PROVE  /\ \/ UNCHANGED presenceVars
              \/ \E xuids \in SUBSET Users : Presence!Poll(xuids)
              \/ Presence!PollSucceeds \/ Presence!PollFails \/ Presence!RunNextPoll
           /\ \/ UNCHANGED hubVars
              \/ \E xuids \in SUBSET Users : Hub!Poll(xuids)
              \/ Hub!PollSucceeds \/ Hub!PollFails \/ Hub!RunNextPoll
<1> DEFINE PresenceStep == \/ UNCHANGED presenceVars
                           \/ \E xuids \in SUBSET Users : Presence!Poll(xuids)
                           \/ Presence!PollSucceeds \/ Presence!PollFails \/ Presence!RunNextPoll
           HubStep == \/ UNCHANGED hubVars
                      \/ \E xuids \in SUBSET Users : Hub!Poll(xuids)
                      \/ Hub!PollSucceeds \/ Hub!PollFails \/ Hub!RunNextPoll
<1>2. CASE UNCHANGED vars
    BY <1>2 DEF vars
<1>3. CASE DoWork \/ UpdateStops \/ UpdateRegisters
    BY <1>3 DEF DoWork, UpdateStops, UpdateRegisters
<1>4. ASSUME NEW g \in Groups,
             InitializeGroup(g) \/ CreateFilterGroup(g) \/ GetTrackedUsers(g) \/ DestroyGroup(g)
      PROVE  UNCHANGED <<presenceVars, hubVars>>
    BY <1>4 DEF InitializeGroup, CreateFilterGroup, GetTrackedUsers, DestroyGroup
<1>5. ASSUME NEW g \in Groups, NEW list \in Lists, CreateListGroup(g, list) \/ UpdateTracks(g, list)
      PROVE  UNCHANGED <<presenceVars, hubVars>>
    BY <1>5 DEF CreateListGroup, UpdateTracks
<1>6. ASSUME NEW r \in DOMAIN refresh,
             \/ RefreshStarts(r) \/ RefreshFails(r) \/ RefreshRetries(r) \/ RefreshAnswered(r)
             \/ RefreshTracks(r) \/ RefreshStops(r) \/ RefreshUpdates(r) \/ RefreshInitializes(r)
      PROVE  UNCHANGED <<presenceVars, hubVars>>
    BY <1>6 DEF RefreshStarts, RefreshFails, RefreshRetries, RefreshAnswered, RefreshTracks,
                RefreshStops, RefreshUpdates, RefreshInitializes
<1>7. CASE PresenceAnswered \/ PresenceHandled \/ HubAnswered \/ HubHandled
    BY <1>7 DEF PresenceAnswered, PresenceHandled, HubAnswered, HubHandled
<1>8. CASE PresencePolls \/ HubPolls \/ PresenceChanged
    BY <1>8 DEF PresencePolls, HubPolls, PresenceChanged
<1>9. ASSUME NEW c \in Callers, PollPeopleHub(c) PROVE UNCHANGED presenceVars /\ HubStep
    <2>1. unfinished[c].asks \in SUBSET Users
        BY DEF AllTyped, LockType
    <2> QED
        BY <1>9, <2>1 DEF PollPeopleHub
<1>10. ASSUME NEW c \in Callers, NEW u \in Users, OnSubscribe(c, u)
       PROVE  PresenceStep /\ UNCHANGED hubVars
    <2>1. {u} \in SUBSET Users
        OBVIOUS
    <2> QED
        BY <1>10, <2>1 DEF OnSubscribe
<1>11. ASSUME NEW u \in MayBeFollowed,
              \/ SocialRelationshipAdded(u) \/ SocialRelationshipChanged(u)
              \/ SocialRelationshipRemoved(u)
       PROVE  UNCHANGED <<presenceVars, hubVars>>
    BY <1>11 DEF SocialRelationshipAdded, SocialRelationshipChanged, SocialRelationshipRemoved
<1>12. PresenceStep /\ HubStep
    BY <1>2, <1>3, <1>4, <1>5, <1>6, <1>7, <1>8, <1>9, <1>10, <1>11 DEF Next, Polling
<1> QED
    BY <1>12

\* If RTA never runs OnSubscribe inside TrackUsers, the graph's mutex is never
\* held over a wait.
LEMMA GraphStaysFree ==
    ASSUME ~OthersSubscribe
    PROVE  Spec => []GraphFree
<1>1. Init => GraphFree
    BY DEF Init, GraphFree, Finished
<1>2. AllTyped /\ GraphFree /\ [Next]_vars => GraphFree'
    <2> SUFFICES ASSUME AllTyped, GraphFree, [Next]_vars PROVE GraphFree'
        OBVIOUS
    <2> USE DEF GraphFree, AllTyped, LockType
    <2>1. CASE unfinished' = unfinished
        BY <2>1
    <2>2. ASSUME NEW c \in Callers, NEW xuids, NEW mode, TrackUsers(c, xuids, mode) PROVE GraphFree'
        BY <2>2 DEF TrackUsers
    <2>3. ASSUME NEW c \in Callers, NEW xuids,
                 unfinished' = [unfinished EXCEPT ![c].asks = xuids] PROVE GraphFree'
        BY <2>3
    <2>4. Notice => Notified \in Callers
        BY NoticeCaller
    <2>5. CASE \/ DoWork \/ UpdateStops \/ UpdateRegisters
               \/ \E g \in Groups :
                   InitializeGroup(g) \/ CreateFilterGroup(g) \/ GetTrackedUsers(g) \/ DestroyGroup(g)
               \/ \E r \in DOMAIN refresh :
                   \/ RefreshFails(r) \/ RefreshRetries(r) \/ RefreshAnswered(r)
                   \/ RefreshStops(r) \/ RefreshUpdates(r) \/ RefreshInitializes(r)
               \/ PresenceAnswered \/ PresenceHandled \/ HubAnswered \/ HubHandled
               \/ PresencePolls \/ HubPolls \/ PresenceChanged
               \/ UNCHANGED vars
        <3>1. unfinished' = unfinished
            BY <2>5 DEF DoWork, UpdateStops, UpdateRegisters, InitializeGroup, CreateFilterGroup,
                GetTrackedUsers, DestroyGroup, RefreshFails, RefreshRetries, RefreshAnswered,
                RefreshStops, RefreshUpdates, RefreshInitializes, PresenceAnswered, PresenceHandled,
                HubAnswered, HubHandled, PresencePolls, HubPolls, PresenceChanged, lockVars, vars
        <3> QED
            BY <2>1, <3>1
    <2>6. ASSUME NEW g \in Groups, NEW list \in Lists, CreateListGroup(g, list) \/ UpdateTracks(g, list)
          PROVE  GraphFree'
        <3>1. <<"title", 0>> \in Callers
            BY DEF Callers
        <3> QED
            BY <2>2, <2>6, <3>1 DEF CreateListGroup, UpdateTracks
    <2>7. ASSUME NEW r \in DOMAIN refresh, RefreshStarts(r) \/ RefreshTracks(r) PROVE GraphFree'
        <3>1. r \in 1..MaxRefreshes
            BY DEF RefreshType
        <3>2. <<"refresh", r>> \in Callers /\ <<"answer", r>> \in Callers
            BY <3>1 DEF Callers
        <3> QED
            BY <2>2, <2>3, <2>7, <3>2 DEF RefreshStarts, RefreshTracks
    <2>8. ASSUME NEW u \in MayBeFollowed,
                 \/ SocialRelationshipAdded(u) \/ SocialRelationshipChanged(u)
                 \/ SocialRelationshipRemoved(u)
          PROVE  GraphFree'
        BY <2>2, <2>3, <2>4, <2>8
        DEF SocialRelationshipAdded, SocialRelationshipChanged, SocialRelationshipRemoved
    <2>9. ASSUME NEW c \in Callers, PollPeopleHub(c) \/ \E u \in Users : OnSubscribe(c, u)
          PROVE  GraphFree'
        <3>1. \A u \in Users : ~OnSubscribe(c, u)
            BY DEF OnSubscribe
        <3>2. unfinished' = [unfinished EXCEPT ![c] = [subscribed |-> {}, asks |-> {}]]
            BY <2>9, <3>1 DEF PollPeopleHub, Finished
        <3> QED
            BY <3>2
    <2> QED
        BY <2>5, <2>6, <2>7, <2>8, <2>9 DEF Next
<1> QED
    BY <1>1, <1>2, TypedHolds, PTL DEF Spec

\* Whatever mix of requests, answers, failures and retries there is, something
\* will go on with each poll that is in progress; no update of a group ever waits
\* for the graph while the graph waits for that group; and nobody waits for the
\* manager's mutex under the graph's while nobody else subscribes to the presence
\* of its users.
THEOREM NothingEverBlocks ==
    ASSUME PatientTitle, ~StartMayFail, ~OthersSubscribe
    PROVE  Spec => []NothingBlocks
<1>1. Init => PollsEnd
    BY DEF Init, PollsEnd, Presence!PollInit, Hub!PollInit, Presence!PollEnds, Hub!PollEnds
<1>2. AllTyped /\ PollsEnd /\ [Next]_vars => PollsEnd'
    <2> SUFFICES ASSUME AllTyped, PollsEnd, [Next]_vars PROVE PollsEnd'
        OBVIOUS
    <2>1. Presence!PollEnds'
        <3>1. CASE UNCHANGED presenceVars
            BY <3>1 DEF PollsEnd, presenceVars, Presence!PollEnds
        <3> QED
            BY <3>1, PollSteps, PresencePollEnds DEF AllTyped, PollType, PollsEnd
    <2>2. Hub!PollEnds'
        <3>1. CASE UNCHANGED hubVars
            BY <3>1 DEF PollsEnd, hubVars, Hub!PollEnds
        <3> QED
            BY <3>1, PollSteps, HubPollEnds DEF AllTyped, PollType, PollsEnd
    <2> QED
        BY <2>1, <2>2 DEF PollsEnd
<1>3. AllTyped /\ StagedInv => NoLockCycle
    BY DEF AllTyped, TitleType, StagedInv, Staged, NoLockCycle
<1>4. PollsEnd /\ NoLockCycle /\ GraphFree => NothingBlocks
    BY DEF NothingBlocks, NoMutexCycle
<1> QED
    BY <1>1, <1>2, <1>3, <1>4, TypedHolds, StagedHolds, GraphStaysFree, PTL DEF Spec

-----------------------------------------------------------------------------
(* The groups' pointers to profiles. *)

\* Before the first refresh has initialized the graph no other one has begun and
\* no group has been scheduled; afterwards none will initialize it again.
OrderInv ==
    /\ ~initialized =>
        /\ \A g \in Groups : stage[g] \in {"none", "Pending"}
        /\ \A r \in 1..MaxRefreshes : r > 1 => refresh[r].step = "idle"
    /\ initialized => \A r \in 1..MaxRefreshes : refresh[r].step # "initialize"

\* Every step keeps the first refresh ahead of all others, if RTA waits for it.
LEMMA OrderPreserved ==
    ASSUME ~EarlyResync, AllTyped, StagedInv, OrderInv, [Next]_vars
    PROVE  OrderInv'
<1> USE DEF OrderInv, AllTyped, GraphType, GroupType
<1>1. CASE UNCHANGED <<initialized, stage, refresh>>
    BY <1>1
<1>2. CASE DoWork
    BY <1>2 DEF DoWork, StageAfter
<1> DEFINE StageTo(g, to) ==
        stage' = [stage EXCEPT ![g] = to] /\ UNCHANGED <<initialized, refresh>>
<1>3. ASSUME NEW g \in Groups, StageTo(g, "none") \/ StageTo(g, "Pending") PROVE OrderInv'
    <2>1. \A h \in Groups : stage'[h] = stage[h] \/ stage'[h] \in {"none", "Pending"}
        BY <1>3
    <2>2. UNCHANGED <<initialized, refresh>>
        BY <1>3
    <2> HIDE DEF GraphType, GroupType
    <2> QED
        BY <2>1, <2>2
<1>4. CASE UpdateRegisters
    <2>1. \/ UNCHANGED <<initialized, stage, refresh>>
          \/ \E g \in Groups : StageTo(g, "Pending")
        BY <1>4 DEF UpdateRegisters, TitleType, graphVars
    <2> QED
        BY <1>1, <1>3, <2>1
<1>5. ASSUME NEW g \in Groups, InitializeGroup(g) PROVE OrderInv'
    BY <1>5 DEF InitializeGroup, StagedInv, Staged, graphVars
<1>6. ASSUME NEW g \in Groups, CreateFilterGroup(g) \/ GetTrackedUsers(g) \/ DestroyGroup(g)
      PROVE  OrderInv'
    <2>1. \/ UNCHANGED <<initialized, stage, refresh>>
          \/ StageTo(g, "none") \/ StageTo(g, "Pending")
        BY <1>6 DEF CreateFilterGroup, GetTrackedUsers, DestroyGroup, graphVars
    <2> QED
        BY <1>1, <1>3, <2>1
<1>7. ASSUME NEW g \in Groups, NEW list \in Lists, CreateListGroup(g, list) \/ UpdateTracks(g, list)
      PROVE  OrderInv'
    <2>1. UNCHANGED <<initialized, stage, refresh>> \/ StageTo(g, "Pending")
        BY <1>7 DEF CreateListGroup, UpdateTracks, groupVars
    <2> QED
        BY <1>1, <1>3, <2>1
<1> DEFINE RefreshTo(r, to) == \A q \in 1..MaxRefreshes :
               refresh'[q].step = IF q = r THEN to ELSE refresh[q].step
<1>8. ASSUME NEW r \in 1..MaxRefreshes, NEW to, RefreshTo(r, to), UNCHANGED <<initialized, stage>>,
             r > 1 => initialized \/ refresh[r].step # "idle",
             to = "initialize" => ~initialized
      PROVE  OrderInv'
    BY <1>8
<1>9. ASSUME NEW r \in 1..MaxRefreshes,
             \/ RefreshStarts(r) \/ RefreshFails(r) \/ RefreshRetries(r) \/ RefreshAnswered(r)
             \/ RefreshTracks(r) \/ RefreshStops(r) \/ RefreshUpdates(r)
      PROVE  OrderInv'
    <2>1. UNCHANGED <<initialized, stage>>
        BY <1>9 DEF RefreshStarts, RefreshFails, RefreshRetries, RefreshAnswered, RefreshTracks,
                    RefreshStops, RefreshUpdates, graphVars, groupVars
    <2>2. r > 1 => initialized \/ refresh[r].step # "idle"
        BY <1>9 DEF RefreshStarts, RefreshFails, RefreshRetries, RefreshAnswered, RefreshTracks,
                    RefreshStops, RefreshUpdates
    <2>3. \E to : RefreshTo(r, to) /\ (to = "initialize" => ~initialized)
        <3>1. CASE RefreshStarts(r)
            <4> RefreshTo(r, "called")
                BY <3>1 DEF RefreshStarts, RefreshType
            <4> QED
                OBVIOUS
        <3>2. CASE RefreshFails(r)
            <4> RefreshTo(r, "retry")
                BY <3>2 DEF RefreshFails, RefreshType
            <4> QED
                OBVIOUS
        <3>3. CASE RefreshRetries(r)
            <4> RefreshTo(r, "called")
                BY <3>3 DEF RefreshRetries, RefreshType
            <4> QED
                OBVIOUS
        <3>4. CASE RefreshAnswered(r)
            <4> RefreshTo(r, "track")
                BY <3>4 DEF RefreshAnswered, RefreshType
            <4> QED
                OBVIOUS
        <3>5. CASE RefreshTracks(r)
            <4> RefreshTo(r, "stop")
                BY <3>5 DEF RefreshTracks, RefreshType
            <4> QED
                OBVIOUS
        <3>6. CASE RefreshStops(r)
            <4> RefreshTo(r, "update")
                BY <3>6 DEF RefreshStops, RefreshType
            <4> QED
                OBVIOUS
        <3>7. CASE RefreshUpdates(r)
            <4> RefreshTo(r, IF initialized THEN "done" ELSE "initialize")
                BY <3>7 DEF RefreshUpdates, RefreshType, NoRefresh
            <4> QED
                OBVIOUS
        <3> QED
            BY <1>9, <3>1, <3>2, <3>3, <3>4, <3>5, <3>6, <3>7
    <2> QED
        BY <1>8, <2>1, <2>2, <2>3
<1>10. ASSUME NEW r \in 1..MaxRefreshes, RefreshInitializes(r) PROVE OrderInv'
    <2>1. RefreshTo(r, "done") /\ initialized' = TRUE /\ UNCHANGED stage
        BY <1>10 DEF RefreshInitializes, RefreshType, groupVars
    <2>2. refresh[r].step = "initialize"
        BY <1>10 DEF RefreshInitializes
    <2>3. ~initialized
        BY <2>2
    <2>4. ~(r > 1)
        BY <2>2, <2>3
    <2>5. r = 1
        BY <2>4, LimitsAssumption
    <2> QED
        BY <2>1, <2>3, <2>5
<1>11. DOMAIN refresh = 1..MaxRefreshes
    BY DEF RefreshType
<1>12. CASE \/ UpdateStops
            \/ Polling \/ PresenceHandled \/ HubHandled
            \/ \E u \in MayBeFollowed :
                \/ SocialRelationshipAdded(u) \/ SocialRelationshipChanged(u)
                \/ SocialRelationshipRemoved(u)
            \/ UNCHANGED vars
    <2>1. UNCHANGED <<initialized, stage, refresh>>
        BY <1>12, PollingFrame
        DEF UpdateStops, PresenceHandled, HubHandled,
            SocialRelationshipAdded, SocialRelationshipChanged, SocialRelationshipRemoved,
            vars, graphVars, groupVars
    <2> QED
        BY <1>1, <2>1
<1> QED
    BY <1>2, <1>4, <1>5, <1>6, <1>7, <1>9, <1>10, <1>11, <1>12 DEF Next, Polling

\* A frame tells each initialized group of every profile it replaces: an update
\* without an event replaces none.
LEMMA FrameShowsAll ==
    ASSUME AllTyped, PendingInv, NEW limit, NEW applied, ApplyGraphUpdates(limit, applied),
           NEW g \in Groups, NEW u \in Users,
           members[g][u] = IF profiles[u] # NoProfile /\ IsMemberOfGroup(g, u, profiles[u])
                           THEN profiles[u] ELSE NoProfile
    PROVE  MembersAfter(g, applied)[u] =
               IF profiles'[u] # NoProfile /\ IsMemberOfGroup(g, u, profiles'[u])
               THEN profiles'[u] ELSE NoProfile
<1>1. CASE u \notin applied
    BY <1>1 DEF ApplyGraphUpdates, MembersAfter, AllTyped, GraphType
<1>2. CASE u \in applied /\ EventsFor(u) # {}
    BY <1>2 DEF ApplyGraphUpdates, MembersAfter
<1>3. CASE u \in applied /\ EventsFor(u) = {}
    <2>1. ~Removes(u)
        BY <1>3 DEF EventsFor
    <2>2. pendingUpdates[u].profile # NoProfile => profiles[u] # NoProfile
                                                  /\ pendingUpdates[u].changes = {}
        BY <1>3, <2>1 DEF EventsFor
    <2>3. pendingUpdates[u].profile = NoProfile
        BY <2>2 DEF PendingInv, UpdateSays
    <2>4. profiles'[u] = profiles[u]
        BY <1>3, <2>1, <2>3 DEF ApplyGraphUpdates, ProfileAfter
    <2> QED
        BY <1>3, <2>4 DEF MembersAfter
<1> QED
    BY <1>1, <1>2, <1>3

Shows(g, u) ==
    members[g][u] = IF profiles[u] # NoProfile /\ IsMemberOfGroup(g, u, profiles[u])
                    THEN profiles[u] ELSE NoProfile

\* Every step keeps the profiles a group shows those of the graph.
LEMMA ViewsPreserved ==
    ASSUME AllTyped, StagedInv, PendingInv, OrderInv, ViewsAreCurrent, [Next]_vars
    PROVE  ViewsAreCurrent'
<1>1. SUFFICES ASSUME NEW g \in Groups, stage'[g] = "Complete", NEW u \in Users
               PROVE  Shows(g, u)'
    BY DEF ViewsAreCurrent, Shows
<1> USE DEF AllTyped, GroupType
<1>2. stage[g] = "Complete" => Shows(g, u)
    BY DEF ViewsAreCurrent, Shows
<1>3. ASSUME stage'[g] = stage[g], members'[g] = members[g], profiles' = profiles,
             wanted'[g] = wanted[g]
      PROVE  Shows(g, u)'
    BY <1>1, <1>2, <1>3 DEF Shows, IsMemberOfGroup
<1>4. CASE UNCHANGED <<stage, members, profiles, wanted>>
    BY <1>3, <1>4
<1>5. CASE DoWork
    <2>1. PICK applied \in SUBSET Users :
              /\ ApplyGraphUpdates(MaxUpdatesPerFrame, applied)
              /\ members' = [h \in Groups |->
                    IF stage[h] = "Complete" THEN MembersAfter(h, applied) ELSE members[h]]
        BY <1>5 DEF DoWork
    <2>2. stage[g] = "Complete" /\ wanted' = wanted
        BY <1>1, <1>5 DEF DoWork, StageAfter
    <2>3. members'[g] = MembersAfter(g, applied)
        BY <2>1, <2>2
    <2>4. MembersAfter(g, applied)[u] =
              IF profiles'[u] # NoProfile /\ IsMemberOfGroup(g, u, profiles'[u])
              THEN profiles'[u] ELSE NoProfile
        BY <1>2, <2>1, <2>2, FrameShowsAll DEF Shows
    <2> QED
        BY <2>2, <2>3, <2>4 DEF Shows, IsMemberOfGroup
<1>6. CASE UpdateRegisters
    <2>1. g # updating.group
        BY <1>1, <1>6 DEF UpdateRegisters
    <2> QED
        BY <1>3, <1>6, <2>1 DEF UpdateRegisters, TitleType, graphVars
<1>7. ASSUME NEW h \in Groups, InitializeGroup(h) PROVE Shows(g, u)'
    <2>1. CASE h = g
        <3>1. members[g][u] = NoProfile
            BY <1>7, <2>1 DEF InitializeGroup, StagedInv, Staged, NoMembers
        <3> QED
            BY <1>7, <2>1, <3>1 DEF InitializeGroup, Shows, graphVars, IsMemberOfGroup
    <2>2. CASE h # g
        BY <1>3, <1>7, <2>2 DEF InitializeGroup, graphVars
    <2> QED
        BY <2>1, <2>2
<1>8. ASSUME NEW h \in Groups, CreateFilterGroup(h) \/ DestroyGroup(h) PROVE Shows(g, u)'
    <2>1. g # h
        BY <1>1, <1>8 DEF CreateFilterGroup, DestroyGroup
    <2> QED
        BY <1>3, <1>8, <2>1 DEF CreateFilterGroup, DestroyGroup, graphVars
<1>9. ASSUME NEW h \in Groups, NEW list \in Lists, CreateListGroup(h, list) PROVE Shows(g, u)'
    <2>1. g # h
        BY <1>1, <1>9 DEF CreateListGroup
    <2> QED
        BY <1>3, <1>9, <2>1 DEF CreateListGroup
<1>10. ASSUME NEW h \in Groups, NEW list \in Lists, GetTrackedUsers(h) \/ UpdateTracks(h, list)
       PROVE  Shows(g, u)'
    BY <1>4, <1>10 DEF GetTrackedUsers, UpdateTracks, graphVars, groupVars
<1>11. ASSUME NEW h \in Groups, GetTrackedUsers(h) PROVE Shows(g, u)'
    BY <1>4, <1>11 DEF GetTrackedUsers, graphVars
<1>12. ASSUME NEW r \in DOMAIN refresh, RefreshInitializes(r) PROVE Shows(g, u)'
    <2>1. ~initialized /\ stage' = stage
        BY <1>12 DEF RefreshInitializes, OrderInv, RefreshType, GraphType, groupVars
    <2> QED
        BY <1>1, <2>1 DEF OrderInv
<1>13. ASSUME NEW r \in DOMAIN refresh,
              \/ RefreshStarts(r) \/ RefreshFails(r) \/ RefreshRetries(r) \/ RefreshAnswered(r)
              \/ RefreshTracks(r) \/ RefreshStops(r) \/ RefreshUpdates(r)
       PROVE  Shows(g, u)'
    BY <1>4, <1>13 DEF RefreshStarts, RefreshFails, RefreshRetries, RefreshAnswered, RefreshTracks,
                       RefreshStops, RefreshUpdates, graphVars, groupVars
<1>14. CASE \/ UpdateStops
            \/ Polling \/ PresenceHandled \/ HubHandled
            \/ \E v \in MayBeFollowed :
                \/ SocialRelationshipAdded(v) \/ SocialRelationshipChanged(v)
                \/ SocialRelationshipRemoved(v)
            \/ UNCHANGED vars
    <2>1. UNCHANGED <<stage, members, profiles, wanted>>
        BY <1>14, PollingFrame
        DEF UpdateStops, PresenceHandled, HubHandled,
            SocialRelationshipAdded, SocialRelationshipChanged, SocialRelationshipRemoved,
            vars, graphVars, groupVars
    <2> QED
        BY <1>4, <2>1
<1> QED
    BY <1>5, <1>6, <1>7, <1>8, <1>9, <1>10, <1>11, <1>12, <1>13, <1>14 DEF Next, Polling

\* If the title waits for its groups and RTA for the first refresh, a group never
\* points to a profile the graph has replaced, for any number of updates a frame
\* may apply and any order of answers.
THEOREM ViewsAlwaysCurrent ==
    ASSUME PatientTitle, ~EarlyResync
    PROVE  Spec => []ViewsAreCurrent
<1>1. Init => OrderInv /\ ViewsAreCurrent
    BY DEF Init, OrderInv, NoRefresh, ViewsAreCurrent
<1>2. AllTyped /\ StagedInv /\ OrderInv /\ [Next]_vars => OrderInv'
    BY OrderPreserved
<1>3. AllTyped /\ StagedInv /\ PendingInv /\ OrderInv /\ ViewsAreCurrent /\ [Next]_vars
      => ViewsAreCurrent'
    BY ViewsPreserved
<1> QED
    BY <1>1, <1>2, <1>3, TypedHolds, StagedHolds, PendingHolds, PTL DEF Spec

-----------------------------------------------------------------------------
(* References of users nobody follows. *)

\* No profile, update or refresh ever says that a user is followed who may not be.
NeverFollowed(u) ==
    /\ profiles[u] # NoProfile => ~profiles[u].followed
    /\ pendingUpdates[u].profile # NoProfile => ~pendingUpdates[u].profile.followed
    /\ \A r \in 1..MaxRefreshes : refresh[r].answer[u] = NoProfile /\ u \notin refresh[r].previous
StrangersInv == \A u \in Users \ MayBeFollowed : NeverFollowed(u)

\* What a step may do to a refresh: forget its answer, or note a new one.
LEMMA RefreshSteps ==
    ASSUME AllTyped, [Next]_vars, NEW r \in 1..MaxRefreshes
    PROVE  \/ /\ refresh'[r].answer \in {refresh[r].answer, NoRefresh.answer}
              /\ refresh'[r].previous \subseteq refresh[r].previous
           \/ /\ \E followed \in FollowedSets : refresh'[r].answer \in Answers(followed, followed)
              /\ refresh'[r].previous = {u \in Users : profiles[u] # NoProfile /\ profiles[u].followed}
<1> USE DEF AllTyped, RefreshType
<1>1. CASE refresh' = refresh
    BY <1>1
<1>2. ASSUME NEW q \in 1..MaxRefreshes,
             RefreshStarts(q) \/ RefreshFails(q) \/ RefreshRetries(q) \/ RefreshTracks(q)
      PROVE  refresh'[r].answer = refresh[r].answer /\ refresh'[r].previous = refresh[r].previous
    <2>1. \E to : refresh' = [refresh EXCEPT ![q].step = to]
        BY <1>2 DEF RefreshStarts, RefreshFails, RefreshRetries, RefreshTracks
    <2> QED
        BY <2>1
<1>3. ASSUME NEW q \in 1..MaxRefreshes,
             RefreshStops(q) \/ RefreshUpdates(q) \/ RefreshInitializes(q)
      PROVE  /\ refresh'[r].answer \in {refresh[r].answer, NoRefresh.answer}
             /\ refresh'[r].previous \subseteq refresh[r].previous
    <2>1. CASE RefreshStops(q)
        BY <2>1 DEF RefreshStops
    <2>2. CASE RefreshUpdates(q)
        BY <2>2 DEF RefreshUpdates, NoRefresh
    <2>3. CASE RefreshInitializes(q)
        BY <2>3 DEF RefreshInitializes
    <2> QED
        BY <1>3, <2>1, <2>2, <2>3
<1>4. ASSUME NEW q \in 1..MaxRefreshes, RefreshAnswered(q)
      PROVE  \/ refresh'[r] = refresh[r]
             \/ /\ \E followed \in FollowedSets :
                       refresh'[r].answer \in Answers(followed, followed)
                /\ refresh'[r].previous =
                       {u \in Users : profiles[u] # NoProfile /\ profiles[u].followed}
    BY <1>4 DEF RefreshAnswered
<1>5. CASE UNCHANGED vars
    BY <1>1, <1>5 DEF vars
<1>6. CASE \/ DoWork \/ UpdateStops \/ UpdateRegisters
           \/ \E g \in Groups :
               \/ InitializeGroup(g) \/ CreateFilterGroup(g) \/ GetTrackedUsers(g) \/ DestroyGroup(g)
               \/ \E list \in Lists : CreateListGroup(g, list) \/ UpdateTracks(g, list)
    <2>1. refresh' = refresh
        BY <1>6 DEF DoWork, UpdateStops, UpdateRegisters, InitializeGroup, CreateFilterGroup,
                    GetTrackedUsers, DestroyGroup, CreateListGroup, UpdateTracks
    <2> QED
        BY <1>1, <2>1
<1>7. CASE \/ Polling \/ PresenceHandled \/ HubHandled
           \/ \E u \in MayBeFollowed :
               \/ SocialRelationshipAdded(u) \/ SocialRelationshipChanged(u)
               \/ SocialRelationshipRemoved(u)
    <2>1. refresh' = refresh
        BY <1>7, PollingFrame
        DEF PresenceHandled, HubHandled,
            SocialRelationshipAdded, SocialRelationshipChanged, SocialRelationshipRemoved
    <2> QED
        BY <1>1, <2>1
<1>8. DOMAIN refresh = 1..MaxRefreshes
    OBVIOUS
<1> QED
    BY <1>2, <1>3, <1>4, <1>5, <1>6, <1>7, <1>8 DEF Next, Polling

\* Every step keeps those nobody can follow out of what refreshes bring.
LEMMA StrangersPreserved ==
    ASSUME AllTyped, StrangersInv, [Next]_vars
    PROVE  StrangersInv'
<1> SUFFICES ASSUME NEW u \in Users, u \notin MayBeFollowed PROVE NeverFollowed(u)'
    BY DEF StrangersInv
<1>0. NeverFollowed(u)
    BY DEF StrangersInv
<1>1. ASSUME NEW r \in 1..MaxRefreshes
      PROVE  refresh'[r].answer[u] = NoProfile /\ u \notin refresh'[r].previous
    <2>1. ASSUME NEW followed \in FollowedSets, NEW answer \in Answers(followed, followed)
          PROVE  answer[u] = NoProfile
        BY DEF Answers, MayBeFollowed
    <2> QED
        BY <1>0, <2>1, RefreshSteps DEF NeverFollowed, NoRefresh
<1>2. /\ profiles'[u] # NoProfile => ~profiles'[u].followed
      /\ pendingUpdates'[u].profile # NoProfile => ~pendingUpdates'[u].profile.followed
    <2> USE <1>0 DEF NeverFollowed
    <2>1. CASE UNCHANGED <<profiles, pendingUpdates>>
        BY <2>1
    <2>2. ASSUME UNCHANGED profiles, NEW xuids, StopTrackingUsers(xuids)
          PROVE  pendingUpdates'[u].profile # NoProfile => ~pendingUpdates'[u].profile.followed
        BY <2>2 DEF StopTrackingUsers, Update
    <2>3. ASSUME UNCHANGED profiles, NEW answer \in ServedAnswers, PeoplehubResultHandler(answer)
          PROVE  pendingUpdates'[u].profile # NoProfile => ~pendingUpdates'[u].profile.followed
        <3>1. answer[u] # NoProfile => ~answer[u].followed
            <4>1. ASSUME NEW r \in 1..MaxRefreshes, answer = refresh[r].answer
                  PROVE  answer[u] = NoProfile
                BY <4>1
            <4>2. ASSUME NEW followed \in FollowedSets, answer \in Answers(hubCall, followed)
                  PROVE  answer[u] # NoProfile => ~answer[u].followed
                <5>1. u \notin followed
                    BY DEF MayBeFollowed
                <5>2. u \in hubCall => answer[u].followed = (u \in followed)
                    BY <4>2 DEF Answers
                <5>3. u \notin hubCall => answer[u] = NoProfile
                    BY <4>2 DEF Answers
                <5> QED
                    BY <5>1, <5>2, <5>3
            <4> QED
                BY <4>1, <4>2 DEF ServedAnswers
        <3>2. \/ pendingUpdates'[u] = pendingUpdates[u]
              \/ pendingUpdates'[u].profile = answer[u]
            BY <2>3 DEF PeoplehubResultHandler, Update
        <3> QED
            BY <3>1, <3>2
    <2>4. ASSUME UNCHANGED profiles, NEW call \in SUBSET Users,
                 NEW records \in [call -> Presences], PresenceResultHandler(records)
          PROVE  pendingUpdates'[u].profile # NoProfile => ~pendingUpdates'[u].profile.followed
        <3> DEFINE compared == IF pendingUpdates[u].profile # NoProfile
                               THEN pendingUpdates[u].profile ELSE profiles[u]
        <3>1. compared # NoProfile => compared \in Profiles /\ ~compared.followed
            BY DEF AllTyped, GraphType, Updates, Profile
        <3>2. \/ pendingUpdates'[u] = pendingUpdates[u]
              \/ /\ compared # NoProfile
                 /\ pendingUpdates'[u].profile = [compared EXCEPT !.presence = records[u]]
            BY <2>4 DEF PresenceResultHandler, Update
        <3> QED
            BY <3>1, <3>2 DEF Profiles
    <2>5. ASSUME NEW limit, NEW applied, ApplyGraphUpdates(limit, applied)
          PROVE  /\ profiles'[u] # NoProfile => ~profiles'[u].followed
                 /\ pendingUpdates'[u].profile # NoProfile => ~pendingUpdates'[u].profile.followed
        BY <2>5 DEF ApplyGraphUpdates, NoUpdate, ProfileAfter
    <2> QED
        BY <2>1, <2>2, <2>3, <2>4, <2>5, GraphSteps
<1> QED
    BY <1>1, <1>2 DEF NeverFollowed

\* The lists that hold a reference of a user, and the one an update holds besides.
Listing(u) == {g \in ListGroups : ListsUser(g, u)}
InUpdate(u) == IF updating.step # "none" /\ u \in updating.list THEN 1 ELSE 0
Counted(u) ==
    /\ IsFiniteSet(Listing(u))
    /\ tracked[u] = Cardinality(Listing(u)) + InUpdate(u)
CountsInv ==
    /\ updating.step # "none" => updating.group \in ListGroups
    /\ \A u \in Users \ MayBeFollowed : Counted(u)

\* One list more or less holds a reference.
LEMMA OneMore ==
    ASSUME NEW S, NEW T, NEW g, IsFiniteSet(S), g \notin S, T = S \union {g}
    PROVE  IsFiniteSet(T) /\ Cardinality(T) = Cardinality(S) + 1
    BY FS_AddElement

\* Taking a member from a finite set takes one from its size.
LEMMA OneLess ==
    ASSUME NEW S, NEW T, NEW g, IsFiniteSet(S), g \in S, T = S \ {g}
    PROVE  IsFiniteSet(T) /\ Cardinality(T) = Cardinality(S) - 1 /\ Cardinality(S) \in Nat \ {0}
<1>1. IsFiniteSet(T) /\ Cardinality(T) = Cardinality(S) - 1
    BY FS_RemoveElement
<1>2. Cardinality(S) \in Nat /\ S # {}
    BY FS_CardinalityType
<1>3. Cardinality(S) # 0
    BY <1>2, FS_EmptySet
<1> QED
    BY <1>1, <1>2, <1>3

\* How the methods of the graph count one user.
LEMMA TrackCounts ==
    ASSUME GraphType, NEW caller, NEW xuids, NEW mode, TrackUsers(caller, xuids, mode), NEW u \in Users
    PROVE  tracked'[u] = IF u \in xuids THEN tracked[u] + 1 ELSE tracked[u]
    BY DEF GraphType, TrackUsers

\* StopTrackingUsers takes one from each count above zero that it is given.
LEMMA StopCounts ==
    ASSUME GraphType, NEW xuids, StopTrackingUsers(xuids), NEW u \in Users
    PROVE  tracked'[u] = IF u \in xuids /\ tracked[u] > 0 THEN tracked[u] - 1 ELSE tracked[u]
    BY DEF GraphType, StopTrackingUsers

\* The steps that change neither the references of a user nor what lists hold.
LEMMA OthersKeepCounts ==
    ASSUME AllTyped, StrangersInv, [Next]_vars, NEW u \in Users \ MayBeFollowed
    PROVE  \/ tracked'[u] = tracked[u] /\ UNCHANGED <<wantedView, handle, updating>>
           \/ UpdateStops \/ UpdateRegisters
           \/ \E g \in Groups :
               \/ CreateFilterGroup(g) \/ GetTrackedUsers(g) \/ DestroyGroup(g)
               \/ \E list \in Lists : CreateListGroup(g, list) \/ UpdateTracks(g, list)
<1> USE DEF AllTyped, graphVars, groupVars, titleVars
<1>1. CASE DoWork \/ UNCHANGED vars
    BY <1>1 DEF DoWork, vars
<1>2. ASSUME NEW g \in Groups, InitializeGroup(g)
      PROVE  tracked'[u] = tracked[u] /\ UNCHANGED <<wantedView, handle, updating>>
    BY <1>2 DEF InitializeGroup
<1>3. ASSUME NEW r \in DOMAIN refresh,
             \/ RefreshStarts(r) \/ RefreshFails(r) \/ RefreshRetries(r) \/ RefreshAnswered(r)
             \/ RefreshUpdates(r) \/ RefreshInitializes(r)
      PROVE  tracked'[u] = tracked[u] /\ UNCHANGED <<wantedView, handle, updating>>
    BY <1>3 DEF RefreshStarts, RefreshFails, RefreshRetries, RefreshAnswered, RefreshUpdates,
                RefreshInitializes
<1>4. ASSUME NEW r \in 1..MaxRefreshes, RefreshTracks(r)
      PROVE  tracked'[u] = tracked[u] /\ UNCHANGED <<wantedView, handle, updating>>
    <2>1. u \notin {v \in Users : refresh[r].answer[v] # NoProfile}
        BY DEF StrangersInv, NeverFollowed
    <2> QED
        BY <1>4, <2>1, TrackCounts DEF RefreshTracks
<1>5. ASSUME NEW r \in 1..MaxRefreshes, RefreshStops(r)
      PROVE  tracked'[u] = tracked[u] /\ UNCHANGED <<wantedView, handle, updating>>
    <2>1. u \notin refresh[r].previous
        BY DEF StrangersInv, NeverFollowed
    <2> QED
        BY <1>5, <2>1, StopCounts DEF RefreshStops
<1>6. CASE Polling \/ PresenceHandled \/ HubHandled
    BY <1>6, PollingFrame DEF PresenceHandled, HubHandled
<1>7. ASSUME NEW v \in MayBeFollowed,
             \/ SocialRelationshipAdded(v) \/ SocialRelationshipChanged(v)
             \/ SocialRelationshipRemoved(v)
      PROVE  tracked'[u] = tracked[u] /\ UNCHANGED <<wantedView, handle, updating>>
    <2>1. u \notin {v}
        OBVIOUS
    <2> QED
        BY <1>7, <2>1, TrackCounts, StopCounts
        DEF SocialRelationshipAdded, SocialRelationshipChanged, SocialRelationshipRemoved
<1>8. DOMAIN refresh = 1..MaxRefreshes
    BY DEF RefreshType
<1> QED
    BY <1>1, <1>2, <1>3, <1>4, <1>5, <1>6, <1>7, <1>8 DEF Next, Polling

\* Every step keeps the references of a user those its lists and its update hold.
LEMMA CountPreserved ==
    ASSUME PatientTitle, AllTyped, StagedInv, StrangersInv, CountsInv, [Next]_vars,
           NEW u \in Users \ MayBeFollowed
    PROVE  Counted(u)'
<1> USE DEF AllTyped, GroupType, TitleType, InUpdate
<1>0. IsFiniteSet(Listing(u)) /\ tracked[u] = Cardinality(Listing(u)) + InUpdate(u)
    BY DEF CountsInv, Counted
<1>1. Cardinality(Listing(u)) \in Nat
    BY <1>0, FS_CardinalityType
<1>2. CASE tracked'[u] = tracked[u] /\ UNCHANGED <<wantedView, handle, updating>>
    <2>1. Listing(u)' = Listing(u)
        BY <1>2 DEF Listing, ListsUser
    <2> QED
        BY <1>0, <1>2, <2>1 DEF Counted
<1>3. CASE UpdateStops
    <2> DEFINE g == updating.group
    <2>1. /\ updating.step = "stop" /\ g \in ListGroups /\ handle[g] = "open"
          /\ updating' = [updating EXCEPT !.step = "register"]
          /\ StopTrackingUsers(wantedView[g]) /\ UNCHANGED <<wantedView, handle>>
        BY <1>3 DEF UpdateStops, CountsInv, StagedInv, Staged, groupVars
    <2>2. InUpdate(u)' = InUpdate(u)
        BY <2>1
    <2>3. CASE u \in wantedView[g]
        <3>1. g \in Listing(u)
            BY <2>1, <2>3 DEF Listing, ListsUser
        <3>2. Listing(u)' = Listing(u) \ {g}
            BY <2>1, <2>3 DEF Listing, ListsUser
        <3>3. /\ IsFiniteSet(Listing(u)') /\ Cardinality(Listing(u)') = Cardinality(Listing(u)) - 1
              /\ Cardinality(Listing(u)) \in Nat \ {0}
            BY <1>0, <3>1, <3>2, OneLess
        <3>4. tracked'[u] = tracked[u] - 1
            BY <1>0, <2>1, <2>3, <3>3, StopCounts
        <3>5. tracked'[u] = Cardinality(Listing(u)') + InUpdate(u)
            <4>1. \A a, b, c, d, i : a = b + i /\ b \in Nat /\ i \in {0, 1} /\ c = b - 1 /\ d = a - 1
                                  => d = c + i
                OBVIOUS
            <4>2. InUpdate(u) \in {0, 1}
                OBVIOUS
            <4> HIDE DEF InUpdate
            <4> QED
                BY <1>0, <1>1, <3>3, <3>4, <4>1, <4>2
        <3> QED
            BY <2>2, <3>3, <3>5 DEF Counted
    <2>4. CASE u \notin wantedView[g]
        <3>1. Listing(u)' = Listing(u)
            BY <2>1, <2>4 DEF Listing, ListsUser
        <3>2. tracked'[u] = tracked[u]
            BY <2>1, <2>4, StopCounts
        <3> QED
            BY <1>0, <2>2, <3>1, <3>2 DEF Counted
    <2> QED
        BY <2>3, <2>4
<1>4. CASE UpdateRegisters
    <2> DEFINE g == updating.group
    <2>1. /\ updating.step = "register" /\ g \in ListGroups /\ handle[g] = "open"
          /\ updating' = NotUpdating /\ wantedView' = [wantedView EXCEPT ![g] = updating.list]
          /\ UNCHANGED <<tracked, handle>>
        BY <1>4 DEF UpdateRegisters, CountsInv, StagedInv, Staged, graphVars
    <2>2. InUpdate(u)' = 0 /\ g \notin Listing(u)
        BY <2>1 DEF NotUpdating, Listing, ListsUser
    <2>3. CASE u \in updating.list
        <3>1. Listing(u)' = Listing(u) \union {g}
            BY <2>1, <2>3, GroupAssumption DEF Listing, ListsUser, NotUpdating
        <3>2. IsFiniteSet(Listing(u)') /\ Cardinality(Listing(u)') = Cardinality(Listing(u)) + 1
            BY <1>0, <2>2, <3>1, OneMore
        <3>3. InUpdate(u) = 1
            BY <2>1, <2>3
        <3> QED
            BY <1>0, <1>1, <2>1, <2>2, <3>2, <3>3 DEF Counted
    <2>4. CASE u \notin updating.list
        <3>1. Listing(u)' = Listing(u)
            BY <2>1, <2>2, <2>4, GroupAssumption DEF Listing, ListsUser, NotUpdating
        <3> QED
            BY <1>0, <2>1, <2>2, <2>4, <3>1 DEF Counted
    <2> QED
        BY <2>3, <2>4
<1>5. ASSUME NEW g \in Groups, CreateFilterGroup(g) PROVE Counted(u)'
    <2>1. g \notin ListGroups
        BY <1>5 DEF CreateFilterGroup
    <2>2. Listing(u)' = Listing(u) /\ tracked' = tracked /\ updating' = updating
        BY <1>5, <2>1, GroupAssumption DEF CreateFilterGroup, Listing, ListsUser, graphVars
    <2> QED
        BY <1>0, <2>2 DEF Counted
<1>6. ASSUME NEW g \in Groups, GetTrackedUsers(g) PROVE Counted(u)'
    <2>1. wantedView' = wantedView
        BY <1>6 DEF GetTrackedUsers, Usable
    <2> QED
        BY <1>2, <1>6, <2>1 DEF GetTrackedUsers, graphVars, titleVars
<1>7. ASSUME NEW g \in Groups, DestroyGroup(g) PROVE Counted(u)'
    <2>1. /\ updating.step = "none" /\ handle[g] = "open" /\ g \notin initTasks
          /\ handle' = [handle EXCEPT ![g] = "closed"] /\ UNCHANGED <<wantedView, updating>>
        BY <1>7 DEF DestroyGroup, Usable, Idle, StagedInv, Staged
    <2>2. InUpdate(u)' = 0 /\ InUpdate(u) = 0
        BY <2>1
    <2>3. CASE g \in ListGroups /\ u \in wantedView[g]
        <3>1. g \in Listing(u) /\ Listing(u)' = Listing(u) \ {g}
            BY <2>1, <2>3, GroupAssumption DEF Listing, ListsUser
        <3>2. /\ IsFiniteSet(Listing(u)') /\ Cardinality(Listing(u)') = Cardinality(Listing(u)) - 1
              /\ Cardinality(Listing(u)) \in Nat \ {0}
            BY <1>0, <3>1, OneLess
        <3>3. tracked'[u] = tracked[u] - 1
            BY <1>0, <1>7, <2>1, <2>2, <2>3, <3>2, StopCounts DEF DestroyGroup
        <3> QED
            BY <1>0, <2>2, <3>2, <3>3 DEF Counted
    <2>4. CASE ~(g \in ListGroups /\ u \in wantedView[g])
        <3>1. Listing(u)' = Listing(u)
            BY <2>1, <2>4, GroupAssumption DEF Listing, ListsUser
        <3>2. tracked'[u] = tracked[u]
            BY <1>7, <2>1, <2>4, StopCounts DEF DestroyGroup
        <3> QED
            BY <1>0, <2>2, <3>1, <3>2 DEF Counted
    <2> QED
        BY <2>3, <2>4
<1>8. ASSUME NEW g \in Groups, NEW list \in Lists, CreateListGroup(g, list) PROVE Counted(u)'
    <2>1. /\ updating.step = "none" /\ handle[g] = "unused" /\ g \in ListGroups
          /\ handle' = [handle EXCEPT ![g] = "open"] /\ updating' = updating
          /\ wantedView' = [wantedView EXCEPT ![g] = list] /\ TrackUsers(<<"title", 0>>, list, "IfNew")
        BY <1>8 DEF CreateListGroup, MayCreate, Idle
    <2>2. InUpdate(u)' = 0 /\ InUpdate(u) = 0 /\ g \notin Listing(u)
        BY <2>1 DEF Listing, ListsUser
    <2>3. CASE u \in list
        <3>1. Listing(u)' = Listing(u) \union {g}
            BY <2>1, <2>3, GroupAssumption DEF Listing, ListsUser
        <3>2. IsFiniteSet(Listing(u)') /\ Cardinality(Listing(u)') = Cardinality(Listing(u)) + 1
            BY <1>0, <2>2, <3>1, OneMore
        <3>3. tracked'[u] = tracked[u] + 1
            BY <2>1, <2>3, TrackCounts
        <3> QED
            BY <1>0, <1>1, <2>2, <3>2, <3>3 DEF Counted
    <2>4. CASE u \notin list
        <3>1. Listing(u)' = Listing(u)
            BY <2>1, <2>2, <2>4, GroupAssumption DEF Listing, ListsUser
        <3>2. tracked'[u] = tracked[u]
            BY <2>1, <2>4, TrackCounts
        <3> QED
            BY <1>0, <2>2, <3>1, <3>2 DEF Counted
    <2> QED
        BY <2>3, <2>4
<1>9. ASSUME NEW g \in Groups, NEW list \in Lists, UpdateTracks(g, list) PROVE Counted(u)'
    <2>1. /\ updating.step = "none" /\ updating' = [group |-> g, list |-> list, step |-> "stop"]
          /\ TrackUsers(<<"title", 0>>, list, "IfNew") /\ UNCHANGED <<wantedView, handle>>
        BY <1>9 DEF UpdateTracks, Usable, Idle, groupVars
    <2>2. Listing(u)' = Listing(u)
        BY <2>1 DEF Listing, ListsUser
    <2>3. InUpdate(u) = 0 /\ InUpdate(u)' = IF u \in list THEN 1 ELSE 0
        BY <2>1
    <2>4. tracked'[u] = IF u \in list THEN tracked[u] + 1 ELSE tracked[u]
        BY <2>1, TrackCounts
    <2> QED
        BY <1>0, <1>1, <2>2, <2>3, <2>4 DEF Counted
<1> QED
    BY <1>2, <1>3, <1>4, <1>5, <1>6, <1>7, <1>8, <1>9, OthersKeepCounts

\* Only groups made from lists are updated.
LEMMA UpdatesListGroups ==
    ASSUME CountsInv, [Next]_vars
    PROVE  updating'.step # "none" => updating'.group \in ListGroups
<1> USE DEF CountsInv, titleVars
<1>1. CASE UNCHANGED updating
    BY <1>1
<1>2. CASE UpdateStops
    BY <1>2 DEF UpdateStops
<1>3. CASE UpdateRegisters
    BY <1>3 DEF UpdateRegisters, NotUpdating
<1>4. ASSUME NEW g \in Groups, NEW list \in Lists, UpdateTracks(g, list)
      PROVE  updating'.group \in ListGroups
    BY <1>4 DEF UpdateTracks
<1>5. CASE DoWork \/ UNCHANGED vars
    BY <1>1, <1>5 DEF DoWork, vars
<1>6. ASSUME NEW g \in Groups,
             InitializeGroup(g) \/ CreateFilterGroup(g) \/ GetTrackedUsers(g) \/ DestroyGroup(g)
      PROVE  UNCHANGED updating
    BY <1>6 DEF InitializeGroup, CreateFilterGroup, GetTrackedUsers, DestroyGroup
<1>7. ASSUME NEW g \in Groups, NEW list \in Lists, CreateListGroup(g, list)
      PROVE  UNCHANGED updating
    BY <1>7 DEF CreateListGroup
<1>8. ASSUME NEW r \in DOMAIN refresh,
             \/ RefreshStarts(r) \/ RefreshFails(r) \/ RefreshRetries(r) \/ RefreshAnswered(r)
             \/ RefreshTracks(r) \/ RefreshStops(r) \/ RefreshUpdates(r) \/ RefreshInitializes(r)
      PROVE  UNCHANGED updating
    BY <1>8 DEF RefreshStarts, RefreshFails, RefreshRetries, RefreshAnswered,
                RefreshTracks, RefreshStops, RefreshUpdates, RefreshInitializes
<1>9. CASE \/ Polling \/ PresenceHandled \/ HubHandled
           \/ \E u \in MayBeFollowed :
               \/ SocialRelationshipAdded(u) \/ SocialRelationshipChanged(u)
               \/ SocialRelationshipRemoved(u)
    BY <1>1, <1>9, PollingFrame
    DEF PresenceHandled, HubHandled,
        SocialRelationshipAdded, SocialRelationshipChanged, SocialRelationshipRemoved
<1> QED
    BY <1>1, <1>2, <1>3, <1>4, <1>5, <1>6, <1>7, <1>8, <1>9 DEF Next, Polling

\* The graph holds exactly as many references of a user nobody can follow as there
\* are lists with the user, in the middle of an update too, for any number of
\* groups, updates and refreshes.
THEOREM CountsAlwaysMatch ==
    ASSUME PatientTitle
    PROVE  Spec => []CountsMatchLists
<1>1. Init => StrangersInv /\ CountsInv
    <2> SUFFICES ASSUME Init PROVE StrangersInv /\ CountsInv
        OBVIOUS
    <2>1. StrangersInv
        BY DEF Init, StrangersInv, NeverFollowed, NoUpdate, NoRefresh
    <2>2. ASSUME NEW u \in Users PROVE Counted(u)
        <3>1. Listing(u) = {}
            BY GroupAssumption DEF Init, Listing, ListsUser
        <3>2. InUpdate(u) = 0 /\ tracked[u] = 0
            BY DEF Init, InUpdate, NotUpdating
        <3> QED
            BY <3>1, <3>2, FS_EmptySet DEF Counted
    <2> QED
        BY <2>1, <2>2 DEF Init, CountsInv, NotUpdating
<1>2. AllTyped /\ StrangersInv /\ [Next]_vars => StrangersInv'
    BY StrangersPreserved
<1>3. AllTyped /\ StagedInv /\ StrangersInv /\ CountsInv /\ [Next]_vars => CountsInv'
    BY CountPreserved, UpdatesListGroups DEF CountsInv
<1>4. CountsInv => CountsMatchLists
    BY DEF CountsInv, Counted, Listing, InUpdate, CountsMatchLists
<1> QED
    BY <1>1, <1>2, <1>3, <1>4, TypedHolds, StagedHolds, PTL DEF Spec
=============================================================================
