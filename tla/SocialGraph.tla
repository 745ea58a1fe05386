----------------------------- MODULE SocialGraph -----------------------------
(***************************************************************************)
(* SocialGraph, one local user's graph in the Social Manager, with the     *)
(* polls of its ServiceCallManager and the user groups the title made.     *)
(*                                                                         *)
(* Three kinds of actor act on it.  The title calls XblSocialManagerDoWork *)
(* and the group functions on one thread.  Completions of service calls    *)
(* and notifications from RTA arrive on threads of the worker queue.       *)
(*                                                                         *)
(* There are two mutexes, the graph's and the ServiceCallManager's.  What  *)
(* is done under one of them without waiting is a step; a thread that      *)
(* waits for one while it holds the other is seen to hold it: an answer    *)
(* waits for the graph's under the manager's, and TrackUsers, when RTA     *)
(* runs OnSubscribe inline, for the manager's under the graph's.           *)
(*                                                                         *)
(* An answer holds what the service knew when it served the call, and two  *)
(* calls may be served and answered in any order: it is any of the values. *)
(***************************************************************************)
EXTENDS Integers, FiniteSets

CONSTANTS
    Users,              \* the other users
    NoProfile,          \* a null XblSocialManagerUser pointer
    Presences,          \* presence records
    Online,             \* those that let a user into a filter group
    FollowedSets,       \* the sets of users the local user may come to follow
    Lists,              \* the lists the title makes groups from, none empty
    Groups,             \* handles of groups
    ListGroups,         \* those made from a list of users
    MaxUpdatesPerFrame, \* MAX_GRAPH_UPDATES_PER_FRAME
    PatientTitle,       \* the title waits for a group to be loaded before it
                        \* updates it, destroys it or asks whom it tracks
    EarlyResync,        \* RTA may resync before the graph is loaded at first
    OthersSubscribe,    \* the title watches the presence of users of the graph
                        \* by other means, over the same RTA connection
    StartMayFail,       \* whether a service call may fail before it is made
    MaxRefreshes,       \* bound: refreshes of the whole graph
    MaxGroups,          \* bound: groups the title makes
    MaxNotices,         \* bound: notifications, and polls of everyone
    MaxUpdates          \* bound: calls of XblSocialManagerUpdateSocialUserGroup

ASSUME GroupAssumption ==
    /\ ListGroups \subseteq Groups /\ Groups # {}
    /\ Lists \subseteq (SUBSET Users) \ {{}} /\ FollowedSets \subseteq SUBSET Users
ASSUME LimitsAssumption ==
    /\ MaxUpdatesPerFrame \in Nat \ {0}
    /\ MaxGroups \in Nat /\ MaxNotices \in Nat
    /\ MaxRefreshes \in Nat /\ MaxUpdates \in Nat
    /\ {PatientTitle, EarlyResync, OthersSubscribe, StartMayFail} \subseteq BOOLEAN

VARIABLES
    profiles,        \* m_profiles
    tracked,         \* m_trackedUsers: references, none for a user not in it
    pendingUpdates,  \* m_pendingUpdates
    initialized,     \* m_initialized
    localUserAdded,  \* m_localUserAdded
    stage,           \* m_groups, "none" for a group not in it
    initTasks,       \* groups whose Initialize is on the background queue
    wanted,          \* m_trackedUsers of a group
    wantedView,      \* m_trackedUsersView of a list group
    members,         \* m_users of a group
    loaded,          \* m_loaded of a group
    handle,          \* of each handle, "unused", "open" or "closed"
    updating,        \* the update the title is in the middle of
    updates,         \* how many it has made
    presencePending, presenceInProgress, presenceCall, presenceNext,
    hubPending, hubInProgress, hubCall, hubNext,
    refresh,         \* the refreshes of the graph, each with its progress
    notices,         \* how many notifications have come
    unfinished,      \* what each caller of PollPeopleHub has yet to do
    answering        \* the poll whose answer holds the manager's m_mutex

presenceVars == <<presencePending, presenceInProgress, presenceCall, presenceNext>>
hubVars == <<hubPending, hubInProgress, hubCall, hubNext>>
graphVars == <<profiles, tracked, pendingUpdates, initialized, localUserAdded>>
groupVars == <<stage, initTasks, wanted, wantedView, members, loaded>>
titleVars == <<handle, updating, updates>>
lockVars == <<unfinished, answering>>
vars == <<presenceVars, hubVars, graphVars, groupVars, titleVars, refresh, notices, lockVars>>

Presence == INSTANCE ServiceCallManager WITH
    usersPending <- presencePending, pollInProgress <- presenceInProgress,
    call <- presenceCall, nextPoll <- presenceNext

Hub == INSTANCE ServiceCallManager WITH
    usersPending <- hubPending, pollInProgress <- hubInProgress,
    call <- hubCall, nextPoll <- hubNext

\* What the services say of a user; the other fields of a profile have their
\* own change flag and are handled as these two.
Profiles == [followed : BOOLEAN, presence : Presences]
Changes == {"presence", "relationship"}
NoUpdate == [present |-> FALSE, changes |-> {}, profile |-> NoProfile]
Update(changes, profile) == [present |-> TRUE, changes |-> changes, profile |-> profile]
Updates == [present : BOOLEAN, changes : SUBSET Changes, profile : Profiles \union {NoProfile}]

NotUpdating == [group |-> CHOOSE g \in Groups : TRUE, list |-> {}, step |-> "none"]
NoRefresh == [step |-> "idle", previous |-> {}, answer |-> [u \in Users |-> NoProfile]]

\* The threads that ask for profiles: the title's, those of notifications, of
\* refreshes and of the answers to them.  Each first runs the OnSubscribe of the
\* users RTA calls back for at once (subscribed), then polls the users in asks.
Callers == {<<"title", 0>>} \union ({"notice"} \X (1..MaxNotices))
           \union ({"refresh", "answer"} \X (1..MaxRefreshes))
Finished == [subscribed |-> {}, asks |-> {}]

\* Nobody holds the graph's m_mutex over a wait; nobody the manager's.
GraphFree == \A c \in Callers : unfinished[c].subscribed = {}
ManagerFree == answering = "none"

Init ==
    /\ profiles = [u \in Users |-> NoProfile]
    /\ tracked = [u \in Users |-> 0]
    /\ pendingUpdates = [u \in Users |-> NoUpdate]
    /\ initialized = FALSE
    /\ localUserAdded = FALSE
    /\ stage = [g \in Groups |-> "none"]
    /\ initTasks = {}
    /\ wanted = [g \in Groups |-> {}]
    /\ wantedView = [g \in Groups |-> {}]
    /\ members = [g \in Groups |-> [u \in Users |-> NoProfile]]
    /\ loaded = [g \in Groups |-> FALSE]
    /\ handle = [g \in Groups |-> "unused"]
    /\ updating = NotUpdating
    /\ updates = 0
    /\ Presence!PollInit
    /\ Hub!PollInit
    /\ refresh = [r \in 1..MaxRefreshes |-> NoRefresh]
    /\ notices = 0
    /\ unfinished = [c \in Callers |-> Finished]
    /\ answering = "none"

-----------------------------------------------------------------------------
(* The methods of the graph, each under m_mutex. *)

\* PeoplehubPollMode IfNew polls the profiles of those not tracked yet, Always
\* those of all, Never none.  The presence service subscribes to the users that
\* are new under m_mutex, and RTA runs the OnSubscribe of a resource that is
\* Active already at once.  The profiles are asked for after m_mutex is released.
TrackUsers(caller, xuids, refreshMode) ==
    LET new == {u \in xuids : tracked[u] = 0} IN
    /\ GraphFree
    /\ tracked' = [u \in Users |-> tracked[u] + (IF u \in xuids THEN 1 ELSE 0)]
    /\ \E active \in SUBSET (IF OthersSubscribe THEN new ELSE {}) :
        unfinished' = [unfinished EXCEPT ![caller] =
            [subscribed |-> active,
             asks |-> CASE refreshMode = "IfNew" -> new
                        [] refreshMode = "Always" -> xuids
                        [] refreshMode = "Never" -> {}]]

\* OnSubscribe, through HandleDevicePresenceChanged, to the graph's handler.
OnSubscribe(caller, u) ==
    /\ u \in unfinished[caller].subscribed
    /\ ManagerFree
    /\ Presence!Poll({u})
    /\ unfinished' = [unfinished EXCEPT ![caller].subscribed = @ \ {u}]
    /\ UNCHANGED <<graphVars, groupVars, titleVars, hubVars, refresh, notices, answering>>

PollPeopleHub(caller) ==
    /\ unfinished[caller].subscribed = {} /\ unfinished[caller].asks # {}
    /\ ManagerFree
    /\ Hub!Poll(unfinished[caller].asks)
    /\ unfinished' = [unfinished EXCEPT ![caller] = Finished]
    /\ UNCHANGED <<graphVars, groupVars, titleVars, presenceVars, refresh, notices, answering>>

\* Mutant: users the graph does not track are counted down too.
StopTrackingUnknownUsers(xuids) ==
    /\ GraphFree
    /\ tracked' = [u \in Users |-> IF u \in xuids THEN tracked[u] - 1 ELSE tracked[u]]
    /\ pendingUpdates' = [u \in Users |->
           IF u \in xuids /\ tracked[u] = 1 THEN Update({}, NoProfile) ELSE pendingUpdates[u]]

StopTrackingUsers(xuids) ==
    LET leaving == {u \in xuids : tracked[u] = 1}
    IN  /\ GraphFree
        /\ tracked' = [u \in Users |->
               IF u \in xuids /\ tracked[u] > 0 THEN tracked[u] - 1 ELSE tracked[u]]
        /\ pendingUpdates' = [u \in Users |->
               IF u \in leaving THEN Update({}, NoProfile) ELSE pendingUpdates[u]]

CompareProfiles(old, updated) ==
    {c \in Changes : \/ c = "relationship" /\ old.followed # updated.followed
                     \/ c = "presence" /\ old.presence # updated.presence}

\* answer[u] is the profile in the answer, NoProfile for users it is not about.
PeoplehubResultHandler(answer) ==
    /\ GraphFree
    /\ pendingUpdates' = [u \in Users |->
        IF answer[u] = NoProfile THEN pendingUpdates[u]
        ELSE IF profiles[u] = NoProfile THEN Update({}, answer[u])
        ELSE IF CompareProfiles(profiles[u], answer[u]) # {}
             THEN Update(CompareProfiles(profiles[u], answer[u]), answer[u])
             ELSE pendingUpdates[u]]

\* Mutant: the flags of the update that was pending stay.
PresenceKeepsOldFlags(records) ==
    LET compared(u) == IF pendingUpdates[u].profile # NoProfile
                       THEN pendingUpdates[u].profile ELSE profiles[u]
        differs(u) == /\ u \in DOMAIN records
                      /\ compared(u) # NoProfile
                      /\ compared(u).presence # records[u]
    IN  GraphFree /\ pendingUpdates' = [u \in Users |->
            IF differs(u)
            THEN Update(pendingUpdates[u].changes, [compared(u) EXCEPT !.presence = records[u]])
            ELSE pendingUpdates[u]]

\* A record is compared with the update that is pending, else with the profile;
\* without either it is dropped.
PresenceResultHandler(records) ==
    LET compared(u) == IF pendingUpdates[u].profile # NoProfile
                       THEN pendingUpdates[u].profile ELSE profiles[u]
        differs(u) == /\ u \in DOMAIN records
                      /\ compared(u) # NoProfile
                      /\ compared(u).presence # records[u]
    IN  GraphFree /\ pendingUpdates' = [u \in Users |->
            IF differs(u)
            THEN Update({"presence"}, [compared(u) EXCEPT !.presence = records[u]])
            ELSE pendingUpdates[u]]

\* One update: the profile after it and the events it raises.
Removes(u) == pendingUpdates[u].present /\ tracked[u] = 0 /\ profiles[u] # NoProfile
ProfileAfter(u) ==
    IF Removes(u) THEN NoProfile
    ELSE IF pendingUpdates[u].profile # NoProfile THEN pendingUpdates[u].profile
    ELSE profiles[u]
EventsFor(u) ==
    IF Removes(u) THEN {"removed"}
    ELSE IF pendingUpdates[u].profile = NoProfile THEN {}
    ELSE IF profiles[u] = NoProfile THEN {"added"}
    ELSE pendingUpdates[u].changes

PendingUsers == {u \in Users : pendingUpdates[u].present}

\* At most limit updates, in the order of the hash table; the next call takes
\* those that are left.
ApplyGraphUpdates(limit, applied) ==
    /\ GraphFree
    /\ applied \subseteq PendingUsers
    /\ Cardinality(applied) = IF Cardinality(PendingUsers) < limit
                              THEN Cardinality(PendingUsers) ELSE limit
    /\ profiles' = [u \in Users |-> IF u \in applied THEN ProfileAfter(u) ELSE profiles[u]]
    /\ pendingUpdates' = [u \in Users |-> IF u \in applied THEN NoUpdate ELSE pendingUpdates[u]]

-----------------------------------------------------------------------------
(* The groups. *)

\* The title's thread is in none of its calls.
Idle == updating.step = "none" /\ unfinished[<<"title", 0>>] = Finished

IsMemberOfGroup(g, u, profile) ==
    IF g \in ListGroups THEN u \in wanted[g] ELSE profile.presence \in Online

\* XblSocialManagerUserGroup::DoWork, over the events of this frame.
MembersAfter(g, applied) ==
    [u \in Users |->
        IF u \notin applied \/ EventsFor(u) = {} THEN members[g][u]
        ELSE IF ProfileAfter(u) # NoProfile /\ IsMemberOfGroup(g, u, ProfileAfter(u))
             THEN ProfileAfter(u)
             ELSE NoProfile]

Shown(view) == {u \in Users : view[u] # NoProfile}
IsLoaded(g, view) ==
    g \in ListGroups => Cardinality(Shown(view)) = Cardinality(wanted[g])

StageAfter(g) == IF stage[g] = "Pending" THEN "Scheduled" ELSE stage[g]

\* The whole of a frame: the graph's m_mutex is tried and then held until the
\* groups have been told.
DoWork ==
    /\ initialized /\ Idle
    /\ localUserAdded' = TRUE
    /\ \E applied \in SUBSET Users :
        /\ ApplyGraphUpdates(MaxUpdatesPerFrame, applied)
        /\ members' = [g \in Groups |->
               IF stage[g] = "Complete" THEN MembersAfter(g, applied) ELSE members[g]]
    /\ loaded' = [g \in Groups |->
           loaded[g] \/ (stage[g] = "Complete" /\ IsLoaded(g, members'[g]))]
    /\ stage' = [g \in Groups |-> StageAfter(g)]
    /\ initTasks' = initTasks \union {g \in Groups : stage[g] = "Pending"}
    /\ UNCHANGED <<tracked, initialized, wanted, wantedView, titleVars,
                   presenceVars, hubVars, refresh, notices, lockVars>>

\* The task DoWork queued, on a background thread.  It holds the graph's m_mutex
\* and waits for the group's, which an update holds from its first step.
InitializeGroup(g) ==
    /\ g \in initTasks /\ GraphFree
    /\ ~(updating.step # "none" /\ updating.group = g)
    /\ initTasks' = initTasks \ {g}
    /\ stage' = [stage EXCEPT ![g] = "Complete"]
    /\ members' = [members EXCEPT ![g] = [u \in Users |->
           IF profiles[u] # NoProfile /\ IsMemberOfGroup(g, u, profiles[u])
           THEN profiles[u] ELSE members[g][u]]]
    /\ UNCHANGED <<wanted, wantedView, loaded, graphVars, titleVars,
                   presenceVars, hubVars, refresh, notices, lockVars>>

Usable(g) == Idle /\ handle[g] = "open" /\ (PatientTitle => loaded[g])

MayCreate(g) ==
    /\ Idle /\ handle[g] = "unused"
    /\ Cardinality({h \in Groups : handle[h] # "unused"}) < MaxGroups

\* The constructor tracks the users, then RegisterGroup makes the group Pending;
\* nothing looks at the stage before the title's next call.
CreateListGroup(g, list) ==
    /\ MayCreate(g) /\ g \in ListGroups
    /\ handle' = [handle EXCEPT ![g] = "open"]
    /\ wanted' = [wanted EXCEPT ![g] = list]
    /\ wantedView' = [wantedView EXCEPT ![g] = list]
    /\ TrackUsers(<<"title", 0>>, list, "IfNew")
    /\ stage' = [stage EXCEPT ![g] = "Pending"]
    /\ UNCHANGED <<profiles, pendingUpdates, initialized, localUserAdded, initTasks, members, loaded,
                   updating, updates, presenceVars, hubVars, refresh, notices, answering>>

CreateFilterGroup(g) ==
    /\ MayCreate(g) /\ g \notin ListGroups /\ GraphFree
    /\ handle' = [handle EXCEPT ![g] = "open"]
    /\ stage' = [stage EXCEPT ![g] = "Pending"]
    /\ UNCHANGED <<initTasks, wanted, wantedView, members, loaded, updating, updates,
                   graphVars, presenceVars, hubVars, refresh, notices, lockVars>>

\* XblSocialManagerUserGroupGetUsersTrackedByGroup: the view of a group that is
\* not loaded is cleared.  (That of a filter group is only made to be shown.)
GetTrackedUsers(g) ==
    /\ Usable(g) /\ g \in ListGroups
    /\ wantedView' = [wantedView EXCEPT ![g] = IF loaded[g] THEN @ ELSE {}]
    /\ UNCHANGED <<stage, initTasks, wanted, members, loaded, graphVars, titleVars,
                   presenceVars, hubVars, refresh, notices, lockVars>>

\* UpdateTrackedUsers, with the group's m_mutex held over three calls of the
\* graph that take the graph's.
UpdateTracks(g, list) ==
    /\ Usable(g) /\ g \in ListGroups /\ updates < MaxUpdates
    /\ TrackUsers(<<"title", 0>>, list, "IfNew")
    /\ updating' = [group |-> g, list |-> list, step |-> "stop"]
    /\ updates' = updates + 1
    /\ UNCHANGED <<profiles, pendingUpdates, initialized, localUserAdded,
                   groupVars, handle, presenceVars, hubVars, refresh, notices, answering>>

\* Mutant: the new list is given up.
UpdateStopsNew ==
    /\ updating.step = "stop" /\ unfinished[<<"title", 0>>] = Finished
    /\ StopTrackingUsers(updating.list)
    /\ updating' = [updating EXCEPT !.step = "register"]
    /\ UNCHANGED <<profiles, initialized, localUserAdded, groupVars,
                   handle, updates, presenceVars, hubVars, refresh, notices, lockVars>>

UpdateStops ==
    /\ updating.step = "stop" /\ unfinished[<<"title", 0>>] = Finished
    /\ StopTrackingUsers(wantedView[updating.group])
    /\ updating' = [updating EXCEPT !.step = "register"]
    /\ UNCHANGED <<profiles, initialized, localUserAdded, groupVars,
                   handle, updates, presenceVars, hubVars, refresh, notices, lockVars>>

\* Mutant: the members the group had stay.
UpdateKeepsMembers ==
    /\ updating.step = "register" /\ GraphFree
    /\ LET g == updating.group IN
        /\ wanted' = [wanted EXCEPT ![g] = updating.list]
        /\ wantedView' = [wantedView EXCEPT ![g] = updating.list]
        /\ stage' = [stage EXCEPT ![g] = IF @ \in {"none", "Complete"} THEN "Pending" ELSE @]
        /\ loaded' = [loaded EXCEPT ![g] = FALSE]
    /\ updating' = NotUpdating
    /\ UNCHANGED <<initTasks, members, graphVars, handle, updates, presenceVars, hubVars,
                   refresh, notices, lockVars>>

UpdateRegisters ==
    /\ updating.step = "register" /\ GraphFree
    /\ LET g == updating.group IN
        /\ wanted' = [wanted EXCEPT ![g] = updating.list]
        /\ wantedView' = [wantedView EXCEPT ![g] = updating.list]
        /\ members' = [members EXCEPT ![g] = [u \in Users |-> NoProfile]]
        /\ stage' = [stage EXCEPT ![g] = IF @ \in {"none", "Complete"} THEN "Pending" ELSE @]
        /\ loaded' = [loaded EXCEPT ![g] = FALSE]
    /\ updating' = NotUpdating
    /\ UNCHANGED <<initTasks, graphVars, handle, updates, presenceVars, hubVars,
                   refresh, notices, lockVars>>

\* The destructor, which stops tracking the users, runs when the last reference
\* goes: a task that has not run yet holds one.
DestroyGroup(g) ==
    /\ Usable(g) /\ GraphFree
    /\ handle' = [handle EXCEPT ![g] = "closed"]
    /\ stage' = [stage EXCEPT ![g] = "none"]
    /\ \/ /\ g \in ListGroups /\ g \notin initTasks
          /\ StopTrackingUsers(wantedView[g])
       \/ /\ g \notin ListGroups \/ g \in initTasks
          /\ UNCHANGED <<tracked, pendingUpdates>>
    /\ UNCHANGED <<profiles, initialized, localUserAdded, initTasks, wanted,
                   wantedView, members, loaded, updating, updates, presenceVars, hubVars,
                   refresh, notices, lockVars>>

-----------------------------------------------------------------------------
(* The refresh of the graph: PeriodicTask's first run, its later ones and   *)
(* those a resync of RTA schedules at once.  Each is a call whose answer    *)
(* takes m_mutex five times.                                                *)

RefreshStarts(r) ==
    /\ refresh[r].step = "idle" /\ GraphFree
    /\ \A p \in 1..(r - 1) : refresh[p].step # "idle"
    /\ r > 1 /\ ~EarlyResync => initialized
    /\ refresh' = [refresh EXCEPT ![r].step = "called"]
    /\ unfinished' = [unfinished EXCEPT ![<<"refresh", r>>].asks =
           {u \in Users : profiles[u] # NoProfile /\ ~profiles[u].followed}]
    /\ UNCHANGED <<graphVars, groupVars, titleVars, presenceVars, hubVars, notices, answering>>

RefreshFails(r) ==
    /\ refresh[r].step = "called"
    /\ refresh' = [refresh EXCEPT ![r].step = "retry"]
    /\ UNCHANGED <<graphVars, groupVars, titleVars, presenceVars, hubVars, notices, lockVars>>

RefreshRetries(r) ==
    /\ refresh[r].step = "retry"
    /\ refresh' = [refresh EXCEPT ![r].step = "called"]
    /\ UNCHANGED <<graphVars, groupVars, titleVars, presenceVars, hubVars, notices, lockVars>>

\* What the service says of the users it was asked for, or of those followed.
Answers(asked, followed) ==
    {a \in [Users -> Profiles \union {NoProfile}] : \A u \in Users :
        IF u \in asked THEN a[u] # NoProfile /\ a[u].followed = (u \in followed)
        ELSE a[u] = NoProfile}

\* The answer is of the users followed; those followed before are read off the
\* profiles now, and are no longer up to date when they are used.
RefreshAnswered(r) ==
    /\ refresh[r].step = "called" /\ GraphFree
    /\ \E followed \in FollowedSets : \E answer \in Answers(followed, followed) :
        refresh' = [refresh EXCEPT ![r] =
            [step |-> "track", answer |-> answer, previous |->
                {u \in Users : profiles[u] # NoProfile /\ profiles[u].followed}]]
    /\ UNCHANGED <<graphVars, groupVars, titleVars, presenceVars, hubVars, notices, lockVars>>

RefreshTracks(r) ==
    /\ refresh[r].step = "track"
    /\ TrackUsers(<<"answer", r>>, {u \in Users : refresh[r].answer[u] # NoProfile}, "Never")
    /\ refresh' = [refresh EXCEPT ![r].step = "stop"]
    /\ UNCHANGED <<profiles, pendingUpdates, initialized, localUserAdded,
                   groupVars, titleVars, presenceVars, hubVars, notices, answering>>

RefreshStops(r) ==
    /\ refresh[r].step = "stop"
    /\ StopTrackingUsers(refresh[r].previous)
    /\ refresh' = [refresh EXCEPT ![r].step = "update", ![r].previous = {}]
    /\ UNCHANGED <<profiles, initialized, localUserAdded, groupVars, titleVars,
                   presenceVars, hubVars, notices, lockVars>>

RefreshUpdates(r) ==
    /\ refresh[r].step = "update"
    /\ PeoplehubResultHandler(refresh[r].answer)
    /\ refresh' = [refresh EXCEPT ![r] =
           [NoRefresh EXCEPT !.step = IF initialized THEN "done" ELSE "initialize"]]
    /\ UNCHANGED <<profiles, tracked, initialized, localUserAdded, groupVars, titleVars,
                   presenceVars, hubVars, notices, lockVars>>

\* m_initialized is read before the mutex is taken.  The limit is 1000 until it
\* is set; the events are dropped.
RefreshInitializes(r) ==
    /\ refresh[r].step = "initialize"
    /\ \E applied \in SUBSET Users :
        ApplyGraphUpdates(IF initialized THEN MaxUpdatesPerFrame ELSE 1000, applied)
    /\ initialized' = TRUE
    /\ refresh' = [refresh EXCEPT ![r].step = "done"]
    /\ UNCHANGED <<tracked, localUserAdded, groupVars, titleVars,
                   presenceVars, hubVars, notices, lockVars>>

-----------------------------------------------------------------------------
(* Answers to the polls, and notifications. *)

\* The completion of a call that succeeded takes the manager's m_mutex.
PresenceAnswered ==
    /\ presenceCall # {} /\ ManagerFree
    /\ answering' = "presence"
    /\ UNCHANGED <<graphVars, groupVars, titleVars, presenceVars, hubVars, refresh, notices, unfinished>>

HubAnswered ==
    /\ hubCall # {} /\ ManagerFree
    /\ answering' = "hub"
    /\ UNCHANGED <<graphVars, groupVars, titleVars, presenceVars, hubVars, refresh, notices, unfinished>>

\* It hands the answer to the graph, whose handler takes the graph's m_mutex, and
\* goes on with the poll.
PresenceHandled ==
    /\ answering = "presence" /\ answering' = "none"
    /\ Presence!PollSucceeds
    /\ \E records \in [presenceCall -> Presences] : PresenceResultHandler(records)
    /\ UNCHANGED <<profiles, tracked, initialized, localUserAdded, groupVars, titleVars,
                   hubVars, refresh, notices, unfinished>>

HubHandled ==
    /\ answering = "hub" /\ answering' = "none"
    /\ Hub!PollSucceeds
    /\ \E followed \in FollowedSets : \E answer \in Answers(hubCall, followed) :
        PeoplehubResultHandler(answer)
    /\ UNCHANGED <<profiles, tracked, initialized, localUserAdded, groupVars, titleVars,
                   presenceVars, refresh, notices, unfinished>>

\* The failure and the retry of a call of either poll.
PresencePolls ==
    /\ ManagerFree
    /\ Presence!PollFails \/ Presence!RunNextPoll
    /\ UNCHANGED <<graphVars, groupVars, titleVars, hubVars, refresh, notices, lockVars>>

HubPolls ==
    /\ ManagerFree
    /\ Hub!PollFails \/ Hub!RunNextPoll
    /\ UNCHANGED <<graphVars, groupVars, titleVars, presenceVars, refresh, notices, lockVars>>

Notice == notices < MaxNotices /\ notices' = notices + 1
Notified == <<"notice", notices'>>

\* A device or a title of one user changed, or the periodic poll of everyone
\* tracked that SetRichPresencePolling turns on, which reads them first.
PresenceChanged ==
    /\ Notice /\ ManagerFree
    /\ \/ \E u \in Users : Presence!Poll({u})
       \/ GraphFree /\ Presence!Poll({u \in Users : tracked[u] > 0})
    /\ UNCHANGED <<graphVars, groupVars, titleVars, hubVars, refresh, lockVars>>

SocialRelationshipAdded(u) ==
    /\ Notice
    /\ TrackUsers(Notified, {u}, "Always")
    /\ UNCHANGED <<profiles, pendingUpdates, initialized, localUserAdded,
                   groupVars, titleVars, presenceVars, hubVars, refresh, answering>>

SocialRelationshipChanged(u) ==
    /\ Notice
    /\ unfinished' = [unfinished EXCEPT ![Notified].asks = {u}]
    /\ UNCHANGED <<graphVars, groupVars, titleVars, presenceVars, hubVars, refresh, answering>>

SocialRelationshipRemoved(u) ==
    /\ Notice
    /\ StopTrackingUsers({u})
    /\ unfinished' = [unfinished EXCEPT ![Notified].asks = {v \in {u} : tracked'[v] > 0}]
    /\ UNCHANGED <<profiles, initialized, localUserAdded, groupVars, titleVars,
                   presenceVars, hubVars, refresh, answering>>

MayBeFollowed == UNION FollowedSets

Next ==
    \/ DoWork \/ UpdateStops \/ UpdateRegisters
    \/ \E g \in Groups :
        \/ InitializeGroup(g) \/ CreateFilterGroup(g) \/ GetTrackedUsers(g) \/ DestroyGroup(g)
        \/ \E list \in Lists : CreateListGroup(g, list) \/ UpdateTracks(g, list)
    \/ \E r \in DOMAIN refresh :
        \/ RefreshStarts(r) \/ RefreshFails(r) \/ RefreshRetries(r) \/ RefreshAnswered(r)
        \/ RefreshTracks(r) \/ RefreshStops(r) \/ RefreshUpdates(r) \/ RefreshInitializes(r)
    \/ \E c \in Callers : PollPeopleHub(c) \/ \E u \in Users : OnSubscribe(c, u)
    \/ PresenceAnswered \/ PresenceHandled \/ HubAnswered \/ HubHandled
    \/ PresencePolls \/ HubPolls \/ PresenceChanged
    \/ \E u \in MayBeFollowed : \/ SocialRelationshipAdded(u) \/ SocialRelationshipChanged(u)
                                \/ SocialRelationshipRemoved(u)

RefreshGoesOn(r) ==
    \/ RefreshStarts(r) \/ RefreshRetries(r) \/ RefreshTracks(r) \/ RefreshStops(r)
    \/ RefreshUpdates(r) \/ RefreshInitializes(r)

\* The title calls DoWork every frame and queued work runs.  A call that is made
\* again whenever it fails is answered sooner or later, and the first refresh was
\* scheduled when the graph was made.  Nothing is asked of later refreshes.  A
\* thread that waits for a mutex takes it once it stays free.
Fairness ==
    /\ WF_vars(DoWork \/ UpdateStops \/ UpdateRegisters)
    /\ WF_vars(\E g \in Groups : InitializeGroup(g))
    /\ WF_vars(HubPolls /\ Hub!RunNextPoll)
    /\ SF_vars(HubAnswered)
    /\ WF_vars(HubHandled \/ PresenceHandled)
    /\ WF_vars(\E c \in Callers : PollPeopleHub(c) \/ \E u \in Users : OnSubscribe(c, u))
    /\ \A r \in {1} \intersect 1..MaxRefreshes :
        WF_vars(RefreshGoesOn(r)) /\ SF_vars(RefreshAnswered(r))

Spec == Init /\ [][Next]_vars
FairSpec == Spec /\ Fairness

-----------------------------------------------------------------------------
(* Properties. *)

\* Every variable holds what its C++ member can hold.
TypeOK ==
    /\ profiles \in [Users -> Profiles \union {NoProfile}]
    /\ tracked \in [Users -> Nat]
    /\ pendingUpdates \in [Users -> Updates]
    /\ initialized \in BOOLEAN /\ localUserAdded \in BOOLEAN
    /\ stage \in [Groups -> {"none", "Pending", "Scheduled", "Complete"}]
    /\ initTasks \in SUBSET Groups
    /\ wanted \in [Groups -> SUBSET Users] /\ wantedView \in [Groups -> SUBSET Users]
    /\ members \in [Groups -> [Users -> Profiles \union {NoProfile}]]
    /\ loaded \in [Groups -> BOOLEAN]
    /\ handle \in [Groups -> {"unused", "open", "closed"}]
    /\ updating \in [group : Groups, list : SUBSET Users, step : {"none", "stop", "register"}]
    /\ updates \in 0..MaxUpdates /\ notices \in 0..MaxNotices
    /\ Presence!PollTypeOK /\ Hub!PollTypeOK
    /\ refresh \in [1..MaxRefreshes ->
           [step : {"idle", "called", "retry", "track", "stop", "update", "initialize", "done"},
            previous : SUBSET Users, answer : [Users -> Profiles \union {NoProfile}]]]
    /\ unfinished \in [Callers -> [subscribed : SUBSET Users, asks : SUBSET Users]]
    /\ answering \in {"none", "presence", "hub"}

\* Neither poll is ever stuck: while users wait for one, or its flag is set,
\* there is a call out or a task queued that will go on with it, whatever mix
\* of answers, failures, retries and requests came before.
PollsEnd == Presence!PollEnds /\ Hub!PollEnds

\* A group that has been initialized shows exactly the users of the graph that
\* belong to it, each by the profile the graph now holds.  Groups keep raw
\* pointers to profiles the graph owns, and learn of a change only from the
\* event that reports it: an update applied without one leaves a dangling
\* pointer.
ViewsAreCurrent ==
    \A g \in Groups : stage[g] = "Complete" =>
        \A u \in Users :
            members[g][u] = IF profiles[u] # NoProfile /\ IsMemberOfGroup(g, u, profiles[u])
                            THEN profiles[u] ELSE NoProfile

\* A frame that changes the presence of a user who stays in the graph reports
\* it: merging a second answer into an update not applied yet never loses the
\* presence flag.  (It loses the relationship flag.)
PresenceChangesReported ==
    [][refresh' = refresh =>
        \A u \in Users :
            /\ profiles[u] # NoProfile /\ profiles'[u] # NoProfile
            /\ profiles[u].presence # profiles'[u].presence
            => "presence" \in EventsFor(u)]_vars

\* The references of a user only lists ask for are exactly those the lists
\* hold, also in the middle of an update, which holds both lists for a while:
\* none is leaked, and none is given up twice.
ListsUser(g, u) ==
    /\ handle[g] = "open" /\ u \in wantedView[g]
    /\ ~(updating.step = "register" /\ updating.group = g)

CountsMatchLists ==
    \A u \in Users \ MayBeFollowed :
        tracked[u] = Cardinality({g \in ListGroups : ListsUser(g, u)})
                     + (IF updating.step # "none" /\ u \in updating.list THEN 1 ELSE 0)

\* An update holds the group's mutex and waits for the graph's; Initialize holds
\* the graph's and waits for the group's.  They never meet: no group is updated
\* while its Initialize is queued.
NoLockCycle == updating.step # "none" => updating.group \notin initTasks

\* Whoever holds the graph's mutex and waits for the manager's does not meet an
\* answer, which holds the manager's and waits for the graph's.  Where somebody
\* else subscribes to a user of the graph, the code breaks it (README, section 6).
NoMutexCycle == ~GraphFree => ManagerFree

\* Neither a poll nor a thread of the graph waits for something that cannot come,
\* as long as nobody else subscribes to the presence of the graph's users.
NothingBlocks == PollsEnd /\ NoLockCycle /\ NoMutexCycle

\* Every group for a list of users nobody follows is loaded, unless the title
\* gives it up or threads have locked each other out, which NothingBlocks excludes
\* where nobody else subscribes to these users.  (A list with a followed user may
\* never be: when the user is no longer followed, the graph gives up the list's
\* reference instead of its own.)
IsLoading(g) == handle[g] = "open" /\ wantedView[g] \intersect MayBeFollowed = {}
GroupsLoad ==
    \A g \in Groups : IsLoading(g) ~> (loaded[g] \/ ~IsLoading(g) \/ ~NoMutexCycle)

\* Nobody stays in the graph who is not tracked: the update that removes the
\* user is pending.
UntrackedUsersLeave ==
    \A u \in Users : profiles[u] # NoProfile /\ tracked[u] = 0 => pendingUpdates[u].present
=============================================================================
