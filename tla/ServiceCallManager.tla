------------------------- MODULE ServiceCallManager -------------------------
(***************************************************************************)
(* One of the two polls of SocialGraph's ServiceCallManager: PollPresence  *)
(* and PollPeopleHub are the same code over their own three members, with  *)
(* their own service.  Users are batched: those asked for while a poll is  *)
(* in progress wait for the next one, and those of a call that fails are   *)
(* asked for again.  Each method, and each completion with the result      *)
(* handler it runs, holds m_mutex from its first step to its last.         *)
(***************************************************************************)
CONSTANTS
    Users,
    StartMayFail  \* whether the service call may fail before it is made

VARIABLES
    usersPending,    \* m_usersPendingPresence, m_usersPendingPeoplehub
    pollInProgress,  \* m_presencePollInProgress, m_peoplehubPollInProgress
    call,            \* pollXuids of the call being made, {} when there is none
    nextPoll         \* whether the next service call is scheduled on m_queue

pollVars == <<usersPending, pollInProgress, call, nextPoll>>

PollInit ==
    /\ usersPending = {}
    /\ pollInProgress = FALSE
    /\ call = {}
    /\ nextPoll = FALSE

\* The poll is in progress and the pending users are cleared even when the
\* call was not made.
PollServiceCall(xuids) ==
    \/ /\ xuids = {}
       /\ usersPending' = xuids
       /\ UNCHANGED <<pollInProgress, call>>
    \/ /\ xuids # {}
       /\ call' \in (IF StartMayFail THEN {xuids, {}} ELSE {xuids})
       /\ pollInProgress' = TRUE
       /\ usersPending' = {}

Poll(xuids) ==
    /\ \/ /\ pollInProgress
          /\ usersPending' = usersPending \union xuids
          /\ UNCHANGED <<pollInProgress, call>>
       \/ /\ ~pollInProgress
          /\ PollServiceCall(usersPending \union xuids)
    /\ UNCHANGED nextPoll

\* Mutant: the poll ends though users wait for the next call.
PollEndsEarly ==
    /\ call # {}
    /\ call' = {}
    /\ nextPoll' = (usersPending # {})
    /\ pollInProgress' = FALSE
    /\ UNCHANGED usersPending

PollSucceeds ==
    /\ call # {}
    /\ call' = {}
    /\ nextPoll' = (usersPending # {})
    /\ pollInProgress' = (usersPending # {})
    /\ UNCHANGED usersPending

\* Mutant: the users of the failed call are not asked for again.
FailedUsersForgotten ==
    /\ call # {}
    /\ call' = {}
    /\ nextPoll' = TRUE
    /\ UNCHANGED <<usersPending, pollInProgress>>

PollFails ==
    /\ call # {}
    /\ call' = {}
    /\ usersPending' = usersPending \union call
    /\ nextPoll' = TRUE
    /\ UNCHANGED pollInProgress

RunNextPoll ==
    /\ nextPoll
    /\ nextPoll' = FALSE
    /\ PollServiceCall(usersPending)

PollTypeOK ==
    /\ usersPending \in SUBSET Users
    /\ pollInProgress \in BOOLEAN
    /\ call \in SUBSET Users
    /\ nextPoll \in BOOLEAN

\* A poll is in progress exactly while one call is out or one is scheduled,
\* so that something will end it, and nobody waits while none is in progress:
\* the flag set after the call, the users cleared after they were copied and
\* the retry add up, whatever came in between.
PollEnds ==
    /\ pollInProgress <=> (call # {} \/ nextPoll)
    /\ ~(call # {} /\ nextPoll)
    /\ usersPending # {} => pollInProgress
    /\ nextPoll => usersPending # {}
=============================================================================
