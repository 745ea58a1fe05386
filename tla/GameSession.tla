----------------------------- MODULE GameSession -----------------------------
(***************************************************************************)
(* The game session of the Multiplayer Manager: MultiplayerGameClient, the *)
(* MultiplayerSessionWriter that writes and reads its document, and the    *)
(* session directory, which numbers the changes of the document and taps   *)
(* its subscribers on the shoulder with the number of each.                *)
(*                                                                         *)
(* The title's thread runs DoWork and the title's calls.  Answers and taps *)
(* run on the threads of the worker queue, in any order.  A tap that comes *)
(* while a write is out is only noted, and the answer to the write looks   *)
(* whether the session it brought is as new as the tap.                    *)
(*                                                                         *)
(* The writes that are out are counted in a plain integer.  An answer and  *)
(* a tap use it under m_synchronizeWriteWithTapLock; the thread that made  *)
(* the write and the one that resets the writer do not take the lock.  So  *)
(* counting up and down are a load and a store, with anything in between.  *)
(***************************************************************************)
EXTENDS Integers

CONSTANTS
    NumUsers,       \* local users, who join and leave one after the other
    NoSession, Failed,
    Workers,        \* threads of the worker queue
    CountRange,     \* the count of writes is modulo this
    StartMayFail,   \* whether a call of the service may fail before it is made
    PatientTitle,   \* the title does one thing at a time: it leaves the game
                    \* only when no properties are being set, and joins one
                    \* only after the last leave has completed
    MaxNumber,      \* bound: changes of the document
    MaxResets,      \* bound: games joined and left, which each reset the writer
    MaxResyncs,     \* bound: resync messages
    MaxGets,        \* bound: reads of the document at one time
    MaxRequests     \* bound: requests and properties the title asks for

ASSUME NoSessionAssumption == NoSession \notin [number : Nat, asked : Nat]
ASSUME ThreadAssumption == "title" \notin Workers
ASSUME BoundsAssumption ==
    /\ NumUsers \in Nat \ {0} /\ MaxGets \in Nat \ {0} /\ CountRange \in Nat \ {0, 1, 2}
    /\ MaxNumber \in Nat /\ MaxResets \in Nat /\ MaxRequests \in Nat /\ MaxResyncs \in Nat
    /\ {StartMayFail, PatientTitle} \subseteq BOOLEAN

VARIABLES
    number,            \* the change number of the document in the directory
    taps,              \* taps on their way
    session,           \* m_session of the writer: its number, and m_id when it
                       \* was asked for
    id,                \* m_id
    writes,            \* m_numOfWritesInProgress
    counting,          \* of each thread, how far it is in counting a write up
    disturbed,         \* since the last quiet reset, whether the count was used
                       \* by two at a time, or before a write was counted
    tapReceived,       \* m_isTapReceived
    tapNumber,         \* m_tapChangeNumber
    resyncs,           \* m_handleResyncEventCounter > 0
    resyncInProgress,  \* m_isResyncTaskInProgress
    heard,             \* how many resync messages have come
    requests,          \* m_pendingRequestQueue is not empty
    commit,            \* m_pendingCommitInProgress
    properties,        \* a SetPropertiesOperation waits to be run
    join, leave,       \* users a JoinGameOperation, a LeaveSessionOperation has
                       \* still to get an answer for, 0 when there is none
    calls,             \* the write of a commit and that of a join: "current" in
                       \* HandleWriteSessionResult, "loaded" when it holds the
                       \* lock and has loaded the count
    gets,              \* the reads of the document
    asked              \* how much was asked for

directoryVars == <<number, taps>>
resyncVars == <<resyncs, resyncInProgress, heard>>
tapVars == <<tapReceived, tapNumber, resyncVars>>
countVars == <<counting, disturbed>>
writerVars == <<session, id, writes, countVars, tapReceived, tapNumber>>
titleVars == <<requests, properties, asked>>
vars == <<directoryVars, writerVars, resyncVars, titleVars,
          commit, join, leave, calls, gets>>

\* "refused" is the answer 412, which fails and yet brings the document.
Call(status, at, for) ==
    [status |-> status, id |-> at, result |-> Failed, refused |-> FALSE, for |-> for, count |-> 0]
NoCall == Call("none", 0, "none")
Sent(for) == Call("sent", id, for)
Writes == {"commit", "join"}

\* The title's thread counts what it wrote before it does anything else.
Threads == {"title"} \union Workers
NotCounting == [step |-> "none", for |-> "none", count |-> 0, locked |-> FALSE]
Counting(k, locked) == [step |-> "due", for |-> k, count |-> 0, locked |-> locked]
Free(t) == counting[t] = NotCounting
TitleIsFree == Free("title")

\* m_synchronizeWriteWithTapLock is held.
Locked ==
    \/ \E k \in Writes : calls[k].status = "loaded"
    \/ \E t \in Threads : counting[t].locked

Init ==
    /\ number = 0 /\ taps = {}
    /\ session = NoSession /\ id = 0
    /\ writes = 0
    /\ counting = [t \in Threads |-> NotCounting] /\ disturbed = FALSE
    /\ tapReceived = FALSE /\ tapNumber = 0
    /\ resyncs = FALSE /\ resyncInProgress = FALSE /\ heard = 0
    /\ requests = FALSE /\ commit = FALSE /\ properties = FALSE
    /\ join = 0 /\ leave = 0
    /\ calls = [k \in Writes |-> NoCall]
    /\ gets = [i \in 1..MaxGets |-> NoCall]
    /\ asked = 0

-----------------------------------------------------------------------------
(* The session directory. *)

\* A write that is accepted changes the document; one that is refused with
\* HTTP 412 brings the document as it is.
ServeWrite(k) ==
    /\ calls[k].status = "sent"
    /\ \E changed \in BOOLEAN, result \in {Failed, "document"} :
        /\ changed => number < MaxNumber /\ result = "document"
        /\ number' = IF changed THEN number + 1 ELSE number
        /\ taps' = IF changed THEN taps \union {number + 1} ELSE taps
        /\ \E refused \in {FALSE, ~changed /\ result = "document"} :
            calls' = [calls EXCEPT ![k].status = "served", ![k].refused = refused,
                   ![k].result = IF result = Failed THEN Failed ELSE number']
    /\ UNCHANGED <<writerVars, resyncVars, titleVars, commit, join, leave, gets>>

ServeGet(i) ==
    /\ gets[i].status = "sent"
    /\ \E result \in {Failed, number} :
        gets' = [gets EXCEPT ![i].status = "served", ![i].result = result]
    /\ UNCHANGED <<directoryVars, writerVars, resyncVars, titleVars,
                   commit, join, leave, calls>>

OthersChange ==
    /\ number \in 1..(MaxNumber - 1)
    /\ number' = number + 1
    /\ taps' = taps \union {number + 1}
    /\ UNCHANGED <<writerVars, resyncVars, titleVars,
                   commit, join, leave, calls, gets>>

-----------------------------------------------------------------------------
(* The session writer. *)

\* A document replaces the cached one when its number is greater or its ETag
\* differs, and the ETag differs with the number: an older one does it too.
UpdateSession(result, at) ==
    session' = IF result = Failed THEN session ELSE [number |-> result, asked |-> at]

\* What a reset does to the count: it is right again, unless it is in use.
Disturbs ==
    disturbed' = \/ \E t \in Threads : ~Free(t)
                 \/ \E k \in Writes : calls[k].status \in {"current", "loaded"}

\* Mutant: what was noted for the session that is gone is kept.
DestroyKeepsTap ==
    /\ id' = id + 1
    /\ session' = NoSession
    /\ writes' = 0 /\ Disturbs
    /\ UNCHANGED <<tapReceived, tapNumber>>

Destroy ==
    /\ id' = id + 1
    /\ session' = NoSession
    /\ tapReceived' = FALSE
    /\ writes' = 0 /\ Disturbs
    /\ tapNumber' = 0

IsWriteInProgress == writes > 0

\* SetWriteInProgress(true), when the call that starts the write has returned.
CountLoads(t) ==
    /\ counting[t].step = "due"
    /\ counting' = [counting EXCEPT ![t].step = "loaded", ![t].count = writes]
    /\ disturbed' = \/ disturbed
                    \/ \E other \in Threads : counting[other].step = "loaded"
                    \/ \E k \in Writes : calls[k].status = "loaded"
    /\ UNCHANGED <<directoryVars, session, id, writes, tapReceived, tapNumber, resyncVars,
                   titleVars, commit, join, leave, calls, gets>>

CountStores(t) ==
    /\ counting[t].step = "loaded"
    /\ writes' = (counting[t].count + 1) % CountRange
    /\ counting' = [counting EXCEPT ![t] = NotCounting]
    /\ UNCHANGED <<directoryVars, session, id, disturbed, tapReceived, tapNumber, resyncVars,
                   titleVars, commit, join, leave, calls, gets>>

\* A thread makes the call and goes on to count it, or the call fails before it
\* is made and that is ignored.
Attempts == {TRUE, ~StartMayFail}
StartWrite(t, k, callsNow, locked) ==
    /\ Free(t)
    /\ \E started \in Attempts :
        /\ calls' = [callsNow EXCEPT ![k] = IF started THEN Sent(k) ELSE NoCall]
        /\ counting' = IF started THEN [counting EXCEPT ![t] = Counting(k, locked)] ELSE counting

FreeGets == {i \in 1..MaxGets : gets[i] = NoCall}
GetCurrentSession(for) ==
    /\ FreeGets # {}
    /\ \E i \in FreeGets, started \in Attempts :
        /\ \A j \in FreeGets : i <= j
        /\ gets' = IF started THEN [gets EXCEPT ![i] = Sent(for)] ELSE gets

\* OnSessionChanged, of the writer and of the manager above it, which drops the
\* taps of a session it does not hold.
OnSessionChanged(n) ==
    IF session = NoSession THEN UNCHANGED <<tapReceived, tapNumber, gets>>
    ELSE IF IsWriteInProgress
    THEN /\ tapReceived' = (tapReceived \/ n > tapNumber)
         /\ tapNumber' = IF n > tapNumber THEN n ELSE tapNumber
         /\ UNCHANGED gets
    ELSE /\ IF n > session.number THEN GetCurrentSession("tap") ELSE UNCHANGED gets
         /\ UNCHANGED <<tapReceived, tapNumber>>

TapArrives(n) ==
    /\ n \in taps /\ ~Locked
    /\ taps' = taps \ {n}
    /\ OnSessionChanged(n)
    /\ UNCHANGED <<number, session, id, writes, countVars, resyncVars,
                   titleVars, commit, join, leave, calls>>

\* Resync: RTA lost messages, so the document is read as if it had changed, but
\* not more often than the delay allows.
Resync(resyncsNow, inProgressNow) ==
    IF session # NoSession /\ resyncsNow /\ ~inProgressNow
    THEN /\ ~Locked
         /\ resyncInProgress' = TRUE
         /\ resyncs' = FALSE
         /\ OnSessionChanged(session.number + 1)
    ELSE /\ resyncInProgress' = inProgressNow
         /\ resyncs' = resyncsNow
         /\ UNCHANGED <<tapReceived, tapNumber, gets>>

OnResyncMessageReceived ==
    /\ heard < MaxResyncs /\ heard' = heard + 1
    /\ Resync(TRUE, resyncInProgress)
    /\ UNCHANGED <<directoryVars, session, id, writes, countVars, titleVars,
                   commit, join, leave, calls>>

ResyncTask ==
    /\ resyncInProgress
    /\ Resync(resyncs, FALSE)
    /\ UNCHANGED <<heard, directoryVars, session, id, writes, countVars, titleVars,
                   commit, join, leave, calls>>

-----------------------------------------------------------------------------
(* Answers, and what the callbacks make of them. *)

\* Mutant: a commit that failed is not ended.
CallbackOfSuccess(for, succeeded, callsNow, locked) ==
    LET joinsNext == for = "join" /\ succeeded /\ join > 1 IN
    /\ commit' = (commit /\ (for # "commit" \/ ~succeeded))
    /\ join' = IF joinsNext THEN join - 1 ELSE IF for = "join" THEN 0 ELSE join
    /\ IF joinsNext THEN \E t \in Workers : StartWrite(t, "join", callsNow, locked)
       ELSE calls' = callsNow /\ UNCHANGED counting

\* The callback of a write, or of a read made for it or for a tap, and the calls
\* that are then out.  JoinGameOperation goes on to the next user, or is done.
Callback(for, succeeded, callsNow, locked) ==
    LET joinsNext == for = "join" /\ succeeded /\ join > 1 IN
    /\ commit' = (commit /\ for # "commit")
    /\ join' = CASE joinsNext -> join - 1
                 [] for = "join" /\ ~joinsNext -> 0
                 [] for # "join" -> join
    /\ IF joinsNext THEN \E t \in Workers : StartWrite(t, "join", callsNow, locked)
       ELSE calls' = callsNow /\ UNCHANGED counting

Answered(k) == [calls EXCEPT ![k] = NoCall]

\* A write of before the writer was reset.
IgnoreWrite(k) ==
    /\ calls[k].status = "served" /\ calls[k].id # id
    /\ Callback(k, FALSE, Answered(k), FALSE)
    /\ UNCHANGED <<directoryVars, session, id, writes, disturbed, tapVars, titleVars, leave, gets>>

\* Mutant: an answer is handled even if the writer was reset since.
AnyIsCurrent(k) ==
    /\ calls[k].status = "served"
    /\ calls' = [calls EXCEPT ![k].status = "current"]
    /\ UNCHANGED <<directoryVars, writerVars, resyncVars, titleVars,
                   commit, join, leave, gets>>

\* m_id is compared without the lock.
IsCurrent(k) ==
    /\ calls[k].status = "served" /\ calls[k].id = id
    /\ calls' = [calls EXCEPT ![k].status = "current"]
    /\ UNCHANGED <<directoryVars, writerVars, resyncVars, titleVars,
                   commit, join, leave, gets>>

\* HandleWriteSessionResult takes the lock, updates the session and begins to
\* count down.
HandleWriteSessionResult(k) ==
    /\ calls[k].status = "current" /\ ~Locked
    /\ UpdateSession(calls[k].result, calls[k].id)
    /\ calls' = [calls EXCEPT ![k].status = "loaded", ![k].count = writes]
    /\ disturbed' = (disturbed \/ \E t \in Threads : ~Free(t))
    /\ UNCHANGED <<directoryVars, id, writes, counting, tapVars, titleVars,
                   commit, join, leave, gets>>

IsBehind == session # NoSession /\ session.number < tapNumber

\* The rest of it.  A join that is complete updates the session once more.
WriteHandled(k) ==
    LET succeeded == calls[k].result # Failed /\ ~calls[k].refused IN
    /\ calls[k].status = "loaded"
    /\ writes' = (calls[k].count - 1) % CountRange
    /\ tapReceived' = FALSE
    /\ \/ /\ tapReceived /\ IsBehind
          /\ GetCurrentSession(k)
          /\ calls' = Answered(k)
          /\ UNCHANGED <<session, commit, join, counting>>
       \/ /\ ~(tapReceived /\ IsBehind)
          /\ Callback(k, succeeded, Answered(k), TRUE)
          /\ UpdateSession(IF k = "join" /\ join = 1 /\ succeeded THEN calls[k].result ELSE Failed,
                           calls[k].id)
          /\ UNCHANGED gets
    /\ UNCHANGED <<directoryVars, id, disturbed, tapNumber, resyncVars,
                   titleVars, leave>>

\* The answer to a read, whatever became of the writer since.
AnswerGet(i) ==
    /\ gets[i].status = "served"
    /\ gets' = [gets EXCEPT ![i] = NoCall]
    /\ UpdateSession(gets[i].result, gets[i].id)
    /\ Callback(gets[i].for, gets[i].result # Failed, calls, FALSE)
    /\ UNCHANGED <<directoryVars, id, writes, disturbed, tapVars, titleVars, leave>>

\* One user has left, or could not.  The game is left then in any case.
LeaveUser ==
    /\ leave > 0
    /\ \E left \in BOOLEAN :
        /\ left => number < MaxNumber
        /\ number' = IF left THEN number + 1 ELSE number
        /\ taps' = IF left THEN taps \union {number + 1} ELSE taps
        /\ IF left /\ leave > 1
           THEN /\ leave' = leave - 1
                /\ UNCHANGED <<id, session, tapReceived, writes, disturbed, tapNumber>>
           ELSE /\ leave' = 0
                /\ Destroy
    /\ UNCHANGED <<counting, resyncVars, titleVars, commit, join, calls, gets>>

-----------------------------------------------------------------------------
(* The title. *)

AddRequest ==
    /\ TitleIsFree /\ asked < MaxRequests /\ asked' = asked + 1
    /\ requests' = TRUE
    /\ UNCHANGED <<directoryVars, writerVars, resyncVars, properties,
                   commit, join, leave, calls, gets>>

\* DoWork takes the requests there are: those the model makes are of one type, at
\* a change of which the code would stop.  Without a session they fail at once.
DoWork ==
    /\ TitleIsFree /\ ~commit /\ requests
    /\ requests' = FALSE
    /\ \/ /\ session = NoSession
          /\ UNCHANGED <<commit, calls, counting>>
       \/ /\ session # NoSession
          /\ commit' = TRUE
          /\ StartWrite("title", "commit", calls, FALSE)
    /\ UNCHANGED <<directoryVars, session, id, writes, disturbed, tapVars, properties, asked,
                   join, leave, gets>>

\* SetPropertiesOperation::Run: while a commit is in progress, or when the weak
\* compare_exchange fails for nothing, it is to be run again.
Run(t) ==
    /\ \/ /\ properties' = TRUE
          /\ UNCHANGED <<commit, calls, counting>>
       \/ /\ ~commit
          /\ properties' = FALSE
          /\ commit' = TRUE
          /\ IF session = NoSession THEN UNCHANGED <<calls, counting>>
             ELSE StartWrite(t, "commit", calls, FALSE)
    /\ UNCHANGED <<directoryVars, session, id, writes, disturbed, tapVars, requests,
                   join, leave, gets>>

SetLocalMemberProperties ==
    /\ TitleIsFree /\ asked < MaxRequests /\ asked' = asked + 1
    /\ session # NoSession /\ ~properties
    /\ PatientTitle => leave = 0
    /\ Run("title")

RunSetProperties ==
    /\ properties
    /\ \E t \in Workers : Free(t) /\ Run(t)
    /\ UNCHANGED asked

\* A join while in a game leaves that one first, without waiting.
JoinGame ==
    /\ TitleIsFree /\ id < MaxResets
    /\ join = 0 /\ calls["join"] = NoCall
    /\ PatientTitle => leave = 0 /\ session = NoSession
    /\ session # NoSession => leave = 0
    /\ leave' = IF session # NoSession THEN NumUsers ELSE leave
    /\ join' = NumUsers
    /\ Destroy
    /\ \E started \in Attempts :
        /\ calls' = [calls EXCEPT !["join"] =
               IF started THEN Call("sent", id', "join") ELSE NoCall]
        /\ counting' = IF started THEN [counting EXCEPT !["title"] = Counting("join", FALSE)]
                       ELSE counting
    /\ UNCHANGED <<directoryVars, resyncVars, requests, properties, asked,
                   commit, gets>>

LeaveGame ==
    /\ TitleIsFree /\ session # NoSession /\ leave = 0 /\ id < MaxResets
    /\ PatientTitle => ~properties /\ join = 0
    /\ leave' = NumUsers
    /\ UNCHANGED <<directoryVars, writerVars, resyncVars, titleVars,
                   commit, join, calls, gets>>

Next ==
    \/ \E k \in Writes : \/ ServeWrite(k) \/ IgnoreWrite(k) \/ IsCurrent(k)
                         \/ HandleWriteSessionResult(k) \/ WriteHandled(k)
    \/ \E t \in Threads : CountLoads(t) \/ CountStores(t)
    \/ \E i \in 1..MaxGets : ServeGet(i) \/ AnswerGet(i)
    \/ \E n \in 1..MaxNumber : TapArrives(n)
    \/ OthersChange \/ OnResyncMessageReceived \/ ResyncTask \/ LeaveUser
    \/ AddRequest \/ DoWork \/ SetLocalMemberProperties \/ RunSetProperties
    \/ JoinGame \/ LeaveGame

\* Calls are counted and served, and answers handled; a read that may fail has
\* nothing to be made again for.
Fairness ==
    /\ \A t \in Threads : WF_vars(CountLoads(t) \/ CountStores(t))
    /\ \A k \in Writes :
           /\ WF_vars(ServeWrite(k) \/ IgnoreWrite(k) \/ IsCurrent(k) \/ WriteHandled(k))
           /\ SF_vars(HandleWriteSessionResult(k))
    /\ \A i \in 1..MaxGets : WF_vars(ServeGet(i) \/ AnswerGet(i))

Spec == Init /\ [][Next]_vars
FairSpec == Spec /\ Fairness

-----------------------------------------------------------------------------
(* Properties. *)

\* Every variable holds what its C++ member can hold, and the unsigned count of
\* writes does not wrap, until it is used by two threads at a time, or a write is
\* answered or the writer reset before the write is counted.
TypeOK ==
    /\ number \in 0..MaxNumber /\ taps \subseteq 1..MaxNumber
    /\ session \in [number : 0..MaxNumber, asked : Nat] \union {NoSession}
    /\ id \in Nat /\ writes \in 0..(CountRange - 1) /\ (~disturbed => writes <= 2)
    /\ counting \in [Threads -> [step : {"none", "due", "loaded"}, for : {"none"} \union Writes,
           count : 0..(CountRange - 1), locked : BOOLEAN]]
    /\ {disturbed, tapReceived, resyncs, resyncInProgress, requests, commit, properties}
           \subseteq BOOLEAN
    /\ tapNumber \in 0..(MaxNumber + 1) /\ heard \in 0..MaxResyncs
    /\ join \in 0..NumUsers /\ leave \in 0..NumUsers
    /\ calls \in [Writes -> [status : {"none", "sent", "served", "current", "loaded"}, id : Nat,
           result : 0..MaxNumber \union {Failed}, refused : BOOLEAN,
           for : {"none"} \union Writes, count : 0..(CountRange - 1)]]
    /\ gets \in [1..MaxGets -> [status : {"none", "sent", "served"}, id : Nat,
           result : 0..MaxNumber \union {Failed}, refused : BOOLEAN,
           for : {"none", "tap"} \union Writes, count : {0}]]

\* A tap that was only noted will be looked at: a write of this session is out
\* whose answer does it.
TapHasWrite == tapReceived => \E k \in Writes : calls[k] # NoCall /\ calls[k].id = id

\* So it is for any order of writes, taps, answers and resets, until the count is
\* disturbed in one of the ways TypeOK names.
NotedTapsAreLookedAt == ~disturbed => TapHasWrite

\* "Synchronize write session result with any changes that happened in the
\* interim": so it would have to be always.  A count that is disturbed stays
\* above zero with no write out, taps are noted for good and the session stays
\* as it is.
ChangesAreSynchronized == TapHasWrite

\* Every commit ends, so that the next can begin; every join ends, and the title
\* is told.
CommandsComplete == (commit ~> ~commit) /\ (join > 0 ~> join = 0)

\* m_id exists to ignore calls made before the writer was reset: what was asked
\* for before the game was left is never the session afterwards.
ResetIgnoresEarlierCalls == session # NoSession => session.asked = id
=============================================================================
