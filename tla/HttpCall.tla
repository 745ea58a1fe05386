------------------------------ MODULE HttpCall ------------------------------
(***************************************************************************)
(* The calls of Xbox services: XblHttpCall over HttpCall, the set of       *)
(* expired tokens in GlobalState, and, outside the sources, the token      *)
(* service XAL and the HTTP provider.                                      *)
(*                                                                         *)
(* A call asks XAL for a token, hands its request to the provider and      *)
(* waits.  A first answer 401 is not given to the client: the user's token *)
(* is reported as expired, a copy of the request is made and the call is   *)
(* performed a second time.  The next token anyone asks for that user is   *)
(* then a new one.                                                         *)
(*                                                                         *)
(* Two threads work on a call at a time: the one that handed the request   *)
(* to the provider, which has yet to count its reference, and the one that *)
(* brings the answer and uncounts it.  A reference is counted first and    *)
(* then kept, uncounted first and then dropped.                            *)
(***************************************************************************)
EXTENDS Integers, FiniteSets

CONSTANTS
    Calls, Users, UserOf,
    RetryAllowed,     \* the calls that may be retried after a 401
    XalWaits,         \* XAL answers nobody with the old token of a user while
                      \* it makes a new one
    RefreshMayFail    \* whether a new token may fail to be made

ASSUME UsersAssumption ==
    /\ UserOf \in [Calls -> Users] /\ RetryAllowed \subseteq Calls
    /\ {XalWaits, RefreshMayFail} \subseteq BOOLEAN

Attempts == {1, 2}

VARIABLES
    expired,     \* m_userExpiredTokens
    token,       \* XAL's token of each user, numbered from 1
    step,        \* m_step
    performed,   \* m_performAlreadyCalled
    retried,     \* m_hasPerformedRetryOn401
    refs,        \* m_refCount; below zero it wraps: -1 stands for 2^32 - 1
    held,        \* m_extraRefHolder is set
    thread,      \* where the thread is that performs an attempt
    attempt,     \* where the request is, and the thread that brings the answer
    status,      \* what the answer is
    forced,      \* the attempt asked for a new token
    used,        \* the token of the attempt, 0 when it has none
    done         \* how often the client's callback was called

userVars == <<expired, token>>
callVars == <<step, performed, retried>>
refVars == <<refs, held>>
tokenVars == <<forced, used>>
vars == <<userVars, callVars, refVars, tokenVars, thread, attempt, status, done>>

Statuses == {"ok", "unauthorized", "failed"}

Init ==
    /\ expired = {} /\ token = [u \in Users |-> 1]
    /\ step = [c \in Calls |-> "Pending"]
    /\ performed = [c \in Calls |-> FALSE] /\ retried = [c \in Calls |-> FALSE]
    /\ refs = [c \in Calls |-> 0] /\ held = [c \in Calls |-> FALSE]
    /\ thread = [c \in Calls |-> [a \in Attempts |-> "none"]]
    /\ attempt = [c \in Calls |-> [a \in Attempts |-> "none"]]
    /\ status = [c \in Calls |-> [a \in Attempts |-> "none"]]
    /\ forced = [c \in Calls |-> [a \in Attempts |-> FALSE]]
    /\ used = [c \in Calls |-> [a \in Attempts |-> 0]]
    /\ done = [c \in Calls |-> 0]

ThreadGoes(c, a, to) == thread' = [thread EXCEPT ![c][a] = to]
AttemptGoes(c, a, to) == attempt' = [attempt EXCEPT ![c][a] = to]
Finish(c) == done' = [done EXCEPT ![c] = @ + 1]

-----------------------------------------------------------------------------
(* XblHttpCall::Perform, on to User::GetTokenAndSignature. *)

\* The thread that performs the first attempt starts here; that of the second
\* has reported the token before.
MayAsk(c, a) == IF a = 1 THEN thread[c][1] = "none" ELSE thread[c][a] = "reported"

\* EraseUserExpiredToken tells whether the token is to be a new one.  A client
\* whose first attempt fails here has the error from Perform itself.
GetTokenAndSignature(c, a) ==
    /\ MayAsk(c, a)
    /\ forced' = [forced EXCEPT ![c][a] = UserOf[c] \in expired]
    /\ expired' = expired \ {UserOf[c]}
    /\ \/ ThreadGoes(c, a, "asked") /\ UNCHANGED done
       \/ /\ forced'[c][a] => RefreshMayFail
          /\ ThreadGoes(c, a, "gone")
          /\ IF a = 1 THEN UNCHANGED done ELSE Finish(c)
    /\ UNCHANGED <<token, callVars, refVars, used, attempt, status>>

IsRefreshing(u) ==
    \E d \in Calls, b \in Attempts :
        UserOf[d] = u /\ thread[d][b] = "asked" /\ forced[d][b]

GiveToken(c, a) ==
    /\ thread[c][a] = "asked"
    /\ XalWaits => forced[c][a] \/ ~IsRefreshing(UserOf[c])
    /\ token' = IF forced[c][a] THEN [token EXCEPT ![UserOf[c]] = @ + 1] ELSE token
    /\ used' = [used EXCEPT ![c][a] = token'[UserOf[c]]]
    /\ ThreadGoes(c, a, "given")
    /\ UNCHANGED <<expired, callVars, refVars, forced, attempt, status, done>>

\* Mutant: nobody is told that there is no token.
TokenFails_Silently(c, a) ==
    /\ thread[c][a] = "asked"
    /\ forced[c][a] => RefreshMayFail
    /\ ThreadGoes(c, a, "gone")
    /\ UNCHANGED <<userVars, callVars, refVars, tokenVars, attempt, status, done>>

\* The client is told.
TokenFails(c, a) ==
    /\ thread[c][a] = "asked"
    /\ forced[c][a] => RefreshMayFail
    /\ ThreadGoes(c, a, "gone")
    /\ Finish(c)
    /\ UNCHANGED <<userVars, callVars, refVars, tokenVars, attempt, status>>

-----------------------------------------------------------------------------
(* HttpCall::Perform and RefCounter. *)

\* The request is handed to the provider, which may refuse it.
PerformAsync(c, a) ==
    /\ thread[c][a] = "given"
    /\ performed' = [performed EXCEPT ![c] = TRUE]
    /\ \/ /\ step' = [step EXCEPT ![c] = "Running"]
          /\ ThreadGoes(c, a, "sent") /\ AttemptGoes(c, a, "out")
          /\ UNCHANGED done
       \/ /\ step' = [step EXCEPT ![c] = "Done"]
          /\ ThreadGoes(c, a, "gone") /\ Finish(c)
          /\ UNCHANGED attempt
    /\ UNCHANGED <<userVars, retried, refVars, tokenVars, status>>

\* Mutant: the reference is never counted.
AddRef_Not(c, a) ==
    /\ thread[c][a] = "sent"
    /\ ThreadGoes(c, a, "gone")
    /\ UNCHANGED <<userVars, callVars, refVars, tokenVars, attempt, status, done>>

\* The count is one step of its own.  If the answer was faster it is below zero
\* before and zero after, and nothing is kept.
AddRef(c, a) ==
    /\ thread[c][a] = "sent"
    /\ refs' = [refs EXCEPT ![c] = @ + 1]
    /\ ThreadGoes(c, a, IF refs[c] = 0 THEN "counted" ELSE "gone")
    /\ UNCHANGED <<userVars, callVars, held, tokenVars, attempt, status, done>>

HoldItself(c, a) ==
    /\ thread[c][a] = "counted"
    /\ held' = [held EXCEPT ![c] = TRUE]
    /\ ThreadGoes(c, a, "gone")
    /\ UNCHANGED <<userVars, callVars, refs, tokenVars, attempt, status, done>>

Answer(c, a) ==
    /\ attempt[c][a] = "out"
    /\ \E answer \in Statuses : status' = [status EXCEPT ![c][a] = answer]
    /\ AttemptGoes(c, a, "answered")
    /\ UNCHANGED <<userVars, callVars, refVars, tokenVars, thread, done>>

\* CompletionCallback takes a reference of its own and uncounts the one that was
\* counted for it.
DecRef(c, a) ==
    /\ attempt[c][a] = "answered"
    /\ refs' = [refs EXCEPT ![c] = @ - 1]
    /\ AttemptGoes(c, a, IF refs[c] = 1 THEN "last" ELSE "calling")
    /\ UNCHANGED <<userVars, callVars, held, tokenVars, thread, status, done>>

-----------------------------------------------------------------------------
(* XblHttpCall::IntermediateHttpCallCompleteCallback. *)

\* HandleAuthError makes a second attempt after the first 401 only.
\* Mutant: of every 401.
IsRetried_Always(c, a) == status[c][a] = "unauthorized" /\ c \in RetryAllowed
IsRetried(c, a) ==
    status[c][a] = "unauthorized" /\ c \in RetryAllowed /\ ~retried[c]

\* Mutant: the retry does not report the token.
Retry_Silently(c) ==
    /\ step' = [step EXCEPT ![c] = "Pending"]
    /\ performed' = [performed EXCEPT ![c] = FALSE]
    /\ ThreadGoes(c, 2, "reported")
    /\ UNCHANGED <<expired, done>>

\* ResetAndCopyForRetry, and the report with which Perform begins.
Retry(c) ==
    /\ step' = [step EXCEPT ![c] = "Pending"]
    /\ performed' = [performed EXCEPT ![c] = FALSE]
    /\ expired' = expired \union {UserOf[c]}
    /\ ThreadGoes(c, 2, "reported")
    /\ UNCHANGED done

CompletionCallback(c, a) ==
    /\ attempt[c][a] \in {"last", "calling"}
    /\ held' = [held EXCEPT ![c] = @ /\ attempt[c][a] # "last"]
    /\ AttemptGoes(c, a, "ended")
    /\ retried' = [retried EXCEPT ![c] = @ \/ IsRetried(c, a)]
    /\ \/ IsRetried(c, a) /\ Retry(c)
       \/ \* Nothing is tried again, or the copy could not be made.
          /\ step' = [step EXCEPT ![c] = "Done"]
          /\ Finish(c)
          /\ UNCHANGED <<performed, expired, thread>>
    /\ UNCHANGED <<token, refs, tokenVars, status>>

Next ==
    \E c \in Calls, a \in Attempts :
        \/ GetTokenAndSignature(c, a) \/ GiveToken(c, a) \/ TokenFails(c, a)
        \/ PerformAsync(c, a) \/ AddRef(c, a) \/ HoldItself(c, a)
        \/ Answer(c, a) \/ DecRef(c, a) \/ CompletionCallback(c, a)

\* Callbacks are run, XAL and the provider answer; the client performs a call if
\* it likes.
Fairness ==
    \A c \in Calls, a \in Attempts :
        /\ WF_vars(a = 2 /\ GetTokenAndSignature(c, a))
        /\ WF_vars(GiveToken(c, a) \/ TokenFails(c, a) \/ PerformAsync(c, a))
        /\ WF_vars(Answer(c, a) \/ DecRef(c, a) \/ CompletionCallback(c, a))

Spec == Init /\ [][Next]_vars
FairSpec == Spec /\ Fairness

-----------------------------------------------------------------------------
(* Properties. *)

\* Every variable holds what its C++ member can hold, and the reference count is
\* never further from the truth than the one step it may be late.
TypeOK ==
    /\ expired \subseteq Users /\ token \in [Users -> Nat]
    /\ step \in [Calls -> {"Pending", "Running", "Done"}]
    /\ performed \in [Calls -> BOOLEAN] /\ retried \in [Calls -> BOOLEAN]
    /\ refs \in [Calls -> -2..1] /\ held \in [Calls -> BOOLEAN]
    /\ thread \in [Calls -> [Attempts ->
           {"none", "reported", "asked", "given", "sent", "counted", "gone"}]]
    /\ attempt \in [Calls -> [Attempts ->
           {"none", "out", "answered", "last", "calling", "ended"}]]
    /\ status \in [Calls -> [Attempts -> Statuses \union {"none"}]]
    /\ forced \in [Calls -> [Attempts -> BOOLEAN]]
    /\ used \in [Calls -> [Attempts -> Nat]]
    /\ done \in [Calls -> Nat]

IsPerforming(c, a) == thread[c][a] \notin {"none", "gone"}
IsOut(c, a) == attempt[c][a] \in {"out", "answered"}
IsCallingBack(c, a) == attempt[c][a] \in {"last", "calling"}

\* A call whose request is out is kept alive, by its own reference or by a thread
\* that works on it, however late the reference is counted.
KeptAlive ==
    \A c \in Calls, a \in Attempts : IsOut(c, a) =>
        held[c] \/ \E b \in Attempts : IsPerforming(c, b) \/ IsCallingBack(c, b)

\* A request is handed over from a pending call with a handle that was never
\* performed, which is what the assertions and libHttpClient ask for, and a call
\* is running as long as its request is out.
StepsInOrder ==
    \A c \in Calls, a \in Attempts :
        /\ thread[c][a] = "given" => step[c] = "Pending" /\ ~performed[c]
        /\ IsOut(c, a) => step[c] = "Running"

\* The client is called back once, and then nothing is asked or sent for it.
CompletesOnce ==
    \A c \in Calls :
        /\ done[c] <= 1
        /\ done[c] = 1 => \A a \in Attempts :
               /\ thread[c][a] \notin {"reported", "asked", "given"}
               /\ ~IsOut(c, a) /\ ~IsCallingBack(c, a)

CallsAreSound == KeptAlive /\ StepsInOrder /\ CompletesOnce

\* The second attempt, which is the last, is not made with the token the service
\* rejected, whichever call of the user it was that had the new one made.
RetryIsFresh ==
    \A c \in Calls : used[c][2] # 0 => used[c][2] > used[c][1]

\* A call that was started completes.
CallsComplete ==
    \A c \in Calls : thread[c][1] = "asked" ~> done[c] = 1

\* A call that is over is let go.  It is not when the reference is uncounted
\* between the two steps that count and keep it.
NothingLeaks ==
    \A c \in Calls :
        (done[c] = 1 /\ \A a \in Attempts : ~IsPerforming(c, a)) => ~held[c]
=============================================================================
