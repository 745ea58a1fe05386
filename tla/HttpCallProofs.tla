--------------------------- MODULE HttpCallProofs ---------------------------
(***************************************************************************)
(* Proofs about HttpCall, for any calls of any users.                      *)
(*                                                                         *)
(* The invariant says how far the two attempts of a call may have come     *)
(* relative to one another, and from that what the reference count must    *)
(* be: how many references were counted less how many were uncounted.  Two *)
(* threads may be late with the count, so it may be below zero; but the    *)
(* one that counts last finds it at zero and keeps the call.               *)
(***************************************************************************)
EXTENDS HttpCall, TLAPS

-----------------------------------------------------------------------------
(* The invariant. *)

CallType ==
    /\ expired \subseteq Users /\ token \in [Users -> Nat]
    /\ step \in [Calls -> {"Pending", "Running", "Done"}]
    /\ performed \in [Calls -> BOOLEAN] /\ retried \in [Calls -> BOOLEAN]
    /\ refs \in [Calls -> Int] /\ held \in [Calls -> BOOLEAN]
    /\ thread \in [Calls -> [Attempts ->
           {"none", "reported", "asked", "given", "sent", "counted", "gone"}]]
    /\ attempt \in [Calls -> [Attempts ->
           {"none", "out", "answered", "last", "calling", "ended"}]]
    /\ status \in [Calls -> [Attempts -> Statuses \union {"none"}]]
    /\ forced \in [Calls -> [Attempts -> BOOLEAN]]
    /\ used \in [Calls -> [Attempts -> Nat]]
    /\ done \in [Calls -> Nat]

IsPreparing(c, a) == thread[c][a] \in {"reported", "asked", "given"}
HasStarted(c, a) == attempt[c][a] # "none"

\* A request is out only once its thread has handed it over, and a second
\* attempt is made only when the first has ended in a retry.
InTurn(c) ==
    /\ \A a \in Attempts :
        /\ HasStarted(c, a) => thread[c][a] \in {"sent", "counted", "gone"}
        /\ thread[c][a] \in {"sent", "counted"} => HasStarted(c, a)
    /\ thread[c][2] # "none" => attempt[c][1] = "ended" /\ retried[c]
    /\ retried[c] => attempt[c][1] = "ended"

\* A call that prepares an attempt is pending, one whose request is out runs.
Steps(c) ==
    \A a \in Attempts :
        /\ IsPreparing(c, a) \/ (a = 1 /\ thread[c][1] = "none")
           => step[c] = "Pending" /\ ~performed[c]
        /\ IsOut(c, a) => step[c] = "Running"

\* A call is done once, and nothing goes on for it then.
Over(c) ==
    /\ done[c] \in {0, 1}
    /\ done[c] = 1 =>
        /\ thread[c][1] # "none"
        /\ \A a \in Attempts : ~IsPreparing(c, a) /\ ~IsOut(c, a) /\ ~IsCallingBack(c, a)

Counted(c, a) == IF HasStarted(c, a) /\ thread[c][a] # "sent" THEN 1 ELSE 0
Uncounted(c, a) == IF attempt[c][a] \in {"last", "calling", "ended"} THEN 1 ELSE 0
RefsExact(c) ==
    refs[c] = Counted(c, 1) + Counted(c, 2) - Uncounted(c, 1) - Uncounted(c, 2)

\* A request that is out and has no thread left to count it is kept.
Kept(c) ==
    (\E a \in Attempts : IsOut(c, a)) /\ (\A a \in Attempts : ~IsPerforming(c, a)) => held[c]

CallInv(c) == InTurn(c) /\ Steps(c) /\ Over(c) /\ RefsExact(c) /\ Kept(c)
Inv == CallType /\ \A c \in Calls : CallInv(c)

Step(c, a) ==
    \/ GetTokenAndSignature(c, a) \/ GiveToken(c, a) \/ TokenFails(c, a)
    \/ PerformAsync(c, a) \/ AddRef(c, a) \/ HoldItself(c, a)
    \/ Answer(c, a) \/ DecRef(c, a) \/ CompletionCallback(c, a)

-----------------------------------------------------------------------------
(* Its first half: every variable keeps its type. *)

\* Every step keeps the types.
LEMMA TypePreserved ==
    ASSUME CallType, NEW c \in Calls, NEW a \in Attempts, Step(c, a)
    PROVE  CallType'
<1> UserOf[c] \in Users
    BY UsersAssumption
<1>1. CASE GetTokenAndSignature(c, a)
    <2>1. /\ expired' \subseteq Users
          /\ forced' \in [Calls -> [Attempts -> BOOLEAN]]
          /\ UNCHANGED <<token, step, performed, retried, refs, held, used, attempt, status>>
        BY <1>1 DEF GetTokenAndSignature, CallType, refVars, callVars
    <2>2. CASE ThreadGoes(c, a, "asked") /\ UNCHANGED done
        BY <2>1, <2>2 DEF CallType, ThreadGoes
    <2>3. CASE ThreadGoes(c, a, "gone") /\ (UNCHANGED done \/ Finish(c))
        <3>1. done' \in [Calls -> Nat]
            <4>1. CASE UNCHANGED done
                BY <4>1 DEF CallType
            <4>2. CASE Finish(c)
                BY <4>2 DEF CallType, Finish
            <4> QED
                BY <2>3, <4>1, <4>2
        <3> QED
            BY <2>1, <2>3, <3>1 DEF CallType, ThreadGoes
    <2> QED
        BY <1>1, <2>2, <2>3 DEF GetTokenAndSignature
<1>2. CASE GiveToken(c, a)
    <2>1. token' \in [Users -> Nat]
        BY <1>2 DEF GiveToken, CallType
    <2>2. used' \in [Calls -> [Attempts -> Nat]]
        BY <1>2, <2>1 DEF GiveToken, CallType
    <2> QED
        BY <1>2, <2>1, <2>2 DEF GiveToken, CallType, ThreadGoes, refVars, callVars
<1>3. CASE TokenFails(c, a)
    BY <1>3 DEF TokenFails, CallType, ThreadGoes, Finish, refVars, callVars, userVars, tokenVars
<1>4. CASE PerformAsync(c, a)
    <2>1. /\ performed' \in [Calls -> BOOLEAN] /\ step' \in [Calls -> {"Pending", "Running", "Done"}]
          /\ UNCHANGED <<expired, token, retried, refs, held, forced, used, status>>
        BY <1>4 DEF PerformAsync, CallType, refVars, userVars, tokenVars
    <2>2. CASE ThreadGoes(c, a, "sent") /\ AttemptGoes(c, a, "out") /\ UNCHANGED done
        BY <2>1, <2>2 DEF CallType, ThreadGoes, AttemptGoes
    <2>3. CASE ThreadGoes(c, a, "gone") /\ Finish(c) /\ UNCHANGED attempt
        BY <2>1, <2>3 DEF CallType, ThreadGoes, Finish
    <2> QED
        BY <1>4, <2>2, <2>3 DEF PerformAsync
<1>5. CASE AddRef(c, a)
    BY <1>5 DEF AddRef, CallType, ThreadGoes, callVars, userVars, tokenVars
<1>6. CASE HoldItself(c, a)
    BY <1>6 DEF HoldItself, CallType, ThreadGoes, callVars, userVars, tokenVars
<1>7. CASE Answer(c, a)
    BY <1>7 DEF Answer, CallType, AttemptGoes, callVars, userVars, tokenVars, refVars
<1>8. CASE DecRef(c, a)
    BY <1>8 DEF DecRef, CallType, AttemptGoes, callVars, userVars, tokenVars
<1>9. CASE CompletionCallback(c, a)
    <2>1. /\ held' \in [Calls -> BOOLEAN] /\ retried' \in [Calls -> BOOLEAN]
          /\ attempt' \in [Calls -> [Attempts ->
                 {"none", "out", "answered", "last", "calling", "ended"}]]
          /\ UNCHANGED <<token, refs, forced, used, status>>
        BY <1>9 DEF CompletionCallback, CallType, AttemptGoes, tokenVars
    <2>2. CASE Retry(c)
        BY <2>1, <2>2 DEF CallType, Retry, ThreadGoes, Attempts
    <2>3. CASE step' = [step EXCEPT ![c] = "Done"] /\ Finish(c) /\ UNCHANGED <<performed, expired, thread>>
        BY <2>1, <2>3 DEF CallType, Finish
    <2> QED
        BY <1>9, <2>2, <2>3 DEF CompletionCallback
<1> QED
    BY <1>1, <1>2, <1>3, <1>4, <1>5, <1>6, <1>7, <1>8, <1>9 DEF Step

-----------------------------------------------------------------------------
(* Its second half: what is true of each call. *)

\* A step of one call leaves the others alone.
LEMMA OthersUntouched ==
    ASSUME CallType, NEW c \in Calls, NEW a \in Attempts, Step(c, a),
           NEW d \in Calls, d # c, CallInv(d)
    PROVE  CallInv(d)'
<1>1. /\ step'[d] = step[d] /\ performed'[d] = performed[d] /\ retried'[d] = retried[d]
      /\ refs'[d] = refs[d] /\ held'[d] = held[d] /\ done'[d] = done[d]
      /\ thread'[d] = thread[d] /\ attempt'[d] = attempt[d]
    BY DEF Step, CallType, GetTokenAndSignature, GiveToken, TokenFails, PerformAsync, AddRef,
           HoldItself, Answer, DecRef, CompletionCallback, Retry, ThreadGoes, AttemptGoes,
           Finish, userVars, callVars, refVars, tokenVars
<1> QED
    BY <1>1 DEF CallInv, InTurn, Steps, Over, RefsExact, Kept, Counted, Uncounted, HasStarted,
           IsPreparing, IsOut, IsCallingBack, IsPerforming

\* A step of a call keeps what is true of it.
LEMMA CallPreserved ==
    ASSUME CallType, NEW c \in Calls, NEW a \in Attempts, Step(c, a), CallInv(c)
    PROVE  CallInv(c)'
<1> USE DEF CallType, CallInv, InTurn, Steps, Over, RefsExact, Kept, Counted, Uncounted,
            HasStarted, IsPreparing, IsOut, IsCallingBack, IsPerforming, Attempts
<1>1. CASE GetTokenAndSignature(c, a)
    BY <1>1 DEF GetTokenAndSignature, MayAsk, ThreadGoes, Finish, refVars, callVars
<1>2. CASE GiveToken(c, a)
    BY <1>2 DEF GiveToken, ThreadGoes, refVars, callVars
<1>3. CASE TokenFails(c, a)
    BY <1>3 DEF TokenFails, ThreadGoes, Finish, refVars, callVars
<1>4. CASE PerformAsync(c, a)
    BY <1>4 DEF PerformAsync, ThreadGoes, AttemptGoes, Finish, refVars
<1>5. CASE AddRef(c, a)
    BY <1>5 DEF AddRef, ThreadGoes, callVars
<1>6. CASE HoldItself(c, a)
    BY <1>6 DEF HoldItself, ThreadGoes, callVars
<1>7. CASE Answer(c, a)
    BY <1>7 DEF Answer, AttemptGoes, callVars, refVars
<1>8. CASE DecRef(c, a)
    BY <1>8 DEF DecRef, AttemptGoes, callVars
<1>9. CASE CompletionCallback(c, a)
    <2>1. /\ attempt[c][a] \in {"last", "calling"} /\ refs'[c] = refs[c]
          /\ attempt'[c] = [attempt[c] EXCEPT ![a] = "ended"]
          /\ retried'[c] = (retried[c] \/ IsRetried(c, a))
        BY <1>9 DEF CompletionCallback, AttemptGoes
    <2>2. CASE IsRetried(c, a) /\ Retry(c)
        <3>1. a = 1 /\ thread[c][2] = "none"
            BY <2>1, <2>2 DEF IsRetried
        <3>2. /\ step'[c] = "Pending" /\ ~performed'[c] /\ done'[c] = done[c]
              /\ thread'[c] = [thread[c] EXCEPT ![2] = "reported"]
            BY <2>2 DEF Retry, ThreadGoes
        <3>3. attempt[c][2] = "none" /\ done[c] = 0 /\ thread[c][1] \in {"sent", "counted", "gone"}
            BY <2>1, <3>1
        <3>4. attempt'[c][1] = "ended" /\ attempt'[c][2] = "none"
            BY <2>1, <3>1, <3>3
        <3>5. thread'[c][1] = thread[c][1] /\ thread'[c][2] = "reported"
            BY <3>2
        <3>6. retried'[c]
            BY <2>1, <2>2
        <3>7. /\ attempt'[c][1] = "ended" /\ attempt'[c][2] = "none"
              /\ thread[c][1] \in {"sent", "counted", "gone"}
              /\ thread'[c][1] = thread[c][1] /\ thread'[c][2] = "reported"
              /\ retried'[c] /\ done[c] = 0
            BY <3>3, <3>4, <3>5, <3>6
        <3>8. RefsExact(c)'
            BY <2>1, <3>1, <3>7
        <3> QED
            BY <3>2, <3>7, <3>8
    <2>3. CASE step' = [step EXCEPT ![c] = "Done"] /\ Finish(c) /\ UNCHANGED <<performed, expired, thread>>
        BY <2>1, <2>3 DEF Finish
    <2> QED
        BY <1>9, <2>2, <2>3 DEF CompletionCallback
<1> QED
    BY <1>1, <1>2, <1>3, <1>4, <1>5, <1>6, <1>7, <1>8, <1>9 DEF Step

-----------------------------------------------------------------------------
(* Types and soundness. *)

\* A call that was never performed satisfies the invariant.
LEMMA InitialCalls == Init => Inv
    BY UsersAssumption
    DEF Init, Inv, CallType, CallInv, InTurn, Steps, Over, RefsExact, Kept, Counted, Uncounted,
        HasStarted, IsPreparing, IsOut, IsCallingBack, IsPerforming, Attempts, Statuses

\* Every step keeps the invariant.
LEMMA InvPreserved == Inv /\ [Next]_vars => Inv'
<1> SUFFICES ASSUME Inv, [Next]_vars PROVE Inv'
    OBVIOUS
<1>1. CASE UNCHANGED vars
    BY <1>1 DEF Inv, vars, userVars, callVars, refVars, tokenVars, CallType, CallInv, InTurn,
        Steps, Over, RefsExact, Kept, Counted, Uncounted, HasStarted, IsPreparing, IsOut,
        IsCallingBack, IsPerforming
<1>2. CASE Next
    <2>1. PICK c \in Calls, a \in Attempts : Step(c, a)
        BY <1>2 DEF Next, Step
    <2>2. CallType'
        BY <2>1, TypePreserved DEF Inv
    <2>3. CallInv(c)'
        BY <2>1, CallPreserved DEF Inv
    <2>4. ASSUME NEW d \in Calls, d # c PROVE CallInv(d)'
        BY <2>1, <2>4, OthersUntouched DEF Inv
    <2> QED
        BY <2>2, <2>3, <2>4 DEF Inv
<1> QED
    BY <1>1, <1>2

\* The invariant holds at all times.
LEMMA InvHolds == Spec => []Inv
    BY InitialCalls, InvPreserved, PTL DEF Spec

\* Every variable keeps its type, and the reference count is never more than two
\* below zero: HttpCall::Perform and CompletionCallback count in any order.
THEOREM HttpCallTypeCorrect == Spec => []TypeOK
<1>1. Inv => TypeOK
    <2> SUFFICES ASSUME Inv PROVE TypeOK
        OBVIOUS
    <2>1. ASSUME NEW c \in Calls PROVE refs[c] \in -2..1
        <3>1. /\ Counted(c, 1) \in {0, 1} /\ Counted(c, 2) \in {0, 1}
              /\ Uncounted(c, 1) \in {0, 1} /\ Uncounted(c, 2) \in {0, 1}
            BY DEF Counted, Uncounted
        <3>2. Counted(c, 2) = 1 => attempt[c][2] # "none"
            BY DEF Counted, HasStarted
        <3>3. attempt[c][2] # "none" => attempt[c][1] = "ended"
            BY DEF Inv, CallType, CallInv, InTurn, HasStarted, Attempts
        <3>4. attempt[c][1] = "ended" => Uncounted(c, 1) = 1
            BY DEF Uncounted
        <3>5. refs[c] = Counted(c, 1) + Counted(c, 2) - Uncounted(c, 1) - Uncounted(c, 2)
            BY DEF Inv, CallInv, RefsExact
        <3> QED
            BY <3>1, <3>2, <3>3, <3>4, <3>5
    <2>2. refs \in [Calls -> -2..1]
        BY <2>1 DEF Inv, CallType
    <2> QED
        BY <2>2 DEF Inv, CallType, TypeOK
<1> QED
    BY <1>1, InvHolds, PTL

\* A call is kept alive while its request is out, however late its reference is
\* counted; requests are handed over as the assertions of HttpCall demand; and
\* the client is called back at most once, when nothing goes on any more.
THEOREM CallsAlwaysSound == Spec => []CallsAreSound
<1>1. Inv => KeptAlive
    BY DEF Inv, CallInv, Kept, KeptAlive
<1>2. Inv => StepsInOrder
    BY DEF Inv, CallInv, Steps, StepsInOrder, IsPreparing
<1>3. Inv => CompletesOnce
    BY DEF Inv, CallInv, Over, CompletesOnce, IsPreparing
<1> QED
    BY <1>1, <1>2, <1>3, InvHolds, PTL DEF CallsAreSound

-----------------------------------------------------------------------------
(* The token of a retry, where XAL answers nobody with an old token while it    *)
(* makes a new one, and makes it.                                               *)

\* A report waits in the set of expired tokens until somebody takes it and has
\* the new token made; until then the call that reported has no token.
Fresh(c) ==
    /\ used[c][1] <= token[UserOf[c]]
    /\ used[c][2] # 0 =>
           used[c][2] > used[c][1] /\ thread[c][2] \notin {"none", "reported", "asked"}
    /\ thread[c][2] \in {"reported", "asked"} =>
           \/ thread[c][2] = "reported" /\ UserOf[c] \in expired
           \/ token[UserOf[c]] > used[c][1]
           \/ IsRefreshing(UserOf[c])

\* A step that neither gives a token nor takes a report, nor changes who asks.
LEMMA FreshUntouched ==
    ASSUME CallType, NEW c \in Calls, Fresh(c),
           token' = token, used' = used, expired \subseteq expired', forced' = forced,
           thread'[c][2] = thread[c][2] \/ (thread[c][2] \notin {"none", "reported", "asked"}
                                           /\ thread'[c][2] \notin {"none", "reported", "asked"}),
           \A d \in Calls, b \in Attempts : thread[d][b] = "asked" => thread'[d][b] = "asked"
    PROVE  Fresh(c)'
    BY DEF Fresh, IsRefreshing

\* Every step keeps it.
LEMMA FreshPreserved ==
    ASSUME XalWaits, ~RefreshMayFail, Inv, Inv',
           NEW c \in Calls, NEW a \in Attempts, Step(c, a),
           NEW d \in Calls, Fresh(d)
    PROVE  Fresh(d)'
<1> /\ UserOf[c] \in Users /\ UserOf[d] \in Users
    BY UsersAssumption
<1>0. /\ token \in [Users -> Nat] /\ used \in [Calls -> [Attempts -> Nat]]
      /\ forced \in [Calls -> [Attempts -> BOOLEAN]]
      /\ thread \in [Calls -> [Attempts ->
             {"none", "reported", "asked", "given", "sent", "counted", "gone"}]]
    BY DEF Inv, CallType
<1>1. CASE GetTokenAndSignature(c, a)
    <2>1. /\ token' = token /\ used' = used /\ expired' = expired \ {UserOf[c]}
          /\ forced' = [forced EXCEPT ![c][a] = UserOf[c] \in expired]
          /\ thread[c][a] \in {"none", "reported"} /\ (a = 2 => thread[c][2] = "reported")
        BY <1>1, <1>0 DEF GetTokenAndSignature, MayAsk, Attempts
    <2>2. \E to \in {"asked", "gone"} :
              /\ thread' = [thread EXCEPT ![c][a] = to]
              /\ UserOf[c] \in expired => to = "asked"
        <3>1. forced'[c][a] = (UserOf[c] \in expired)
            BY <2>1, <1>0
        <3> QED
            BY <1>1, <3>1 DEF GetTokenAndSignature, ThreadGoes
    <2>3. ASSUME NEW v, IsRefreshing(v) PROVE IsRefreshing(v)'
        <3>1. PICK e \in Calls, b \in Attempts :
                  UserOf[e] = v /\ thread[e][b] = "asked" /\ forced[e][b]
            BY <2>3 DEF IsRefreshing
        <3>2. thread'[e][b] = "asked" /\ forced'[e][b]
            BY <3>1, <2>1, <2>2, <1>0
        <3> QED
            BY <3>1, <3>2 DEF IsRefreshing
    <2>4. UserOf[c] \in expired => IsRefreshing(UserOf[c])'
        <3> SUFFICES ASSUME UserOf[c] \in expired PROVE IsRefreshing(UserOf[c])'
            OBVIOUS
        <3>1. thread'[c][a] = "asked"
            BY <2>2, <1>0
        <3>2. forced'[c][a] = (UserOf[c] \in expired)
            BY <2>1, <1>0
        <3> QED
            BY <3>1, <3>2 DEF IsRefreshing
    <2>5. CASE d = c /\ a = 2
        BY <2>1, <2>2, <2>3, <2>4, <2>5, <1>0 DEF Fresh, Attempts
    <2>6. CASE ~(d = c /\ a = 2)
        <3>1. thread'[d][2] = thread[d][2]
            BY <2>2, <2>6, <1>0 DEF Attempts
        <3> QED
            BY <2>1, <2>3, <2>4, <3>1 DEF Fresh
    <2> QED
        BY <2>5, <2>6
<1>2. CASE GiveToken(c, a)
    <2>1. /\ thread[c][a] = "asked" /\ thread' = [thread EXCEPT ![c][a] = "given"]
          /\ expired' = expired /\ forced' = forced
          /\ used' = [used EXCEPT ![c][a] = token'[UserOf[c]]]
          /\ forced[c][a] \/ ~IsRefreshing(UserOf[c])
          /\ forced[c][a] => token' = [token EXCEPT ![UserOf[c]] = @ + 1]
          /\ ~forced[c][a] => token' = token
        BY <1>2, <1>0 DEF GiveToken, ThreadGoes
    <2>2. /\ token[UserOf[d]] \in Nat /\ token'[UserOf[d]] \in Nat
          /\ token'[UserOf[d]] >= token[UserOf[d]]
          /\ forced[c][a] /\ UserOf[c] = UserOf[d] => token'[UserOf[d]] = token[UserOf[d]] + 1
        BY <2>1, <1>0
    <2>3. IsRefreshing(UserOf[d]) => IsRefreshing(UserOf[d])' \/ (forced[c][a] /\ UserOf[c] = UserOf[d])
        <3> SUFFICES ASSUME IsRefreshing(UserOf[d]), ~(forced[c][a] /\ UserOf[c] = UserOf[d])
                     PROVE  IsRefreshing(UserOf[d])'
            OBVIOUS
        <3>1. PICK e \in Calls, b \in Attempts :
                  UserOf[e] = UserOf[d] /\ thread[e][b] = "asked" /\ forced[e][b]
            BY DEF IsRefreshing
        <3>2. thread'[e][b] = "asked" /\ forced'[e][b]
            BY <3>1, <2>1, <1>0
        <3> QED
            BY <3>1, <3>2 DEF IsRefreshing
    <2>4. CASE d = c /\ a = 1
        <3>1. thread[c][2] = "none"
            BY <2>1, <2>4 DEF Inv, CallInv, InTurn, HasStarted, Attempts
        <3>2. used[c][2] = 0 /\ used'[c][2] = 0 /\ thread'[c][2] = "none"
            BY <2>1, <2>4, <3>1, <1>0 DEF Fresh, Attempts
        <3>3. used'[c][1] = token'[UserOf[c]]
            BY <2>1, <2>4, <1>0
        <3> QED
            BY <2>2, <2>4, <3>2, <3>3 DEF Fresh
    <2>5. CASE d = c /\ a = 2
        <3>1. used'[c][1] = used[c][1] /\ used'[c][2] = token'[UserOf[c]] /\ thread'[c][2] = "given"
            BY <2>1, <2>5, <1>0 DEF Attempts
        <3>2. token[UserOf[c]] > used[c][1] \/ forced[c][a]
            BY <2>1, <2>5 DEF Fresh
        <3>3. used[c][1] \in Nat
            BY <1>0 DEF Attempts
        <3> QED
            BY <2>2, <2>5, <3>1, <3>2, <3>3 DEF Fresh
    <2>6. CASE d # c
        <3>1. used'[d] = used[d] /\ thread'[d] = thread[d] /\ used[d][1] \in Nat
            BY <2>1, <2>6, <1>0 DEF Attempts
        <3> QED
            BY <2>1, <2>2, <2>3, <3>1 DEF Fresh
    <2> QED
        BY <2>4, <2>5, <2>6 DEF Attempts
<1>3. CASE TokenFails(c, a)
    <2>1. /\ thread[c][a] = "asked" /\ thread' = [thread EXCEPT ![c][a] = "gone"]
          /\ ~forced[c][a]
          /\ UNCHANGED <<token, used, expired, forced>>
        BY <1>3 DEF TokenFails, ThreadGoes, userVars, tokenVars
    <2>2. IsRefreshing(UserOf[d]) => IsRefreshing(UserOf[d])'
        BY <2>1, <1>0 DEF IsRefreshing
    <2>3. CASE d = c /\ a = 2
        BY <2>1, <2>3, <1>0 DEF Fresh, Attempts
    <2>4. CASE ~(d = c /\ a = 2)
        <3>1. thread'[d][2] = thread[d][2]
            BY <2>1, <2>4, <1>0 DEF Attempts
        <3> QED
            BY <2>1, <2>2, <3>1 DEF Fresh
    <2> QED
        BY <2>3, <2>4
<1>4. CASE PerformAsync(c, a)
    <2>1. /\ token' = token /\ used' = used /\ expired' = expired /\ forced' = forced
          /\ thread[c][a] = "given"
          /\ \E to \in {"sent", "gone"} : thread' = [thread EXCEPT ![c][a] = to]
        BY <1>4 DEF PerformAsync, ThreadGoes, userVars, tokenVars
    <2> QED
        BY <2>1, <1>0, FreshUntouched DEF Inv, Attempts
<1>5. CASE AddRef(c, a) \/ HoldItself(c, a)
    <2>1. /\ token' = token /\ used' = used /\ expired' = expired /\ forced' = forced
          /\ thread[c][a] \in {"sent", "counted"}
          /\ \E to \in {"counted", "gone"} : thread' = [thread EXCEPT ![c][a] = to]
        BY <1>5 DEF AddRef, HoldItself, ThreadGoes, userVars, tokenVars
    <2> QED
        BY <2>1, <1>0, FreshUntouched DEF Inv, Attempts
<1>6. CASE Answer(c, a) \/ DecRef(c, a)
    <2>1. UNCHANGED <<token, used, expired, forced, thread>>
        BY <1>6 DEF Answer, DecRef, userVars, tokenVars
    <2> QED
        BY <2>1, FreshUntouched DEF Inv
<1>7. CASE CompletionCallback(c, a)
    <2>1. token' = token /\ used' = used /\ forced' = forced
        BY <1>7 DEF CompletionCallback, tokenVars
    <2>2. CASE UNCHANGED <<expired, thread>>
        BY <2>1, <2>2, FreshUntouched DEF Inv
    <2>3. CASE IsRetried(c, a) /\ Retry(c)
        <3>1. thread[c][2] = "none"
            BY <2>3 DEF Inv, CallInv, InTurn, IsRetried
        <3>2. expired' = expired \union {UserOf[c]} /\ thread' = [thread EXCEPT ![c][2] = "reported"]
            BY <2>3 DEF Retry, ThreadGoes
        <3>3. CASE d = c
            BY <2>1, <3>1, <3>2, <3>3, <1>0 DEF Fresh, Attempts
        <3>4. CASE d # c
            BY <2>1, <3>1, <3>2, <3>4, <1>0, FreshUntouched DEF Inv, Attempts
        <3> QED
            BY <3>3, <3>4
    <2> QED
        BY <1>7, <2>2, <2>3 DEF CompletionCallback
<1> QED
    BY <1>1, <1>2, <1>3, <1>4, <1>5, <1>6, <1>7 DEF Step

\* Where XAL answers nobody with an old token while it makes a new one, and makes
\* it, no call is retried with the token the service rejected, however many calls
\* of the user are rejected at the same time.
THEOREM RetriesAlwaysFresh ==
    ASSUME XalWaits, ~RefreshMayFail
    PROVE  Spec => []RetryIsFresh
<1> DEFINE AllFresh == \A c \in Calls : Fresh(c)
<1>1. Init => AllFresh
    BY UsersAssumption DEF Init, Fresh, Attempts
<1>2. Inv /\ Inv' /\ AllFresh /\ [Next]_vars => AllFresh'
    <2> SUFFICES ASSUME Inv, Inv', AllFresh, [Next]_vars, NEW d \in Calls PROVE Fresh(d)'
        OBVIOUS
    <2>1. CASE UNCHANGED vars
        BY <2>1 DEF vars, userVars, tokenVars, Fresh, IsRefreshing
    <2>2. CASE Next
        <3>1. PICK c \in Calls, a \in Attempts : Step(c, a)
            BY <2>2 DEF Next, Step
        <3> QED
            BY <3>1, FreshPreserved
    <2> QED
        BY <2>1, <2>2
<1>3. AllFresh => RetryIsFresh
    BY DEF Fresh, RetryIsFresh
<1> HIDE DEF AllFresh
<1> QED
    BY <1>1, <1>2, <1>3, InvHolds, PTL DEF Spec
=============================================================================
