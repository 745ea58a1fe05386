------------------------ MODULE PeriodicTaskProofs ------------------------
(***************************************************************************)
(* PeriodicTask keeps its rhythm, for every interval and however often     *)
(* runs are asked for in between.                                          *)
(***************************************************************************)
EXTENDS PeriodicTask, TLAPS

\* Types without the order of the timers.
Types ==
    /\ alive \in BOOLEAN
    /\ immediate \in Nat /\ running \in Nat /\ skipCount \in Nat /\ age \in Nat
    /\ timers \in Seq(0..Interval)

Sorted == \A j, k \in 1..Len(timers) : j < k => timers[j] <= timers[k]

\* The timer set last is due an interval after the last run: it is the one
\* that keeps RunsInTime, since OneChain lets every other be skipped, not it.
LastTimerInTime ==
    /\ running > 0 => age = 0
    /\ timers # <<>> => timers[Len(timers)] + age <= Interval

PeriodicInv == Types /\ Sorted /\ OneChain /\ RunsInTime /\ LastTimerInTime

\* A freshly made task has its invariant.
LEMMA InitialTask == Init => PeriodicInv
  BY IntervalAssumption
  DEF Init, PeriodicInv, Types, Sorted, OneChain, RunsInTime, LastTimerInTime

\* Every step keeps the invariant; only Tick and ScheduleNext need the timer
\* set last.
LEMMA TaskStep == PeriodicInv /\ [Next]_vars => PeriodicInv'
<1> SUFFICES ASSUME PeriodicInv, [Next]_vars PROVE PeriodicInv'
  OBVIOUS
<1> USE IntervalAssumption
<1> USE DEF PeriodicInv, Types, Sorted, OneChain, RunsInTime, LastTimerInTime
<1>1. CASE ScheduleImmediately
  BY <1>1 DEF ScheduleImmediately, SkipOneMore
<1>2. CASE RunImmediate
  <2> USE <1>2 DEF RunImmediate
  <2>1. timers # <<>> => timers[Len(timers)] \in 0..Interval
    OBVIOUS
  <2>2. Types' /\ Sorted'
    OBVIOUS
  <2>3. OneChain' /\ RunsInTime'
    OBVIOUS
  <2>4. LastTimerInTime'
    BY <2>1
  <2> QED
    BY <2>2, <2>3, <2>4
<1>3. CASE ScheduleNext
  <2> USE <1>3 DEF ScheduleNext
  <2>1. /\ timers' \in Seq(0..Interval)
        /\ Len(timers') = Len(timers) + 1
        /\ timers'[Len(timers) + 1] = Interval
        /\ \A k \in 1..Len(timers) : timers'[k] = timers[k] /\ timers[k] \in 0..Interval
    OBVIOUS
  <2>2. Types'
    BY <2>1
  <2>3. Sorted'
    BY <2>1
  <2>4. OneChain' /\ RunsInTime'
    BY <2>1
  <2>5. LastTimerInTime'
    BY <2>1
  <2> QED
    BY <2>2, <2>3, <2>4, <2>5
<1>4. CASE TimerFires
  <2> USE <1>4 DEF TimerFires, SkipUsed, IsSkipped
  <2>1. /\ timers' \in Seq(0..Interval)
        /\ Len(timers) > 0
        /\ Len(timers') = Len(timers) - 1
        /\ \A k \in 1..Len(timers') : timers'[k] = timers[k + 1]
    OBVIOUS
  <2>2. Types'
    BY <2>1
  <2>3. Sorted'
    BY <2>1
  <2>4. OneChain'
    <3>1. immediate' + running' + Len(timers') - skipCount'
            = immediate + running + Len(timers) - skipCount
      <4>1. Len(timers) \in Nat /\ Len(timers') = Len(timers) - 1 /\ immediate' = immediate
        BY <2>1
      <4>2. CASE skipCount > 0
        <5>1. skipCount' = skipCount - 1 /\ running' = running
          BY <4>2
        <5> QED
          BY <4>1, <5>1
      <4>3. CASE ~(skipCount > 0)
        <5>1. skipCount' = skipCount /\ running' = running + 1
          BY <4>3
        <5> QED
          BY <4>1, <5>1
      <4> QED
        BY <4>2, <4>3
    <3>2. alive' = alive
      OBVIOUS
    <3> QED
      BY <2>1, <2>2, <3>1, <3>2
  <2>5. RunsInTime'
    <3>1. age' \in {age, 0} /\ alive' = alive
      OBVIOUS
    <3> QED
      BY <3>1
  <2>6. LastTimerInTime'
    <3>1. timers' # <<>> => timers'[Len(timers')] = timers[Len(timers)]
      BY <2>1
    <3>2. timers' # <<>> => timers[Len(timers)] \in 0..Interval
      BY <2>1
    <3> QED
      BY <3>1, <3>2
  <2> QED
    BY <2>2, <2>3, <2>4, <2>5, <2>6
<1>5. CASE Tick
  <2> USE <1>5 DEF Tick
  <2>1. /\ timers \in Seq(0..Interval) /\ Len(timers) = skipCount + 1
        /\ skipCount \in Nat
    OBVIOUS
  <2>9. Len(timers) > 0 /\ timers # <<>>
    BY <2>1
  <2>2. timers[1] > 0
    BY <2>9
  <2>3. \A k \in 1..Len(timers) : timers[k] \in 1..Interval
    <3> SUFFICES ASSUME NEW k \in 1..Len(timers) PROVE timers[k] \in 1..Interval
      OBVIOUS
    <3>1. timers[k] \in 0..Interval /\ 1 \in 1..Len(timers) /\ Len(timers) \in Nat
      BY <2>1, <2>9
    <3>2. timers[1] <= timers[k] /\ timers[1] \in 0..Interval
      BY <2>1, <3>1
    <3> QED
      BY <2>2, <3>1, <3>2
  <2>4. /\ timers' \in Seq(0..Interval)
        /\ Len(timers') = Len(timers)
        /\ \A k \in 1..Len(timers) : timers'[k] = timers[k] - 1
    BY <2>3
  <2>5. age' = age + 1
    OBVIOUS
  <2>6. timers[Len(timers)] + age <= Interval
    BY <2>9
  <2>7. Types' /\ Sorted'
    BY <2>3, <2>4, <2>5
  <2>8. OneChain' /\ RunsInTime' /\ LastTimerInTime'
    BY <2>1, <2>9, <2>3, <2>4, <2>5, <2>6
  <2> QED
    BY <2>7, <2>8
<1>6. CASE Destroy
  <2> USE <1>6 DEF Destroy
  <2>1. timers' \in Seq(0..Interval) /\ Len(timers') = 0
    OBVIOUS
  <2>2. Types'
    BY <2>1
  <2>3. Sorted'
    BY <2>1
  <2>4. OneChain' /\ RunsInTime' /\ LastTimerInTime'
    OBVIOUS
  <2> QED
    BY <2>2, <2>3, <2>4
<1>7. CASE UNCHANGED vars
  BY <1>7 DEF vars
<1> QED
  BY <1>1, <1>2, <1>3, <1>4, <1>5, <1>6, <1>7 DEF Next

\* The invariant holds in every reachable state.
LEMMA TaskInvariant == Spec => []PeriodicInv
  BY InitialTask, TaskStep, PTL DEF Spec

\* m_skipCount never goes below zero, and timers fire in the order in which
\* Run scheduled them.
THEOREM PeriodicTypeCorrect == Spec => []TypeOK
<1>1. PeriodicInv => TypeOK
  BY DEF PeriodicInv, Types, Sorted, TypeOK
<1> QED
  BY <1>1, TaskInvariant, PTL

\* m_skipCount matches the extra runs exactly: one chain goes on for ever.
THEOREM OneChainAlways == Spec => []OneChain
<1>1. PeriodicInv => OneChain
  BY DEF PeriodicInv
<1> QED
  BY <1>1, TaskInvariant, PTL

\* ScheduleImmediately never delays the next run: Run comes again within
\* m_interval.
THEOREM RunsAlwaysInTime == Spec => []RunsInTime
<1>1. PeriodicInv => RunsInTime
  BY DEF PeriodicInv
<1> QED
  BY <1>1, TaskInvariant, PTL

=============================================================================
