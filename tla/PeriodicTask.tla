---------------------------- MODULE PeriodicTask ----------------------------
(***************************************************************************)
(* PeriodicTask: a task that runs at a fixed interval and, when asked to,  *)
(* at once.  Every run schedules its successor, and a run asked for makes  *)
(* one scheduled run be skipped: so one chain of runs goes on, and the     *)
(* others end.                                                             *)
(*                                                                         *)
(* Time is counted in ticks, and passes only while the queue has nothing   *)
(* that is due: what the queue or the task take is not counted.            *)
(***************************************************************************)
EXTENDS Integers, Sequences

CONSTANTS
    Interval,  \* m_interval, in ticks
    MaxPending \* bound: skips outstanding when another run is asked for

ASSUME IntervalAssumption == Interval \in Nat \ {0}
ASSUME BoundAssumption == MaxPending \in Nat

VARIABLES
    alive,     \* until the destructor has run
    immediate, \* calls of Run in the queue
    running,   \* threads in Run, past m_task()
    timers,    \* scheduled runs in the queue, by the ticks they still wait
    skipCount, \* m_skipCount
    age        \* ticks since m_task() ran or MakeAndRun, up to one too many

vars == <<alive, immediate, running, timers, skipCount, age>>

\* MakeAndRun
Init ==
    /\ alive = TRUE
    /\ immediate = 1
    /\ running = 0
    /\ timers = <<>>
    /\ skipCount = 0
    /\ age = 0

\* Mutant: a run asked for does not replace a scheduled one.
SkipOneMore_Not == skipCount

SkipOneMore == skipCount + 1

ScheduleImmediately ==
    /\ alive /\ skipCount < MaxPending
    /\ skipCount' = SkipOneMore
    /\ immediate' = immediate + 1
    /\ UNCHANGED <<alive, running, timers, age>>

\* Run, up to the end of m_task().
RunImmediate ==
    /\ alive /\ immediate > 0
    /\ immediate' = immediate - 1
    /\ running' = running + 1
    /\ age' = 0
    /\ UNCHANGED <<alive, timers, skipCount>>

\* The rest of Run.
ScheduleNext ==
    /\ running > 0
    /\ running' = running - 1
    /\ timers' = Append(timers, Interval)
    /\ UNCHANGED <<alive, immediate, skipCount, age>>

\* Mutants: the skip is not used up; every scheduled run is skipped.
SkipUsed_Not == skipCount
IsSkipped_Always == TRUE

SkipUsed == skipCount - 1

IsSkipped == skipCount > 0

\* A scheduled run is due: it is skipped, or goes on into Run.
TimerFires ==
    /\ alive /\ timers # <<>> /\ Head(timers) = 0
    /\ timers' = Tail(timers)
    /\ \/ /\ IsSkipped
          /\ skipCount' = SkipUsed
          /\ UNCHANGED <<running, age>>
       \/ /\ ~IsSkipped
          /\ running' = running + 1
          /\ age' = 0
          /\ UNCHANGED skipCount
    /\ UNCHANGED <<alive, immediate>>

Tick ==
    /\ alive /\ immediate = 0 /\ running = 0
    /\ timers # <<>> => Head(timers) > 0
    /\ timers' = [k \in 1..Len(timers) |-> timers[k] - 1]
    /\ age' = IF age > Interval THEN age ELSE age + 1
    /\ UNCHANGED <<alive, immediate, running, skipCount>>

\* The owner lets go; a thread in Run holds a reference of its own.  The queue
\* drops what it still has.
Destroy ==
    /\ alive /\ running = 0
    /\ alive' = FALSE
    /\ immediate' = 0 /\ timers' = <<>>
    /\ UNCHANGED <<running, skipCount, age>>

Next ==
    \/ ScheduleImmediately
    \/ RunImmediate
    \/ ScheduleNext
    \/ TimerFires
    \/ Tick
    \/ Destroy

Spec == Init /\ [][Next]_vars

\* The queue runs what is due, threads go on, and time passes.
FairSpec ==
    /\ Spec
    /\ WF_vars(RunImmediate) /\ WF_vars(ScheduleNext)
    /\ WF_vars(TimerFires) /\ WF_vars(Tick)

(***************************************************************************)
(* Properties                                                              *)
(***************************************************************************)
\* Types; the timers are in the order in which they are due.
TypeOK ==
    /\ alive \in BOOLEAN
    /\ immediate \in Nat /\ running \in Nat /\ skipCount \in Nat /\ age \in Nat
    /\ timers \in Seq(0..Interval)
    /\ \A j, k \in 1..Len(timers) : j < k => timers[j] <= timers[k]

\* One chain of runs goes on: of the runs that wait or run, all but one will
\* be skipped or leave a successor that is.  More would make the task run too
\* often for good, fewer would end it.
OneChain == alive => immediate + running + Len(timers) = skipCount + 1

\* However often runs are asked for in between, the task runs again within an
\* interval: the timer that is skipped is never the only thing left.
RunsInTime == alive => age <= Interval

\* "Once started, a periodic task will continue to repeat for its lifetime."
KeepsRepeating == []<>(age = 0 \/ ~alive)

=============================================================================
