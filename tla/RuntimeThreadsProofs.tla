------------------------- MODULE RuntimeThreadsProofs -------------------------
(***************************************************************************)
(* What the schedule of the loop, the monitor, the sequential cycles and   *)
(* the staged test guarantee, for every value of their constants.  Each    *)
(* part has an inductive invariant of its own, kept by the steps of its    *)
(* module; the theorems put them together for the specification that is    *)
(* model-checked.                                                          *)
(***************************************************************************)
EXTENDS RuntimeThreads, TrajectoryBufferProofs

(***************************************************************************)
(* The schedule of the ticks.                                              *)
(***************************************************************************)
\* The deadline is never further ahead than the period that was begun, and
\* moves on with every tick that is counted: at least a period per tick, from
\* at most MaxLag behind the moment the observer began to count.
DeadlineNear ==
  /\ tickPC = "ticking" => deadline <= lastStart + Period
  /\ tickPC = "check" /\ ~ticksStop => deadline <= clock + Period
  /\ tickPC = "sleeping" => deadline <= lastStart + 2 * Period
  /\ deadline <= clock + 2 * Period

WindowBehind ==
  window.open =>
    IF tickPC = "ticking"
    THEN window.due <= Period \/ window.due + window.since <= deadline + MaxLag + Period
    ELSE window.due = 0 \/ window.due + window.since <= deadline + MaxLag

TickInvariant == TickTypeOK /\ DeadlineNear /\ WindowBehind

\* The steps of the schedule keep its invariant.
LEMMA TickStepKeeps == TickInvariant /\ TicksNext => TickInvariant'
<1> SUFFICES ASSUME TickInvariant, TicksNext PROVE TickInvariant'
  OBVIOUS
<1> USE TickAssumption DEF TickInvariant, TickTypeOK, DeadlineNear, WindowBehind
<1>1. CASE TimePasses
  <2>1. /\ clock' = clock + 1 /\ clock < MaxClock /\ clock \in Nat
        /\ UNCHANGED <<tickPC, deadline, lastStart, ticksStop, window>>
    BY <1>1 DEF TimePasses
  <2>2. TickTypeOK'
    <3>1. window \in [open : BOOLEAN, since : 0 .. clock', due : Nat]
      BY <2>1
    <3> QED BY <2>1, <3>1
  <2>3. DeadlineNear'
    BY <2>1
  <2>4. WindowBehind'
    BY <2>1
  <2> HIDE TickAssumption DEF TickTypeOK, DeadlineNear, WindowBehind
  <2> QED BY <2>2, <2>3, <2>4
<1>2. CASE WatchTicks
  <2>1. UNCHANGED <<clock, tickPC, deadline, lastStart, ticksStop>>
    BY <1>2 DEF WatchTicks
  <2>2. NoWindow = [open |-> FALSE, since |-> 0, due |-> 0]
    BY DEF NoWindow
  <2>3. window' = [open |-> TRUE, since |-> clock, due |-> 0]
    BY <1>2, <2>2 DEF WatchTicks
  <2>4. window' \in [open : BOOLEAN, since : 0 .. clock, due : Nat]
    BY <2>3
  <2>5. TickTypeOK'
    <3>1. window' \in [open : BOOLEAN, since : 0 .. clock', due : Nat]
      BY <2>1, <2>4
    <3> QED BY <2>1, <3>1
  <2>6. DeadlineNear' /\ WindowBehind'
    BY <2>1, <2>3
  <2> HIDE TickAssumption DEF TickTypeOK, DeadlineNear, WindowBehind
  <2> QED BY <2>5, <2>6
<1>3. CASE StopTicks
  BY <1>3 DEF StopTicks
<1>4. CASE TickStarts
  <2>1. CASE window.open
    BY <1>4, <2>1 DEF TickStarts
  <2>2. CASE ~window.open
    BY <1>4, <2>2 DEF TickStarts
  <2> QED BY <2>1, <2>2
<1>5. CASE TickIsOver
  <2>1. CASE TooLate
    BY <1>5, <2>1 DEF TickIsOver, TooLate
  <2>2. CASE ~TooLate
    BY <1>5, <2>2 DEF TickIsOver, TooLate
  <2> QED BY <2>1, <2>2
<1>6. CASE Wakes
  BY <1>6 DEF Wakes, SleepUntil
<1>7. CASE LastTickDone
  BY <1>7 DEF LastTickDone
<1> QED BY <1>1, <1>2, <1>3, <1>4, <1>5, <1>6, <1>7 DEF TicksNext

\* The rate of the ticks follows from where the deadline can be.
LEMMA TickInvariantPaces == TickInvariant => PaceKept
BY TickAssumption
DEF TickInvariant, TickTypeOK, DeadlineNear, WindowBehind, PaceKept, RateBounded, NeverOversleeps, SleepUntil

-----------------------------------------------------------------------------
(***************************************************************************)
(* The cycles of the sequential orchestrator.                              *)
(***************************************************************************)
InChild == {"next", "child", "running", "joining", "endRead"}
InReturn == {"returning", "measuring", "lastRead"}
ReturnRecord == [time : 0 .. ReturnTimeout + 1, settled : 0 .. SettleTicks, calls : 0 .. 2,
                 stop : {"none", "BLOCKED", "WRITE_FAILED", "SECOND_CTRL_C", "TIMEOUT", "COMPLETE"}]

\* Which loops can be alive where run() is, and how often the return was begun.
CycleInvariant ==
  /\ SeqTypeOK
  /\ back \in ReturnRecord /\ inHandler \in BOOLEAN
  /\ seqPC \in {"returning", "measuring"} => back.settled < SettleTicks
  /\ seqPC = "measuring" => back.time <= ReturnTimeout
  /\ OthersWereGivenUp /\ ReturnsForCtrlCOnly
  /\ \A c \in Cycles : c > cycle => threads[c] = "none"
  /\ seqPC \in InChild \ {"next"} => cycle \in Cycles
  /\ seqPC = "begin" => cycle = 0
  /\ seqPC \in {"next", "child", "joining", "handlerJoin"} => Executing = {}
  /\ seqPC \in {"next", "endRead"} => Arm \subseteq gaveUp
  /\ seqPC \in {"begin"} \cup InChild => back.calls = 0 /\ ~inHandler
  /\ seqPC \in {"handler", "handlerJoin"} => inHandler /\ back.calls <= 1
  /\ seqPC \in {"handlerJoin", "return"} \cup InReturn => seqReason = "KEYBOARD_INTERRUPT"
  /\ seqPC = "return" => back.calls <= (IF inHandler THEN 1 ELSE 0)
  /\ seqPC \in InReturn => back.calls <= (IF inHandler THEN 2 ELSE 1)

\* A thread of a child that reads, has read or ends: no loop comes to life by it.
LEMMA ThreadStepKeeps ==
  ASSUME CycleInvariant, NEW c \in Cycles,
         ThreadLocks(c) \/ ThreadReads(c) \/ LoopEnds(c)
  PROVE  CycleInvariant'
<1>1. /\ UNCHANGED <<seqPC, cycle, childEnd, inHandler, seqReason, gaveUp, back>>
      /\ reading' \in {0, c, reading}
  BY DEF ThreadLocks, ThreadReads, LoopEnds
<1>2. /\ threads' \in [Cycles -> {"none", "worker", "oldWorker", "running", "told", "leaving", "ended"}]
      /\ \A d \in Cycles : threads'[d] = threads[d] \/
            (threads[d] \in {"told", "leaving", "oldWorker"} /\ threads'[d] \in {"leaving", "ended"})
      /\ \A d \in Cycles : threads'[d] = "leaving" => threads[d] \in {"told", "leaving"}
  BY DEF ThreadLocks, ThreadReads, LoopEnds, Thread, CycleInvariant, SeqTypeOK
<1>3. Executing' = Executing /\ Arm' \subseteq Arm
  BY <1>2 DEF Executing, Arm, LoopAlive
<1>4. SeqTypeOK'
  <2>1. c \in 0 .. ChunkLimit
    BY SequentialAssumption DEF Cycles
  <2> QED BY <1>1, <1>2, <2>1, SequentialAssumption DEF CycleInvariant, SeqTypeOK
<1>5. OthersWereGivenUp' /\ ReturnsForCtrlCOnly'
  BY <1>1, <1>3 DEF CycleInvariant, OthersWereGivenUp, ReturnsForCtrlCOnly
<1>6. \A d \in Cycles : d > cycle => threads'[d] = "none"
  BY <1>2 DEF CycleInvariant
<1> QED BY <1>1, <1>3, <1>4, <1>5, <1>6 DEF CycleInvariant

\* The steps of the cycles, of Ctrl-C and of the return keep the invariant.
LEMMA CycleStepKeeps == CycleInvariant /\ SeqNext => CycleInvariant'
<1> SUFFICES ASSUME CycleInvariant, SeqNext PROVE CycleInvariant'
  OBVIOUS
<1>0. ChunkLimit \in Nat \ {0} /\ Duration \in Nat \ {0} /\ SettleTicks \in Nat \ {0}
      /\ ReturnTimeout \in Nat
  BY SequentialAssumption DEF ReturnTimeout
<1> USE <1>0 DEF CycleInvariant, SeqTypeOK, OthersWereGivenUp, ReturnsForCtrlCOnly, Executing, Arm,
                 LoopAlive, Cycles, InChild, InReturn, ReturnRecord, SeqGoto
<1> HIDE SequentialAssumption DEF ReturnTimeout
<1>1. CASE ReadsStart
  BY <1>1 DEF ReadsStart
<1>2. CASE NextCycle
  BY <1>2 DEF NextCycle
<1>3. CASE ChildStarts
  BY <1>3 DEF ChildStarts, Thread
<1>4. CASE ChildStops
  BY <1>4 DEF ChildStops, Thread
<1>5. CASE ChildJoins
  BY <1>5 DEF ChildJoins, AfterChild
<1>6. CASE CycleEnds
  BY <1>6 DEF CycleEnds
<1>7. CASE \E c \in Cycles : ThreadLocks(c) \/ ThreadReads(c) \/ LoopEnds(c)
  BY <1>7, ThreadStepKeeps
<1>8. CASE SeqInterrupted
  <2>1. UNCHANGED <<cycle, threads, reading, childEnd, seqReason, gaveUp, back>>
    BY <1>8 DEF SeqInterrupted
  <2>2. CASE seqPC \in InTry /\ ~inHandler
    <3>1. seqPC' = "handler" /\ inHandler'
      BY <1>8, <2>2 DEF SeqInterrupted
    <3>2. back.calls <= 1
      BY <2>2 DEF InTry
    <3> QED BY <2>1, <3>1, <3>2
  <2>3. CASE ~(seqPC \in InTry /\ ~inHandler)
    <3>1. seqPC' = "end" /\ inHandler' = inHandler
      BY <1>8, <2>3 DEF SeqInterrupted
    <3> QED BY <2>1, <3>1
  <2> QED BY <2>2, <2>3
<1>9. CASE HandlerTellsThreads
  BY <1>9 DEF HandlerTellsThreads
<1>10. CASE HandlerJoins
  BY <1>10 DEF HandlerJoins
<1>11. CASE ReturnBegins
  BY <1>11 DEF ReturnBegins
<1>12. CASE ReturnIsRefused \/ ReturnTimesOut
  BY <1>12 DEF ReturnIsRefused, ReturnTimesOut, ReturnStopsWith
<1>13. CASE ReturnWrites \/ ReturnEnds \/ ReturnRaises
  <2>1. UNCHANGED <<cycle, threads, reading, childEnd, inHandler, seqReason, gaveUp, back>>
    BY <1>13 DEF ReturnWrites, ReturnEnds, ReturnRaises
  <2>2. CASE ReturnWrites
    BY <2>1, <2>2 DEF ReturnWrites
  <2>3. CASE ReturnEnds \/ ReturnRaises
    <3>1. seqPC' = "end"
      BY <2>3 DEF ReturnEnds, ReturnRaises
    <3> QED BY <2>1, <3>1
  <2> QED BY <1>13, <2>2, <2>3
<1>14. CASE ReturnMeasures
  <2>1. /\ seqPC = "measuring" /\ seqPC' \in {"returning", "lastRead"}
        /\ UNCHANGED <<cycle, threads, reading, childEnd, inHandler, seqReason, gaveUp>>
    BY <1>14 DEF ReturnMeasures
  <2>2. back' \in ReturnRecord /\ back'.calls = back.calls
        /\ (seqPC' = "returning" => back'.settled < SettleTicks)
    <3>1. PICK within \in BOOLEAN :
            \/ /\ Settled(within) >= SettleTicks /\ seqPC' = "lastRead"
               /\ back' = [back EXCEPT !.settled = Settled(within), !.stop = "COMPLETE"]
            \/ /\ ~(Settled(within) >= SettleTicks) /\ seqPC' = "returning"
               /\ \E time \in back.time + 1 .. ReturnTimeout + 1 :
                    back' = [back EXCEPT !.settled = Settled(within), !.time = time]
      BY <1>14 DEF ReturnMeasures
    <3>2. Settled(within) \in 0 .. SettleTicks
      BY <2>1 DEF Settled
    <3>3. CASE Settled(within) >= SettleTicks
      <4>1. back' = [back EXCEPT !.settled = Settled(within), !.stop = "COMPLETE"]
            /\ seqPC' = "lastRead"
        BY <3>1, <3>3
      <4> QED BY <3>2, <4>1
    <3>4. CASE ~(Settled(within) >= SettleTicks)
      <4>1. PICK time \in back.time + 1 .. ReturnTimeout + 1 :
              back' = [back EXCEPT !.settled = Settled(within), !.time = time]
        BY <3>1, <3>4
      <4>2. time \in 0 .. ReturnTimeout + 1
        BY <4>1
      <4>3. Settled(within) < SettleTicks
        BY <3>2, <3>4
      <4>4. /\ back'.time = time /\ back'.settled = Settled(within)
            /\ back'.calls = back.calls /\ back'.stop = back.stop /\ back' \in ReturnRecord
        <5> HIDE DEF Settled
        <5> QED BY <3>2, <4>1, <4>2
      <4> QED BY <4>3, <4>4
    <3> QED BY <3>3, <3>4
  <2> QED BY <2>1, <2>2
<1> QED BY <1>1, <1>2, <1>3, <1>4, <1>5, <1>6, <1>7, <1>8, <1>9, <1>10, <1>11, <1>12, <1>13, <1>14
        DEF SeqNext

-----------------------------------------------------------------------------
(***************************************************************************)
(* The staged test on the real follower.                                   *)
(***************************************************************************)
Before == {"camera", "state", "follower"}
Stepping == {"observe", "reset", "predict", "write"}
Closing == {"closeState", "closeCamera"}

Ages == {"now", "before"}
AllNow(queue) == \A i \in DOMAIN queue : queue[i] = "now"

\* The devices are as far as the phase says, nothing but this step's prediction can
\* fill the queue of a fresh step, and the stage that is run was earned.
StagedInvariant ==
  /\ StagedTypeOK /\ StagedSafe
  /\ process \in [phase : Phases, stage : Stages, steps : Nat \ {0}, step : Nat]
  /\ actions \in Seq(Ages) /\ chosen \in Ages /\ fresh \in BOOLEAN
  /\ budget \in Nat
  /\ In("predict") /\ fresh => "before" \notin stray /\ AllNow(actions)
  /\ In("passed") => process.stage \in earned
  /\ process.phase \in Stepping \cup {"passed"} => connected /\ torque
  /\ process.phase \in Before \cup Stepping => process.step < process.steps
  /\ process.phase \in Before => sends = 0 /\ ~connected
  /\ sends > 0 /\ In("release") => connected

\* A stage has at least one step.
LEMMA StepsOfStages == \A s \in Stages : StageSteps[s] \subseteq Nat \ {0}
BY StagedAssumption DEF Stages, StageSteps

\* The policy's queue, filled if need be, is not empty and holds what it held or
\* actions of the age it was filled with.
LEMMA QueueOfPolicy ==
  ASSUME actions \in Seq(Ages), Len(actions) <= ActionSteps, NEW age \in Ages
  PROVE  /\ Tail(FilledWith(age)) \in Seq(Ages) /\ Len(Tail(FilledWith(age))) <= ActionSteps
         /\ Head(FilledWith(age)) \in Ages
         /\ age = "now" /\ AllNow(actions) =>
              Head(FilledWith(age)) = "now" /\ AllNow(Tail(FilledWith(age)))
<1>0. ActionSteps \in Nat /\ ActionSteps >= 1
  BY StagedAssumption
<1>1. /\ FilledWith(age) \in Seq(Ages) /\ Len(FilledWith(age)) \in 1 .. ActionSteps
      /\ age = "now" /\ AllNow(actions) => AllNow(FilledWith(age))
  <2>1. CASE actions = <<>>
    <3>1. [i \in 1 .. ActionSteps |-> age] \in Seq(Ages)
          /\ Len([i \in 1 .. ActionSteps |-> age]) = ActionSteps
      BY <1>0
    <3>2. age = "now" => AllNow([i \in 1 .. ActionSteps |-> age])
      BY <1>0 DEF AllNow
    <3> QED BY <1>0, <2>1, <3>1, <3>2 DEF FilledWith
  <2>2. CASE actions # <<>>
    BY <1>0, <2>2 DEF FilledWith
  <2> QED BY <2>1, <2>2
<1> DEFINE queue == FilledWith(age)
<1> HIDE DEF queue
<1>2. queue \in Seq(Ages) /\ Len(queue) \in 1 .. ActionSteps
      /\ (age = "now" /\ AllNow(actions) => AllNow(queue))
  BY <1>1 DEF queue
<1>3. Tail(queue) \in Seq(Ages) /\ Len(Tail(queue)) <= ActionSteps /\ Head(queue) \in Ages
  BY <1>0, <1>2
<1>4. AllNow(queue) => Head(queue) = "now" /\ AllNow(Tail(queue))
  BY <1>0, <1>2 DEF AllNow
<1> QED BY <1>2, <1>3, <1>4 DEF queue

\* An attempt that is executed late, or times out, changes the policy alone, and
\* makes a fresh queue no older.
LEMMA StrayStepKeeps ==
  ASSUME StagedInvariant, AttemptTimesOut \/ StrayAttemptExecuted
  PROVE  StagedInvariant'
<1>1. UNCHANGED <<process, receipts, earned, held, connected, torque, budget, fresh, chosen, sends>>
  BY DEF AttemptTimesOut, StrayAttemptExecuted, devices, results
<1>2. /\ actions' \in Seq(Ages) /\ Len(actions') <= ActionSteps
      /\ stray' \subseteq {"reset", "now", "before"}
      /\ "before" \notin stray => "before" \notin stray' /\ (AllNow(actions) => AllNow(actions'))
  <2>1. /\ actions \in Seq(Ages) /\ Len(actions) <= ActionSteps
        /\ stray \subseteq {"reset", "now", "before"}
    BY DEF StagedInvariant, StagedTypeOK
  <2>2. CASE AttemptTimesOut
    BY <2>1, <2>2 DEF AttemptTimesOut
  <2>3. CASE StrayAttemptExecuted
    <3>1. PICK what \in stray :
            /\ actions' = IF what = "reset" THEN <<>> ELSE Tail(FilledWith(what))
            /\ stray' \in {stray, stray \ {what}}
      BY <2>3 DEF StrayAttemptExecuted
    <3>2. CASE what = "reset"
      <4>1. <<>> \in Seq(Ages) /\ Len(<<>>) <= ActionSteps /\ AllNow(<<>>)
        BY StagedAssumption DEF AllNow
      <4>2. actions' = <<>>
        BY <3>1, <3>2
      <4> QED BY <2>1, <3>1, <4>1, <4>2
    <3>3. CASE what # "reset"
      <4>1. what \in Ages /\ actions' = Tail(FilledWith(what))
        BY <2>1, <3>1, <3>3 DEF Ages
      <4>2. "before" \notin stray => what = "now"
        BY <3>1, <4>1 DEF Ages
      <4> QED BY <2>1, <3>1, <4>1, <4>2, QueueOfPolicy
    <3> QED BY <3>2, <3>3
  <2> QED BY <2>2, <2>3
<1>3. StagedTypeOK' /\ StagedSafe'
  BY <1>1, <1>2 DEF StagedInvariant, StagedTypeOK, StagedSafe, SendsWithinStage, StagesEarned,
                    ActsOnThisObservation, WritesWhileConnected, In
<1> QED BY <1>1, <1>2, <1>3 DEF StagedInvariant, In, Before, Stepping

\* The steps of the script keep the invariant of the staged test.
LEMMA StagedStepKeeps == StagedInvariant /\ StagedNext => StagedInvariant'
<1> SUFFICES ASSUME StagedInvariant, StagedNext PROVE StagedInvariant'
  OBVIOUS
<1> USE DEF StagedInvariant, StagedTypeOK, StagedSafe, SendsWithinStage, ActsOnThisObservation,
            StagesEarned, WritesWhileConnected, Before, Stepping, Closing, Phases, Stages,
            In, Goto, Halts, devices, results, policy, stepOf, StepIsOver, Ages
<1>1. ASSUME NEW s \in Stages, NEW steps \in StageSteps[s], RunBegins(s, steps)
      PROVE  StagedInvariant'
  <2>1. steps \in Nat \ {0}
    BY StepsOfStages
  <2>2. s > 1 => s - 1 \in receipts
    BY <1>1 DEF RunBegins, StageAllowed
  <2>3. /\ process' = [phase |-> "camera", stage |-> s, steps |-> steps, step |-> 0]
        /\ held' = {} /\ connected' = FALSE
        /\ budget' = 0 /\ sends' = 0
        /\ UNCHANGED <<receipts, earned, torque, stray, chosen, fresh>>
        /\ actions' \in {actions, <<>>}
    BY <1>1 DEF RunBegins
  <2>4. /\ process' \in [phase : Phases, stage : Stages, steps : Nat \ {0}, step : Nat]
        /\ process'.phase = "camera" /\ process'.stage = s
        /\ process'.steps = steps /\ process'.step = 0
    BY <2>1, <2>3
  <2>7. actions' \in Seq(Ages) /\ Len(actions') <= ActionSteps
    <3>1. <<>> \in Seq(Ages) /\ Len(<<>>) <= ActionSteps
      BY StagedAssumption
    <3> QED BY <2>3, <3>1
  <2>5. StagedTypeOK'
    <3>1. process'.step \in 0 .. process'.steps
      BY <2>1, <2>4
    <3>2. process'.phase \in Phases /\ process'.stage \in Stages
      BY <2>4
    <3>3. Len(actions') <= ActionSteps /\ stray' \subseteq {"reset", "now", "before"}
      BY <2>3, <2>7
    <3>4. /\ receipts' \subseteq Stages /\ earned' \subseteq Stages
          /\ held' = {} /\ connected' = FALSE /\ torque' \in BOOLEAN
      BY <2>3
    <3> HIDE DEF Phases, Stages, StagedInvariant
    <3> QED BY <3>1, <3>2, <3>3, <3>4
  <2>6. StagedSafe'
    BY <2>1, <2>2, <2>3, <2>4
  <2> HIDE DEF StagedTypeOK, StagedSafe, Phases, Stages
  <2> QED BY <2>3, <2>4, <2>5, <2>6, <2>7
<1>2. CASE OpensCamera \/ ConnectsState
  BY <1>2 DEF OpensCamera, ConnectsState, Opens
<1>3. CASE ConnectsFollower
  <2>1. /\ process.phase = "follower" /\ process' = [process EXCEPT !.phase = process'.phase]
        /\ UNCHANGED <<receipts, earned, budget, actions, stray, fresh, chosen, sends>>
        /\ held' \in {held, held \cup {"follower"}} /\ torque' \in {torque, TRUE}
    BY <1>3 DEF ConnectsFollower
  <2>2. \/ process'.phase = "observe" /\ connected' = TRUE /\ torque' = TRUE
        \/ process'.phase = "release" /\ UNCHANGED connected
    BY <1>3 DEF ConnectsFollower
  <2>3. /\ process' \in [phase : Phases, stage : Stages, steps : Nat \ {0}, step : Nat]
        /\ process'.stage = process.stage /\ process'.steps = process.steps
        /\ process'.step = process.step
    BY <2>1, <2>2
  <2>4. StagedTypeOK'
    BY <2>1, <2>2, <2>3
  <2>5. StagedSafe'
    BY <2>1, <2>2, <2>3
  <2>6. process'.phase \in {"observe", "release"} /\ sends' = 0
        /\ (process'.phase = "observe" => connected' /\ torque' /\ process'.step < process'.steps)
    BY <2>1, <2>2, <2>3
  <2> HIDE DEF StagedTypeOK, StagedSafe
  <2> QED BY <2>1, <2>3, <2>4, <2>5, <2>6
<1>4. CASE Observes
  <2>1. /\ UNCHANGED <<receipts, earned, held, connected, torque, budget, fresh, chosen, sends>>
        /\ process.phase = "observe" /\ process' = [process EXCEPT !.phase = process'.phase]
        /\ process'.phase \in {"reset", "release"}
    BY <1>4 DEF Observes
  <2>2. /\ actions' \in Seq(Ages) /\ Len(actions') <= ActionSteps
        /\ stray' \subseteq {"reset", "now", "before"}
    <3>1. actions' = [i \in DOMAIN actions |-> "before"] /\ actions \in Seq(Ages)
      BY <1>4 DEF Observes
    <3>2. Len(actions') = Len(actions) /\ actions' \in Seq(Ages)
      BY <3>1
    <3>3. stray' = {IF what = "now" THEN "before" ELSE what : what \in stray}
          /\ stray \subseteq {"reset", "now", "before"}
      BY <1>4 DEF Observes
    <3> HIDE DEF StagedInvariant, Ages
    <3>4. stray' \subseteq {"reset", "now", "before"}
      BY <3>3
    <3> QED BY <1>4, <3>2, <3>4 DEF StagedInvariant
  <2> QED BY <2>1, <2>2
<1>5. CASE ResetsSession
  <2>1. /\ process.phase = "reset" /\ process' = [process EXCEPT !.phase = process'.phase]
        /\ UNCHANGED <<receipts, earned, held, connected, torque, budget, stray, chosen, sends>>
        /\ actions' \in {<<>>, actions}
        /\ \/ process'.phase = "predict" /\ actions' = <<>> /\ fresh' = ("before" \notin stray)
           \/ process'.phase = "release" /\ fresh' = fresh
    BY <1>5 DEF ResetsSession
  <2>2. actions' \in Seq(Ages) /\ Len(actions') <= ActionSteps
    <3>1. <<>> \in Seq(Ages) /\ Len(<<>>) <= ActionSteps
      BY StagedAssumption
    <3> QED BY <2>1, <3>1
  <2>3. actions' = <<>> => AllNow(actions')
    BY DEF AllNow
  <2> QED BY <2>1, <2>2, <2>3
<1>6. CASE Predicts
  <2>1. /\ UNCHANGED <<receipts, earned, held, connected, torque, budget, stray, sends>>
        /\ process.phase = "predict" /\ process' = [process EXCEPT !.phase = process'.phase]
        /\ actions' \in {actions, Tail(FilledWith("now"))}
        /\ \/ process'.phase = "write" /\ chosen' = Head(FilledWith("now")) /\ fresh' = fresh
           \/ process'.phase = "release" /\ fresh' = TRUE /\ chosen' = "now"
    BY <1>6 DEF Predicts
  <2>2. /\ Tail(FilledWith("now")) \in Seq(Ages) /\ Len(Tail(FilledWith("now"))) <= ActionSteps
        /\ Head(FilledWith("now")) \in Ages
        /\ fresh => Head(FilledWith("now")) = "now"
    BY <2>1, QueueOfPolicy
  <2>3. actions' \in Seq(Ages) /\ Len(actions') <= ActionSteps
    <3>1. actions \in Seq(Ages) /\ Len(actions) <= ActionSteps
      OBVIOUS
    <3> HIDE DEF StagedInvariant
    <3>2. CASE actions' = actions
      BY <3>1, <3>2
    <3>3. CASE actions' = Tail(FilledWith("now"))
      BY <2>2, <3>3
    <3> QED BY <2>1, <3>2, <3>3
  <2>4. chosen' \in Ages /\ fresh' \in BOOLEAN
        /\ (process'.phase = "write" /\ fresh' => chosen' = "now")
    <3>1. fresh \in BOOLEAN
      OBVIOUS
    <3> HIDE DEF StagedInvariant
    <3>2. CASE process'.phase = "write" /\ chosen' = Head(FilledWith("now")) /\ fresh' = fresh
      BY <2>2, <3>1, <3>2
    <3>3. CASE process'.phase = "release" /\ fresh' = TRUE /\ chosen' = "now"
      BY <3>3
    <3> QED BY <2>1, <3>2, <3>3
  <2>5. process'.phase \in {"write", "release"}
    BY <2>1
  <2> QED BY <2>1, <2>3, <2>4, <2>5
<1>7. CASE DoesNotWrite
  BY <1>7 DEF DoesNotWrite
<1>8. CASE WriteRaises
  BY <1>8 DEF WriteRaises, Sent, StagedBudgetLeft
<1>9. CASE Writes
  <2> DEFINE last == process.step + 1 = process.steps
             next == IF last THEN "passed" ELSE "observe"
             Record == [phase : Phases, stage : Stages, steps : Nat \ {0}, step : Nat]
  <2>1. /\ process \in Record /\ process.phase = "write"
        /\ process.step < process.steps
        /\ process.stage > 1 => process.stage - 1 \in earned
    BY <1>9 DEF Writes
  <2>2. /\ receipts \subseteq earned /\ earned \subseteq Stages
        /\ held \subseteq {"camera", "state", "follower"} /\ Len(actions) <= ActionSteps
        /\ actions \in Seq(Ages) /\ stray \subseteq {"reset", "now", "before"}
        /\ connected = TRUE /\ torque = TRUE
    BY <1>9 DEF Writes
  <2>3. budget \in Nat /\ sends = budget /\ budget < process.steps
    BY <1>9 DEF Writes, StagedBudgetLeft
  <2>4. /\ sends' = sends + 1 /\ budget' = budget + 1 /\ fresh' = TRUE /\ chosen' = "now"
        /\ UNCHANGED <<held, connected, torque, receipts, actions, stray>>
    BY <1>9 DEF Writes, Sent
  <2>5. /\ process' = [process EXCEPT !.step = process.step + 1, !.phase = next]
        /\ earned' = IF last THEN earned \cup {process.stage} ELSE earned
    BY <1>9 DEF Writes
  <2> HIDE DEF StagedInvariant, StagedTypeOK, StagedSafe, SendsWithinStage, ActsOnThisObservation,
               StagesEarned, WritesWhileConnected, Before, Stepping, Closing
  <2>6. next \in Phases /\ next \in {"passed", "observe"} /\ last \in BOOLEAN
    OBVIOUS
  <2>7. process.stage \in Stages /\ process.steps \in Nat /\ process.step \in Nat
    BY <2>1
  <2>8. /\ process' \in Record /\ process'.phase = next /\ process'.step = process.step + 1
        /\ process'.steps = process.steps /\ process'.stage = process.stage
    <3> HIDE DEF next, last, Phases, Stages
    <3>1. process.step + 1 \in Nat
      BY <2>7
    <3> QED BY <2>1, <2>5, <2>6, <3>1
  <2>9. earned \subseteq earned' /\ earned' \subseteq Stages /\ (last => process.stage \in earned')
    <3> HIDE DEF Stages, last, next
    <3> QED BY <2>2, <2>5, <2>7
  <2>10. process'.step \in 0 .. process'.steps /\ (~last => process'.step < process'.steps)
    <3> HIDE DEF Phases, Stages, next
    <3> QED BY <2>1, <2>7, <2>8
  <2> HIDE DEF Phases, Stages, last
  <2>11. StagedTypeOK'
    BY <2>2, <2>4, <2>8, <2>9, <2>10 DEF StagedTypeOK
  <2>12. StagedSafe'
    <3>1. SendsWithinStage'
      BY <2>3, <2>4, <2>7, <2>8 DEF SendsWithinStage
    <3>2. ActsOnThisObservation'
      BY <2>4 DEF ActsOnThisObservation
    <3>3. StagesEarned'
      BY <2>1, <2>2, <2>4, <2>8, <2>9 DEF StagesEarned
    <3>4. WritesWhileConnected'
      BY <2>2, <2>4, <2>6, <2>8 DEF WritesWhileConnected
    <3> QED BY <3>1, <3>2, <3>3, <3>4 DEF StagedSafe
  <2>13. budget' \in Nat /\ actions' \in Seq(Ages) /\ chosen' \in Ages /\ fresh' \in BOOLEAN /\ connected' /\ torque'
    BY <2>2, <2>3, <2>4
  <2> QED BY <2>6, <2>8, <2>9, <2>10, <2>11, <2>12, <2>13 DEF StagedInvariant, Before, Stepping
<1>10. CASE WritesReceipt
  BY <1>10 DEF WritesReceipt
<1>11. CASE Interrupted
  BY <1>11 DEF Interrupted
<1>12. CASE DisconnectsFollower
  BY <1>12 DEF DisconnectsFollower
<1>13. CASE ClosesDevices
  BY <1>13 DEF ClosesDevices, Closes
<1>14. CASE AttemptTimesOut \/ StrayAttemptExecuted
  BY <1>14, StrayStepKeeps
<1> QED BY <1>1, <1>2, <1>3, <1>4, <1>5, <1>6, <1>7, <1>8, <1>9, <1>10, <1>11, <1>12, <1>13, <1>14
        DEF StagedNext

-----------------------------------------------------------------------------
(***************************************************************************)
(* The monitor of a session.                                               *)
(***************************************************************************)
\* How long what the monitor counts can have been going on.
MonitorInvariant ==
  /\ MonitorTypeOK
  /\ single \in BOOLEAN /\ anyWrite \in BOOLEAN /\ sanityChecked \in BOOLEAN
  /\ streak \in [family : {"none", "productive", "unproductive", "fault"},
                 kind : TickKinds \cup {"none", "mixed"}, since : 0 .. watched]
  /\ record = "none" <=> streak.family = "none"
  /\ record \in Unproductive <=> streak.family = "unproductive"
  /\ record \in Faults <=> streak.family = "fault"
  /\ streak.kind \in Faults => record = streak.kind
  /\ record = "none" => unproductiveSince = 0
  /\ streak.family = "unproductive" /\ unproductiveSince # 0 => unproductiveSince - 1 <= streak.since
  /\ Watching =>
       /\ faultCount < FatalFaults /\ readCount < FatalReads
       /\ ~sanityChecked => watched < SanityWindow + MaxDelay
       /\ ~anyWrite => ~sanityChecked
       /\ unproductiveSince # 0 =>
            /\ watched - (unproductiveSince - 1) < FatalNonproductive + MaxDelay
            /\ single => unproductiveSince - 1 < ChunkEnd
       /\ streak.family = "unproductive" /\ unproductiveSince = 0 => watched = streak.since
       /\ streak.kind = "fault" => watched - streak.since <= faultCount * MaxDelay
       /\ streak.kind = "readFault" => watched - streak.since <= readCount * MaxDelay
       /\ streak.kind = "writerFault" => watched = streak.since
  /\ ChunkEndIsNormal

\* One more of what is counted takes one more delay, at most.
LEMMA OneMoreDelay ==
  ASSUME NEW n \in Nat, NEW limit \in Nat, n < limit
  PROVE  /\ n * MaxDelay \in Nat /\ limit * MaxDelay \in Nat
         /\ (n + 1) * MaxDelay = n * MaxDelay + MaxDelay
         /\ n * MaxDelay + MaxDelay <= limit * MaxDelay
<1>1. MaxDelay \in Nat
  BY MonitorAssumption
<1>2. \A a, b \in Nat : a * b \in Nat /\ (a + 1) * b = a * b + b
  OBVIOUS
<1>3. PICK rest \in Nat : limit = n + 1 + rest
  <2>1. limit - (n + 1) \in Nat /\ limit = n + 1 + (limit - (n + 1))
    OBVIOUS
  <2> QED BY <2>1
<1>4. limit * MaxDelay = (n + 1) * MaxDelay + rest * MaxDelay
  BY <1>1, <1>3
<1> QED BY <1>1, <1>2, <1>3, <1>4

\* A session goes on only when no reason to stop it was found, and is stopped as
\* unproductive only when it has been so for long.
LEMMA DecisionOfPoll ==
  /\ Decision \in {"watching", "SANITY_WINDOW_FATAL", "WRITER_EXCEPTION_FATAL",
        "STATE_READ_FAILURE_FATAL", "CONSECUTIVE_FAULT_FATAL", "NONPRODUCTIVE_FATAL",
        "SINGLE_CHUNK_COMPLETE", "INFERENCE_UNRECOVERABLE_FATAL", "NORMAL_MAX_RUNTIME"}
  /\ Decision = "NONPRODUCTIVE_FATAL" => LongUnproductive
  /\ Decision = "watching" =>
       /\ ~(SanityIsDue /\ ~anyWrite)
       /\ record # "writerFault"
       /\ ~(record = "readFault" /\ ReadsInARow >= FatalReads)
       /\ ~(record = "fault" /\ FaultsInARow >= FatalFaults)
       /\ ~LongUnproductive
       /\ ~(single /\ watched >= ChunkEnd /\ record \in Unproductive)
       /\ ~(watched >= MaxRuntime)
<1>1. /\ FatalOfRecord \in {"none", "SANITY_WINDOW_FATAL", "WRITER_EXCEPTION_FATAL",
            "STATE_READ_FAILURE_FATAL", "CONSECUTIVE_FAULT_FATAL", "NONPRODUCTIVE_FATAL"}
      /\ FatalOfRecord = "NONPRODUCTIVE_FATAL" => LongUnproductive
  BY DEF FatalOfRecord
<1>2. FatalOfRecord = "none" =>
        /\ ~(SanityIsDue /\ ~anyWrite)
        /\ record # "writerFault"
        /\ ~(record = "readFault" /\ ReadsInARow >= FatalReads)
        /\ ~(record = "fault" /\ FaultsInARow >= FatalFaults)
        /\ ~LongUnproductive
  BY DEF FatalOfRecord
<1>3. Decision = "watching" =>
        /\ FatalOfRecord = "none"
        /\ ~(single /\ watched >= ChunkEnd /\ record \in Unproductive)
        /\ ~(watched >= MaxRuntime)
  BY <1>1 DEF Decision
<1>4. Decision \in {FatalOfRecord, "watching", "SINGLE_CHUNK_COMPLETE",
                    "INFERENCE_UNRECOVERABLE_FATAL", "NORMAL_MAX_RUNTIME"}
      /\ (Decision = "none" => FALSE)
  BY DEF Decision
<1> QED BY <1>1, <1>2, <1>3, <1>4

\* The poll, as what it makes of the time and of the counters.
LEMMA MonitorStepKeeps == MonitorInvariant /\ MonitorNext => MonitorInvariant'
<1> SUFFICES ASSUME MonitorInvariant, MonitorNext PROVE MonitorInvariant'
  OBVIOUS
<1>0. /\ SanityWindow \in Nat /\ ChunkEnd \in Nat /\ MaxRuntime \in Nat
      /\ FatalNonproductive \in Nat \ {0} /\ FatalFaults \in Nat \ {0}
      /\ FatalReads \in Nat \ {0} /\ MaxDelay \in Nat \ {0}
  BY MonitorAssumption
<1> USE DEF MonitorInvariant, MonitorTypeOK, Watching, ChunkEndIsNormal,
            TickKinds, Faults, Unproductive, Written
<1>1. ASSUME NEW kind \in TickKinds, MonitorSeesTick(kind)
      PROVE  MonitorInvariant'
  BY <1>0, <1>1 DEF MonitorSeesTick, FamilyOf
<1>2. CASE InferenceSucceeds
  BY <1>0, <1>2 DEF InferenceSucceeds
<1>3. CASE Poll
  <2>1. /\ verdict = "watching" /\ verdict' = Decision
        /\ sanityChecked' = (sanityChecked \/ SanityIsDue)
        /\ unproductiveSince' = UnproductiveStart
        /\ faultCount' = FaultsInARow /\ readCount' = ReadsInARow
        /\ UNCHANGED <<single, record, anyWrite, lastSuccess, streak>>
    BY <1>3 DEF Poll
  <2>2. PICK delay \in 1 .. MaxDelay :
          watched' = IF verdict' = "watching" THEN watched + delay ELSE watched
    BY <1>3 DEF Poll
  <2>3. Decision = "watching" =>
          /\ SanityIsDue => anyWrite
          /\ record # "writerFault"
          /\ record = "readFault" => ReadsInARow < FatalReads
          /\ record = "fault" => FaultsInARow < FatalFaults
          /\ ~LongUnproductive
          /\ ~(single /\ watched >= ChunkEnd /\ record \in Unproductive)
          /\ ~(watched >= MaxRuntime)
    <3>1. ReadsInARow \in Nat /\ FaultsInARow \in Nat
      BY <1>0 DEF ReadsInARow, FaultsInARow
    <3> QED BY <1>0, <3>1, DecisionOfPoll
  <2>4. Decision = "NONPRODUCTIVE_FATAL" => LongUnproductive
    BY DecisionOfPoll
  <2>5. MonitorTypeOK'
    <3>1. Decision \in {"watching", "SANITY_WINDOW_FATAL", "WRITER_EXCEPTION_FATAL",
            "STATE_READ_FAILURE_FATAL", "CONSECUTIVE_FAULT_FATAL", "NONPRODUCTIVE_FATAL",
            "SINGLE_CHUNK_COMPLETE", "INFERENCE_UNRECOVERABLE_FATAL", "NORMAL_MAX_RUNTIME",
            "KEYBOARD_INTERRUPT"}
      BY DecisionOfPoll
    <3>2. watched' \in 0 .. MaxRuntime + MaxDelay /\ watched <= watched'
      <4>1. watched \in Nat /\ watched <= MaxRuntime + MaxDelay
        BY <1>0
      <4> HIDE DEF MonitorInvariant
      <4>2. watched' = watched \/ (watched' = watched + delay /\ ~(watched >= MaxRuntime))
        <5>1. CASE verdict' = "watching"
          <6>1. Decision = "watching"
            BY <2>1, <5>1
          <6> QED BY <2>2, <2>3, <5>1, <6>1
        <5>2. CASE verdict' # "watching"
          BY <2>2, <5>2
        <5> QED BY <5>1, <5>2
      <4> QED BY <1>0, <4>1, <4>2
    <3>3. unproductiveSince' \in 0 .. watched' + 1 /\ lastSuccess' \in 0 .. watched'
      <4>1. watched \in Nat /\ watched' \in Nat /\ watched <= watched'
            /\ lastSuccess \in 0 .. watched /\ unproductiveSince \in 0 .. watched + 1
        BY <1>0, <3>2
      <4>2. lastSuccess' = lastSuccess
            /\ unproductiveSince' \in {watched + 1, unproductiveSince, 0}
        BY <2>1 DEF UnproductiveStart
      <4>3. unproductiveSince' \in 0 .. watched + 1 /\ lastSuccess' \in 0 .. watched
        BY <4>1, <4>2
      <4>4. \A a, b \in Nat : a <= b => 0 .. a \subseteq 0 .. b /\ 0 .. a + 1 \subseteq 0 .. b + 1
        OBVIOUS
      <4> HIDE DEF MonitorInvariant
      <4>5. 0 .. watched \subseteq 0 .. watched' /\ 0 .. watched + 1 \subseteq 0 .. watched' + 1
        BY <4>1, <4>4, Zenon
      <4> QED BY <4>3, <4>5, Zenon
    <3>4. faultCount' \in 0 .. FatalFaults /\ readCount' \in 0 .. FatalReads
          /\ (faultCount' = 0 \/ readCount' = 0)
      BY <1>0, <2>1 DEF FaultsInARow, ReadsInARow
    <3> QED BY <2>1, <3>1, <3>2, <3>3, <3>4
  <2>6. streak' \in [family : {"none", "productive", "unproductive", "fault"},
                     kind : TickKinds \cup {"none", "mixed"}, since : 0 .. watched']
    <3>1. watched <= watched' /\ watched \in Nat /\ watched' \in Nat
      BY <1>0, <2>1, <2>2
    <3> QED BY <2>1, <3>1
  <2>7. /\ record' = "none" => unproductiveSince' = 0
        /\ streak'.family = "unproductive" /\ unproductiveSince' # 0 =>
             unproductiveSince' - 1 <= streak'.since
    BY <1>0, <2>1 DEF UnproductiveStart
  <2>8. ASSUME verdict' = "watching"
        PROVE  /\ faultCount' < FatalFaults /\ readCount' < FatalReads
               /\ ~sanityChecked' => watched' < SanityWindow + MaxDelay
               /\ ~anyWrite' => ~sanityChecked'
               /\ unproductiveSince' # 0 =>
                    /\ watched' - (unproductiveSince' - 1) < FatalNonproductive + MaxDelay
                    /\ single' => unproductiveSince' - 1 < ChunkEnd
               /\ streak'.family = "unproductive" /\ unproductiveSince' = 0 => watched' = streak'.since
               /\ streak'.kind = "fault" => watched' - streak'.since <= faultCount' * MaxDelay
               /\ streak'.kind = "readFault" => watched' - streak'.since <= readCount' * MaxDelay
               /\ streak'.kind = "writerFault" => watched' = streak'.since
    <3>1. watched' = watched + delay
      BY <2>2, <2>8
    <3>2. faultCount' < FatalFaults /\ readCount' < FatalReads
      BY <1>0, <2>1, <2>3, <2>8 DEF FaultsInARow, ReadsInARow
    <3>3. /\ ~sanityChecked' => watched' < SanityWindow + MaxDelay
          /\ ~anyWrite' => ~sanityChecked'
      BY <1>0, <2>1, <2>3, <2>8, <3>1 DEF SanityIsDue
    <3>4. unproductiveSince' # 0 =>
            /\ watched' - (unproductiveSince' - 1) < FatalNonproductive + MaxDelay
            /\ single' => unproductiveSince' - 1 < ChunkEnd
      BY <1>0, <2>1, <2>3, <2>8, <3>1 DEF UnproductiveStart, LongUnproductive
    <3>5. ~(streak'.family = "unproductive" /\ unproductiveSince' = 0)
      BY <1>0, <2>1 DEF UnproductiveStart
    <3>6. streak'.kind # "writerFault"
      BY <2>1, <2>3, <2>8
    <3>7. streak'.kind = "fault" => watched' - streak'.since <= faultCount' * MaxDelay
      <4>1. SUFFICES ASSUME streak.kind = "fault"
                     PROVE  watched' - streak.since <= (faultCount + 1) * MaxDelay
        BY <2>1 DEF FaultsInARow
      <4>2. (faultCount + 1) * MaxDelay = faultCount * MaxDelay + MaxDelay
            /\ faultCount * MaxDelay \in Nat
        BY <1>0, <2>1, OneMoreDelay
      <4>3. watched - streak.since <= faultCount * MaxDelay /\ streak.since \in Nat /\ watched \in Nat
        BY <2>1, <4>1
      <4> QED BY <1>0, <3>1, <4>2, <4>3
    <3>8. streak'.kind = "readFault" => watched' - streak'.since <= readCount' * MaxDelay
      <4>1. SUFFICES ASSUME streak.kind = "readFault"
                     PROVE  watched' - streak.since <= (readCount + 1) * MaxDelay
        BY <2>1 DEF ReadsInARow
      <4>2. (readCount + 1) * MaxDelay = readCount * MaxDelay + MaxDelay
            /\ readCount * MaxDelay \in Nat
        BY <1>0, <2>1, OneMoreDelay
      <4>3. watched - streak.since <= readCount * MaxDelay /\ streak.since \in Nat /\ watched \in Nat
        BY <2>1, <4>1
      <4> QED BY <1>0, <3>1, <4>2, <4>3
    <3> QED BY <3>2, <3>3, <3>4, <3>5, <3>6, <3>7, <3>8
  <2>9. ChunkEndIsNormal'
    BY <1>0, <2>1, <2>4 DEF LongUnproductive, UnproductiveStart
  <2>10. /\ single' \in BOOLEAN /\ anyWrite' \in BOOLEAN /\ sanityChecked' \in BOOLEAN
         /\ record' = "none" <=> streak'.family = "none"
         /\ record' \in Unproductive <=> streak'.family = "unproductive"
         /\ record' \in Faults <=> streak'.family = "fault"
         /\ streak'.kind \in Faults => record' = streak'.kind
    BY <1>0, <2>1 DEF SanityIsDue
  <2> HIDE DEF MonitorTypeOK, ChunkEndIsNormal, Unproductive, Faults, TickKinds
  <2> QED BY <2>5, <2>6, <2>7, <2>8, <2>9, <2>10
<1>4. CASE InterruptMonitor
  BY <1>0, <1>4 DEF InterruptMonitor
<1> QED BY <1>1, <1>2, <1>3, <1>4 DEF MonitorNext

\* What the invariant says of the verdict, and of how long a session is watched.
LEMMA MonitorInvariantJudges == MonitorInvariant => MonitorJudges
<1> SUFFICES ASSUME MonitorInvariant PROVE MonitorJudges
  OBVIOUS
<1>0. /\ SanityWindow \in Nat /\ FatalNonproductive \in Nat \ {0} /\ FatalFaults \in Nat \ {0}
      /\ FatalReads \in Nat \ {0} /\ MaxDelay \in Nat \ {0}
  BY MonitorAssumption
<1> USE DEF MonitorInvariant, MonitorTypeOK
<1>1. BarrenSessionStops
  BY <1>0 DEF BarrenSessionStops
<1>2. ASSUME Watching, streak.family = "fault", streak.kind \in Faults
      PROVE  watched - streak.since <=
               (IF streak.kind = "fault" THEN FatalFaults ELSE FatalReads) * MaxDelay
  <2>1. watched \in Nat /\ streak.since \in Nat /\ faultCount \in Nat /\ readCount \in Nat
    BY <1>0
  <2>2. CASE streak.kind = "fault"
    <3>1. watched - streak.since <= faultCount * MaxDelay /\ faultCount < FatalFaults
      BY <1>2, <2>2
    <3>2. /\ faultCount * MaxDelay \in Nat /\ FatalFaults * MaxDelay \in Nat
          /\ faultCount * MaxDelay + MaxDelay <= FatalFaults * MaxDelay
      BY <1>0, <2>1, <3>1, OneMoreDelay
    <3> QED BY <1>0, <2>1, <2>2, <3>1, <3>2
  <2>3. CASE streak.kind = "readFault"
    <3>1. watched - streak.since <= readCount * MaxDelay /\ readCount < FatalReads
      BY <1>2, <2>3
    <3>2. /\ readCount * MaxDelay \in Nat /\ FatalReads * MaxDelay \in Nat
          /\ readCount * MaxDelay + MaxDelay <= FatalReads * MaxDelay
      BY <1>0, <2>1, <3>1, OneMoreDelay
    <3> QED BY <1>0, <2>1, <2>3, <3>1, <3>2
  <2>4. CASE streak.kind = "writerFault"
    <3>1. watched = streak.since
      BY <1>2, <2>4
    <3>2. FatalReads * MaxDelay \in Nat
      BY <1>0
    <3> QED BY <2>1, <2>4, <3>1, <3>2
  <2> QED BY <1>2, <2>2, <2>3, <2>4 DEF Faults
<1>3. OneFaultPersistingStops
  BY <1>2 DEF OneFaultPersistingStops
<1>4. ChunkEndIsNormal
  OBVIOUS
<1> QED BY <1>1, <1>3, <1>4 DEF MonitorJudges

-----------------------------------------------------------------------------
(***************************************************************************)
(* The parts together.                                                     *)
(***************************************************************************)
ThreadsInvariant ==
  TickInvariant /\ MonitorInvariant /\ CycleInvariant /\ StagedInvariant

\* The parts begin as their invariants say.
LEMMA ThreadsInitialised == ThreadsInit => ThreadsInvariant
<1> SUFFICES ASSUME ThreadsInit PROVE ThreadsInvariant
  OBVIOUS
<1> USE DEF ThreadsInit
<1>1. TickInvariant
  <2>1. Period \in Nat /\ MaxLag \in Nat /\ MaxClock \in Nat
    BY TickAssumption
  <2>2. /\ window = [open |-> FALSE, since |-> 0, due |-> 0] /\ clock = 0 /\ tickPC = "check"
        /\ deadline = Period /\ lastStart = 0 /\ ticksStop = FALSE
    BY DEF TicksInit, NoWindow
  <2> HIDE DEF ThreadsInit
  <2>3. TickTypeOK
    <3>1. window \in [open : BOOLEAN, since : 0 .. clock, due : Nat]
      BY <2>2
    <3>2. clock \in 0 .. MaxClock /\ lastStart \in 0 .. clock /\ deadline \in Nat
      BY <2>1, <2>2
    <3>3. tickPC = "check" /\ ticksStop = FALSE
      BY <2>2
    <3> QED BY <3>1, <3>2, <3>3 DEF TickTypeOK
  <2>4. DeadlineNear /\ WindowBehind
    BY <2>1, <2>2 DEF DeadlineNear, WindowBehind
  <2> QED BY <2>3, <2>4 DEF TickInvariant
<1>2. MonitorInvariant
  <2>1. /\ SanityWindow \in Nat /\ MaxRuntime \in Nat /\ FatalNonproductive \in Nat \ {0}
        /\ FatalFaults \in Nat \ {0} /\ FatalReads \in Nat \ {0} /\ MaxDelay \in Nat \ {0}
    BY MonitorAssumption
  <2>2. /\ verdict = "watching" /\ watched = 0 /\ single \in BOOLEAN /\ record = "none"
        /\ anyWrite = FALSE /\ lastSuccess = 0 /\ sanityChecked = FALSE /\ unproductiveSince = 0
        /\ faultCount = 0 /\ readCount = 0
        /\ streak = [family |-> "none", kind |-> "none", since |-> 0]
    BY DEF MonitorInit
  <2> HIDE DEF ThreadsInit
  <2>3. MonitorTypeOK
    BY <2>1, <2>2 DEF MonitorTypeOK
  <2>4. /\ streak \in [family : {"none", "productive", "unproductive", "fault"},
                       kind : TickKinds \cup {"none", "mixed"}, since : 0 .. watched]
        /\ streak.family = "none" /\ streak.kind = "none"
    BY <2>2
  <2>5. record \notin Unproductive /\ record \notin Faults /\ streak.kind \notin Faults
    BY <2>2 DEF Unproductive, Faults
  <2>6. watched < SanityWindow + MaxDelay /\ faultCount < FatalFaults /\ readCount < FatalReads
    BY <2>1, <2>2
  <2>7. ChunkEndIsNormal
    BY <2>2 DEF ChunkEndIsNormal
  <2> HIDE DEF TickKinds, Faults, Unproductive
  <2> QED BY <2>2, <2>3, <2>4, <2>5, <2>6, <2>7 DEF MonitorInvariant, Watching
<1>3. CycleInvariant
  <2>1. ChunkLimit \in Nat /\ SettleTicks \in Nat \ {0} /\ ReturnTimeout \in Nat
    BY SequentialAssumption DEF ReturnTimeout
  <2>2. /\ seqPC = "begin" /\ cycle = 0 /\ threads = [c \in Cycles |-> "none"] /\ reading = 0
        /\ inHandler = FALSE /\ gaveUp = {}
        /\ back = [time |-> 0, settled |-> 0, calls |-> 0, stop |-> "none"]
    BY DEF SeqInit
  <2> HIDE DEF ThreadsInit
  <2>3. SeqTypeOK
    BY <2>1, <2>2 DEF SeqTypeOK
  <2>4. OthersWereGivenUp /\ ReturnsForCtrlCOnly /\ Executing = {}
    BY <2>2 DEF OthersWereGivenUp, ReturnsForCtrlCOnly, Executing, Arm, LoopAlive
  <2>5. back \in ReturnRecord
    <3>1. 0 \in 0 .. ReturnTimeout + 1 /\ 0 \in 0 .. SettleTicks /\ 0 \in 0 .. 2
      BY <2>1
    <3> QED BY <2>2, <3>1 DEF ReturnRecord
  <2>6. back.calls = 0
    BY <2>2
  <2> QED BY <2>2, <2>3, <2>4, <2>5, <2>6 DEF CycleInvariant, InChild, InReturn
<1>4. StagedInvariant
  <2>1. ActionSteps \in Nat
    BY StagedAssumption
  <2>2. /\ process = [phase |-> "none", stage |-> 1, steps |-> 1, step |-> 0]
        /\ receipts = {} /\ earned = {} /\ held = {} /\ connected = FALSE /\ torque = FALSE
        /\ budget = 0 /\ actions = <<>> /\ stray = {} /\ fresh = TRUE /\ chosen = "now" /\ sends = 0
    BY DEF StagedInit
  <2> HIDE DEF ThreadsInit
  <2>3. StagedTypeOK
    <3>1. Len(actions) <= ActionSteps
      BY <2>1, <2>2
    <3>2. process.phase \in Phases /\ process.stage \in Stages /\ process.step \in 0 .. process.steps
      BY <2>2 DEF Phases, Stages
    <3>3. receipts = {} /\ earned = {} /\ held = {} /\ connected = FALSE /\ torque = FALSE
          /\ stray = {}
      BY <2>2
    <3> QED BY <3>1, <3>2, <3>3 DEF StagedTypeOK
  <2>4. StagedSafe
    BY <2>2 DEF StagedSafe, SendsWithinStage, ActsOnThisObservation, StagesEarned,
                WritesWhileConnected, In
  <2>5. process \in [phase : Phases, stage : Stages, steps : Nat \ {0}, step : Nat]
    BY <2>2 DEF Phases, Stages
  <2> QED BY <2>2, <2>3, <2>4, <2>5 DEF StagedInvariant, Before, Stepping, In, Ages
<1> QED BY <1>1, <1>2, <1>3, <1>4 DEF ThreadsInvariant

\* A step is one of one part; the others stay as they are.
LEMMA ThreadsStepKeeps == ThreadsInvariant /\ [ThreadsNext]_partVars => ThreadsInvariant'
<1> SUFFICES ASSUME ThreadsInvariant, [ThreadsNext]_partVars PROVE ThreadsInvariant'
  OBVIOUS
<1> USE DEF ThreadsInvariant
<1>0. \/ Ticks \/ CamerasStep \/ MonitorStep \/ SequentialStep \/ BufferStep \/ StagedStep \/ ServerStep
      \/ UNCHANGED partVars
  BY DEF ThreadsNext
<1>1. TickInvariant'
  <2>1. TicksNext \/ UNCHANGED tickVars
    BY <1>0 DEF Ticks, CamerasStep, MonitorStep, SequentialStep, BufferStep, StagedStep, ServerStep, partVars
  <2>2. CASE UNCHANGED tickVars
    BY <2>2 DEF tickVars, TickInvariant, TickTypeOK, DeadlineNear, WindowBehind
  <2> QED BY <2>1, <2>2, TickStepKeeps
<1>2. MonitorInvariant'
  <2>1. MonitorNext \/ UNCHANGED monitorVars
    BY <1>0 DEF Ticks, CamerasStep, MonitorStep, SequentialStep, BufferStep, StagedStep, ServerStep, partVars
  <2>2. CASE UNCHANGED monitorVars
    BY <2>2 DEF monitorVars, MonitorInvariant, MonitorTypeOK, Watching, ChunkEndIsNormal
  <2> QED BY <2>1, <2>2, MonitorStepKeeps
<1>3. CycleInvariant'
  <2>1. SeqNext \/ UNCHANGED seqVars
    BY <1>0 DEF Ticks, CamerasStep, MonitorStep, SequentialStep, BufferStep, StagedStep, ServerStep, partVars
  <2>2. CASE UNCHANGED seqVars
    BY <2>2 DEF seqVars, CycleInvariant, SeqTypeOK, OthersWereGivenUp, ReturnsForCtrlCOnly, Executing,
                Arm, LoopAlive
  <2> QED BY <2>1, <2>2, CycleStepKeeps
<1>4. StagedInvariant'
  <2>1. StagedNext \/ UNCHANGED stagedVars
    BY <1>0 DEF Ticks, CamerasStep, MonitorStep, SequentialStep, BufferStep, StagedStep, ServerStep, partVars
  <2>2. CASE UNCHANGED stagedVars
    BY <2>2 DEF stagedVars, StagedInvariant, StagedTypeOK, StagedSafe, SendsWithinStage,
                AllNow, ActsOnThisObservation, StagesEarned, WritesWhileConnected, In
  <2> QED BY <2>1, <2>2, StagedStepKeeps
<1> QED BY <1>1, <1>2, <1>3, <1>4

\* Every part keeps its invariant in every behaviour.
THEOREM ThreadsCorrect == ThreadsSpec => []ThreadsInvariant
BY ThreadsInitialised, ThreadsStepKeeps, PTL DEF ThreadsSpec

\* The state of the parts stays in its range: the deadline and its clock, the counters of the monitor below their limits, the cycle and the
\* return, the phase of the staged test and the policy's queue.
THEOREM ThreadsTyped == ThreadsSpec => []ThreadsTypeOK
<1>1. ThreadsInvariant => ThreadsTypeOK
  BY DEF ThreadsInvariant, ThreadsTypeOK, TickInvariant, MonitorInvariant,
         CycleInvariant, StagedInvariant
<1> QED BY <1>1, ThreadsCorrect, PTL

\* However late a tick is, the ticks that are counted from any moment on are no more
\* than the time allows, and the loop never sleeps past its next deadline
\* (_run_loop and its resync in RealtimeControlLoop).
THEOREM TicksKeepPace == ThreadsSpec => []PaceKept
<1>1. ThreadsInvariant => PaceKept
  BY TickInvariantPaces DEF ThreadsInvariant
<1> QED BY <1>1, ThreadsCorrect, PTL

\* Whatever ticks and inferences come between two polls, a session that wrote
\* nothing, that is unproductive or has one fault is watched for no longer than its
\* limit, and a chunk that was executed to its end is a normal end
\* (_run_monitor_loop).
THEOREM MonitorIsJust == ThreadsSpec => []MonitorJudges
<1>1. ThreadsInvariant => MonitorJudges
  BY MonitorInvariantJudges DEF ThreadsInvariant
<1> QED BY <1>1, ThreadsCorrect, PTL

\* For any number of cycles and wherever Ctrl-C comes: a loop that can still write
\* beside the one of the current cycle is one whose stop() timed out, the return
\* reads and writes only when the last loop was told to stop, and it is begun after
\* Ctrl-C only and at most twice (SequentialChunksOrchestrator.run,
\* execute_return_to_start).  That two loops never overlap is not so.
THEOREM OtherLoopsWereGivenUp == ThreadsSpec => []CyclesInOrder
<1>1. ThreadsInvariant => CyclesInOrder
  BY DEF ThreadsInvariant, CycleInvariant, CyclesInOrder
<1> QED BY <1>1, ThreadsCorrect, PTL

\* However long the policy's inferences and the stages are, wherever a run fails or
\* is interrupted and whatever the server executes late, a run sends no more than
\* its stage allows, had the stage before earned, releases the motors it moved
\* before it closes anything, and acts on what it has just observed, unless a
\* prediction of an earlier step was still to be executed at its reset
\* (StagedRealRolloutRunner, StagedFollowerActionWriter, VLAHttpClient._request).
THEOREM StagesAreSafe == ThreadsSpec => []StagedSafe
<1>1. ThreadsInvariant => StagedSafe
  BY DEF ThreadsInvariant, StagedInvariant
<1> QED BY <1>1, ThreadsCorrect, PTL
=============================================================================
