-------------------------- MODULE MotorWritersProofs --------------------------
(***************************************************************************)
(* What is proved of the ways a command reaches the motors, for every      *)
(* value of the constants: the armed test of one joint, the targets of the *)
(* realtime control, and the policy server with its clients.  Each part    *)
(* has an inductive invariant of its own, kept by the steps of its module; *)
(* the theorems put them together for the specification that is            *)
(* model-checked.                                                          *)
(***************************************************************************)
EXTENDS MotorWriters, FiniteSetTheorems, TLAPS

(***************************************************************************)
(* The armed test of one joint.                                            *)
(***************************************************************************)
JointRun ==
  [phase : {"idle", "connect", "raw", "degrees", "write", "readback", "leave"},
   mode : {"armed", "acceleration"}, direction : Directions,
   raw : Ticks, target : Ticks, budget : 0 .. 1, still : BOOLEAN, moved : Int,
   verdict : {"none", "BLOCKED", "WRITE_FAILED", "READBACK_FAILED", "READBACK_MISMATCH",
              "NO_MOTION", "DIRECTION_MISMATCH", "OVERSHOOT", "PASS"}]

JointShape ==
  /\ run \in [Runs -> JointRun]
  /\ position \in Ticks /\ goal \in Ticks
  /\ engaged \in BOOLEAN /\ acceleration \in BOOLEAN

\* The target that is written and read back is on the side of the start that
\* was asked for, if the joint was still while the start was read: then the
\* ticks and the angle are of one position.
AskedSide(record) ==
  record.phase \in {"write", "readback"} =>
    /\ record.target # record.raw
    /\ record.still => (record.target > record.raw <=> record.direction = "positive")

NearExpected(record) == record.phase = "write" => Away(record.target, Expected) <= 4

PassMoved(record) ==
  record.verdict = "PASS" /\ record.still =>
    /\ (record.moved > 0) = (record.direction = "positive")
    /\ Away(record.moved, 0) <= 4

PlannedFromOneRead(record) == record.phase = "degrees" /\ record.still => position = record.raw

\* The verdict is the last thing a run does.
VerdictIsLast(record) == record.verdict # "none" => record.phase = "leave"

ArmedWell(record) ==
  /\ VerdictIsLast(record)
  /\ record.mode = "armed" =>
       AskedSide(record) /\ NearExpected(record) /\ PassMoved(record) /\ PlannedFromOneRead(record)

JointInvariant == JointShape /\ \A r \in Runs : ArmedWell(run[r])

\* Ticks of the encoder are natural numbers.
LEMMA TicksAreNaturals ==
  /\ Resolution \in Nat /\ RangeMin \in Nat /\ RangeMax \in Nat /\ Expected \in Nat
  /\ Margin \in Nat /\ Ticks \subseteq Nat /\ 0 \in Ticks /\ \A t \in Ticks : t \in Int
BY JointAssumption DEF Ticks

\* The plan of the single step (single_joint_test_planner.py): from the angle of
\* one position int() truncates to a tick on the side asked for, at most two away.
LEMMA PlanFollowsDirection ==
  ASSUME NEW raw \in Ticks, NEW direction \in Directions,
         PlanPasses(raw, RawToDegrees(raw), direction)
  PROVE  LET target == DegreesToRaw(Target(RawToDegrees(raw), direction))
         IN  target > raw <=> direction = "positive"
<1> DEFINE half == (Unit * (RangeMin + RangeMax)) \div 2
           degrees == RawToDegrees(raw)
<1>1. half \in Int /\ raw \in Nat /\ degrees \in Int /\ degrees + half = 80 * raw
  BY TicksAreNaturals DEF RawToDegrees, Unit
<1>2. CASE direction = "positive"
  <2>1. Target(degrees, direction) + half = 80 * raw + 91
    BY <1>1, <1>2 DEF Target, Step
  <2>2. DegreesToRaw(Target(degrees, direction)) = (80 * raw + 91) \div 80
    BY <1>1, <2>1 DEF DegreesToRaw, Unit
  <2>3. (80 * raw + 91) \div 80 = raw + 1
    BY <1>1
  <2> QED BY <1>1, <1>2, <2>2, <2>3
<1>3. CASE direction = "negative"
  <2>1. Target(degrees, direction) + half = 80 * raw - 91
    BY <1>1, <1>3 DEF Target, Step
  <2>2. DegreesToRaw(Target(degrees, direction)) =
          IF 80 * raw - 91 >= 0 THEN (80 * raw - 91) \div 80 ELSE -((91 - 80 * raw) \div 80)
    <3>1. -(80 * raw - 91) = 91 - 80 * raw
      BY <1>1
    <3> QED BY <1>1, <2>1, <3>1 DEF DegreesToRaw, Unit
  <2>3. /\ DegreesToRaw(Target(degrees, direction)) \in Int
        /\ DegreesToRaw(Target(degrees, direction)) <= raw
    <3>1. CASE raw = 0 \/ raw = 1
      BY <2>2, <3>1
    <3>2. CASE raw >= 2
      <4>1. 80 * raw - 91 >= 0 /\ (80 * raw - 91) \div 80 = raw - 2
        BY <1>1, <3>2
      <4> QED BY <1>1, <2>2, <4>1
    <3> QED BY <1>1, <3>1, <3>2
  <2> QED BY <1>3, <2>3, <1>1
<1> QED BY <1>2, <1>3 DEF Directions

\* What a plan that passes says of its target: it is a tick, close to the start
\* that was read and to the one the operator confirmed.
LEMMA PlanIsNear ==
  ASSUME NEW raw \in Ticks, NEW degrees, NEW direction \in Directions,
         ExpectedStart(raw), PlanPasses(raw, degrees, direction)
  PROVE  LET target == DegreesToRaw(Target(degrees, direction))
         IN  target \in Ticks /\ target # raw /\ Away(target, Expected) <= 4
<1> DEFINE target == DegreesToRaw(Target(degrees, direction))
<1>1. target \in Ticks /\ Away(target, raw) \in 1 .. 2 /\ Away(raw, Expected) <= 2
  BY DEF PlanPasses, ExpectedStart
<1> HIDE DEF target
<1>2. target \in Nat /\ raw \in Nat /\ Expected \in Nat
  BY <1>1, TicksAreNaturals
<1> QED BY <1>1, <1>2 DEF target, Away

\* classify_readback says PASS only of a motion of at most four ticks on the
\* side of the command.
LEMMA PassIsOnCommandedSide ==
  ASSUME NEW wanted \in Int, NEW actual \in Int, wanted # 0, Readback(wanted, actual) = "PASS"
  PROVE  (actual > 0 <=> wanted > 0) /\ Away(actual, 0) <= 4
BY DEF Readback, Away

\* A step that gives one terminal a record of the right kind keeps the rest.
LEMMA OneRunSet ==
  ASSUME JointInvariant, NEW r \in Runs, NEW record \in JointRun, Set(r, record),
         ArmedWell(record), position' = position,
         goal' \in Ticks, engaged' \in BOOLEAN, acceleration' \in BOOLEAN
  PROVE  JointInvariant'
<1>1. run' \in [Runs -> JointRun]
  BY DEF JointInvariant, JointShape, Set
<1>2. ASSUME NEW other \in Runs PROVE ArmedWell(run[other])'
  <2>1. run'[other] = run[other] \/ run'[other] = record
    BY DEF JointInvariant, JointShape, Set
  <2>2. ArmedWell(run'[other])
    BY <2>1 DEF JointInvariant
  <2> QED BY <2>2 DEF ArmedWell, AskedSide, NearExpected, PassMoved, PlannedFromOneRead, VerdictIsLast
<1> QED BY <1>1, <1>2 DEF JointInvariant, JointShape

\* Every step of a terminal keeps the invariant.
LEMMA ScriptStepKeeps ==
  ASSUME JointInvariant, NEW r \in Runs, ScriptStep(r)
  PROVE  JointInvariant'
<1> DEFINE old == run[r]
<1>1. /\ old \in JointRun /\ ArmedWell(old) /\ position \in Ticks /\ goal \in Ticks
      /\ engaged \in BOOLEAN /\ acceleration \in BOOLEAN /\ 0 \in Ticks /\ 0 \in Int
  BY TicksAreNaturals DEF JointInvariant, JointShape
<1>2. NotStarted(old.mode) \in JointRun /\ ArmedWell(NotStarted(old.mode))
  BY <1>1 DEF NotStarted, JointRun, Directions, ArmedWell, AskedSide, NearExpected, PassMoved,
     PlannedFromOneRead, VerdictIsLast
<1>3. ASSUME Blocks(r), UNCHANGED motor PROVE JointInvariant'
  <2> DEFINE start == NotStarted(old.mode)
             new == [start EXCEPT !.phase = "leave", !.verdict = "BLOCKED"]
  <2>1. start \in JointRun /\ Set(r, new)
    BY <1>2, <1>3 DEF Blocks
  <2> HIDE DEF start
  <2>2. new \in JointRun /\ ArmedWell(new)
    BY <2>1 DEF JointRun, ArmedWell, AskedSide, NearExpected, PassMoved,
       PlannedFromOneRead, VerdictIsLast
  <2> QED BY <1>1, <1>3, <2>1, <2>2, OneRunSet DEF motor
<1>4. CASE PortChecked(r)
  <2>1. PICK direction \in Directions : Set(r, [old EXCEPT !.phase = "connect", !.direction = direction])
    BY <1>4 DEF PortChecked, Directions
  <2> DEFINE new == [old EXCEPT !.phase = "connect", !.direction = direction]
  <2>2. At(r, "idle") /\ UNCHANGED motor
    BY <1>4 DEF PortChecked
  <2>3. new \in JointRun /\ ArmedWell(new)
    BY <1>1, <2>2 DEF At, JointRun, Directions, ArmedWell, AskedSide, NearExpected, PassMoved,
       PlannedFromOneRead, VerdictIsLast
  <2> QED BY <1>1, <2>1, <2>2, <2>3, OneRunSet DEF motor
<1>5. CASE Connects(r)
  <2> DEFINE new == [old EXCEPT !.phase = "raw"]
  <2>1. At(r, "connect") /\ UNCHANGED motor /\ (Set(r, new) \/ Set(r, NotStarted(old.mode)))
    BY <1>5 DEF Connects
  <2>2. new \in JointRun /\ ArmedWell(new)
    BY <1>1, <2>1 DEF At, JointRun, ArmedWell, AskedSide, NearExpected, PassMoved,
       PlannedFromOneRead, VerdictIsLast
  <2> QED BY <1>1, <1>2, <2>1, <2>2, OneRunSet DEF motor
<1>6. CASE ReadsRaw(r)
  <2> DEFINE new == [old EXCEPT !.phase = "degrees", !.raw = position]
  <2>1. At(r, "raw") /\ UNCHANGED motor /\ (Set(r, new) \/ Blocks(r))
    BY <1>6 DEF ReadsRaw
  <2>2. new \in JointRun /\ ArmedWell(new)
    BY <1>1, <2>1 DEF At, JointRun, ArmedWell, AskedSide, NearExpected, PassMoved,
       PlannedFromOneRead, VerdictIsLast
  <2> QED BY <1>1, <1>3, <2>1, <2>2, OneRunSet DEF motor
<1>7. CASE Plans(r)
  <2> DEFINE degrees == RawToDegrees(position)
             target == DegreesToRaw(Target(degrees, old.direction))
             new == [old EXCEPT !.phase = "write", !.target = target]
  <2>1. CASE Blocks(r)
    BY <1>3, <1>7, <2>1 DEF Plans
  <2>2. CASE ~Blocks(r)
    <3>1. /\ At(r, "degrees") /\ UNCHANGED motor /\ Set(r, new)
          /\ ExpectedStart(old.raw) /\ PlanPasses(old.raw, degrees, old.direction)
      BY <1>7, <2>2 DEF Plans
    <3>2. old.direction \in Directions /\ old.raw \in Ticks
      BY <1>1 DEF JointRun
    <3>3. target \in Ticks /\ target # old.raw /\ Away(target, Expected) <= 4
      BY <3>1, <3>2, PlanIsNear
    <3>4. old.mode = "armed" /\ old.still => (target > old.raw <=> old.direction = "positive")
      <4> SUFFICES ASSUME old.mode = "armed", old.still
                   PROVE  target > old.raw <=> old.direction = "positive"
        OBVIOUS
      <4>1. position = old.raw
        BY <1>1, <3>1 DEF ArmedWell, PlannedFromOneRead, At
      <4> QED BY <3>1, <3>2, <4>1, PlanFollowsDirection
    <3> HIDE DEF target
    <3>5. new \in JointRun /\ ArmedWell(new)
      BY <1>1, <3>1, <3>3, <3>4 DEF At, JointRun, ArmedWell, AskedSide, NearExpected, PassMoved,
         PlannedFromOneRead, VerdictIsLast
    <3> QED BY <1>1, <3>1, <3>5, OneRunSet DEF motor
  <2> QED BY <2>1, <2>2
<1>8. ASSUME At(r, "write"), BudgetLeft(r)
      PROVE  LET spent == Spent(r, "readback")
                 failed == [Spent(r, "leave") EXCEPT !.verdict = "WRITE_FAILED", !.raw = 0, !.target = 0]
             IN  /\ spent \in JointRun /\ ArmedWell(spent)
                 /\ failed \in JointRun /\ ArmedWell(failed)
  <2>1. old.budget + 1 \in 0 .. 1
    BY <1>1, <1>8 DEF BudgetLeft, JointRun
  <2> QED BY <1>1, <1>8, <2>1 DEF Spent, At, JointRun, ArmedWell, AskedSide, NearExpected,
             PassMoved, PlannedFromOneRead, VerdictIsLast
<1>9. CASE Commands(r)
  <2>1. old.target \in Ticks
    BY <1>1 DEF JointRun
  <2> QED BY <1>1, <1>8, <1>9, <2>1, OneRunSet DEF Commands, WriteFailed
<1>10. CASE WritesAcceleration(r)
  BY <1>1, <1>8, <1>10, OneRunSet DEF WritesAcceleration, WriteFailed
<1>11. ASSUME NEW verdict \in {"READBACK_FAILED", "READBACK_MISMATCH", "NO_MOTION",
                               "DIRECTION_MISMATCH", "OVERSHOOT", "PASS"},
              NEW moved \in Int, Ends(r, verdict, moved), UNCHANGED motor,
              verdict = "PASS" /\ old.mode = "armed" =>
                /\ old.still => (moved > 0 <=> old.direction = "positive")
                /\ Away(moved, 0) <= 4
       PROVE  JointInvariant'
  <2> DEFINE new == [old EXCEPT !.phase = "leave", !.verdict = verdict, !.moved = moved,
                                !.raw = 0, !.target = 0]
  <2>1. new \in JointRun
    BY <1>1, <1>11 DEF JointRun
  <2>2. /\ new.phase = "leave" /\ new.mode = old.mode /\ new.still = old.still
        /\ new.direction = old.direction /\ new.verdict = verdict /\ new.moved = moved
    BY <1>1 DEF JointRun
  <2>3. Set(r, new)
    BY <1>11 DEF Ends
  <2> HIDE DEF new
  <2>4. ArmedWell(new)
    BY <1>11, <2>2 DEF ArmedWell, AskedSide, NearExpected, PassMoved, PlannedFromOneRead,
       VerdictIsLast
  <2> QED BY <1>1, <1>11, <2>1, <2>3, <2>4, OneRunSet DEF motor
<1>12. CASE ReadsBack(r)
  <2> DEFINE moved == position - old.raw
             wanted == old.target - old.raw
  <2>1. /\ At(r, "readback") /\ old.mode = "armed" /\ UNCHANGED motor
        /\ Ends(r, Readback(wanted, moved), moved) \/ Ends(r, "READBACK_FAILED", 0)
    BY <1>12 DEF ReadsBack
  <2>2. /\ old.raw \in Int /\ old.target \in Int /\ position \in Int
        /\ moved \in Int /\ wanted \in Int
    <3>1. old.raw \in Ticks /\ old.target \in Ticks /\ position \in Ticks
      BY <1>1 DEF JointRun
    <3>2. old.raw \in Int /\ old.target \in Int /\ position \in Int
      BY <3>1, TicksAreNaturals
    <3> QED BY <3>2
  <2>3. wanted # 0 /\ (old.still => (wanted > 0 <=> old.direction = "positive"))
    BY <1>1, <2>1, <2>2 DEF At, ArmedWell, AskedSide
  <2> HIDE DEF moved, wanted
  <2>4. Readback(wanted, moved) \in {"NO_MOTION", "DIRECTION_MISMATCH", "OVERSHOOT", "PASS"}
    BY DEF Readback
  <2>5. Readback(wanted, moved) = "PASS" =>
          (moved > 0 <=> wanted > 0) /\ Away(moved, 0) <= 4
    BY <2>2, <2>3, PassIsOnCommandedSide
  <2> QED BY <1>1, <1>11, <2>1, <2>2, <2>3, <2>4, <2>5
<1>13. CASE ReadsAcceleration(r)
  <2> DEFINE new == [old EXCEPT !.phase = "write"]
  <2>1. old.mode = "acceleration" /\ UNCHANGED motor /\ (Set(r, new) \/ Blocks(r)) /\ At(r, "raw")
    BY <1>13 DEF ReadsAcceleration
  <2>2. new \in JointRun /\ ArmedWell(new)
    BY <1>1, <2>1 DEF At, JointRun, ArmedWell, AskedSide, NearExpected, PassMoved,
       PlannedFromOneRead, VerdictIsLast
  <2> QED BY <1>1, <1>3, <2>1, <2>2, OneRunSet DEF motor
<1>14. CASE ReadsAccelerationBack(r)
  <2>1. old.mode = "acceleration" /\ UNCHANGED motor
        /\ \/ Ends(r, "READBACK_MISMATCH", 0) \/ Ends(r, "PASS", 0) \/ Ends(r, "READBACK_FAILED", 0)
    BY <1>14 DEF ReadsAccelerationBack
  <2> QED BY <1>1, <1>11, <2>1
<1>15. CASE Leaves(r)
  BY <1>1, <1>2, <1>15, OneRunSet DEF Leaves, motor
<1> QED BY <1>4, <1>5, <1>6, <1>7, <1>9, <1>10, <1>12, <1>13, <1>14, <1>15 DEF ScriptStep

\* The joint moves by a tick, and a run between its two reads notices nothing.
LEMMA JointMovesKeeps ==
  ASSUME JointInvariant, JointMoves
  PROVE  JointInvariant'
<1>1. position' \in Ticks
  <2>1. position \in Ticks /\ goal \in Ticks
    BY DEF JointInvariant, JointShape
  <2> QED BY <2>1, TicksAreNaturals DEF JointMoves, Ticks
<1>2. run' \in [Runs -> JointRun]
  <2> SUFFICES ASSUME NEW r \in Runs
               PROVE  [run[r] EXCEPT !.still = @ /\ ~At(r, "degrees")] \in JointRun
    BY DEF JointMoves
  <2>1. run[r] \in JointRun
    BY DEF JointInvariant, JointShape
  <2> QED BY <2>1 DEF JointRun
<1>3. ASSUME NEW r \in Runs PROVE ArmedWell(run[r])'
  <2>1. run[r] \in JointRun /\ ArmedWell(run[r])
    BY DEF JointInvariant, JointShape
  <2>2. run'[r] = [run[r] EXCEPT !.still = @ /\ ~At(r, "degrees")]
    BY DEF JointMoves
  <2>3. /\ run'[r].phase = run[r].phase /\ run'[r].mode = run[r].mode
        /\ run'[r].direction = run[r].direction /\ run'[r].raw = run[r].raw
        /\ run'[r].target = run[r].target /\ run'[r].moved = run[r].moved
        /\ run'[r].verdict = run[r].verdict
        /\ run'[r].still => run[r].still /\ run[r].phase # "degrees"
    BY <2>1, <2>2 DEF JointRun, At
  <2> QED BY <2>1, <2>3 DEF ArmedWell, AskedSide, NearExpected, PassMoved, PlannedFromOneRead,
             VerdictIsLast
<1> QED BY <1>1, <1>2, <1>3 DEF JointInvariant, JointShape, JointMoves

\* The initial states, and steps of the other parts.
LEMMA JointInitKeeps == JointInit => JointInvariant
<1> SUFFICES ASSUME JointInit PROVE JointInvariant
  OBVIOUS
<1>1. PICK mode \in {"armed", "acceleration"} : run = [r \in Runs |-> NotStarted(mode)]
  BY DEF JointInit
<1>2. NotStarted(mode) \in JointRun /\ ArmedWell(NotStarted(mode))
  BY TicksAreNaturals DEF NotStarted, JointRun, Directions, ArmedWell, AskedSide, NearExpected,
     PassMoved, PlannedFromOneRead, VerdictIsLast
<1> QED BY <1>1, <1>2 DEF JointInit, JointInvariant, JointShape

\* A step of the test, or of another part.
LEMMA JointStepKeeps ==
  ASSUME JointInvariant, [JointNext]_jointVars
  PROVE  JointInvariant'
<1>1. CASE UNCHANGED jointVars
  BY <1>1 DEF jointVars, JointInvariant, JointShape, ArmedWell, AskedSide, NearExpected,
     PassMoved, PlannedFromOneRead, VerdictIsLast
<1> QED BY <1>1, ScriptStepKeeps, JointMovesKeeps DEF JointNext

-----------------------------------------------------------------------------
(***************************************************************************)
(* The targets of the realtime control.                                    *)
(***************************************************************************)
TargetShape ==
  /\ guard = NoGuard \/ guard \in GuardMemory
  /\ sinceTick \in {NoTick} \cup 0 .. MaxGap
  /\ guard.present <=> sinceTick # NoTick
  /\ accepted = intent
  /\ intent = NoIntent \/ (intent.present = TRUE /\ intent.raw \in Int)
  /\ out.outcome \in {"none", "no_target", "intent", "guard", "safety", "valid"}

TargetInvariant == TargetShape /\ TargetWithinReach

\* The constants as the arithmetic below needs them.
LEMMA TargetConstants ==
  /\ Lead \in Nat /\ 1 <= Lead /\ Velocity \in Nat /\ Acceleration \in Nat /\ Jerk \in Nat
  /\ Full \in Nat /\ 1 <= Full
  /\ Recovery \in Nat /\ NoResponseTimeout \in Nat /\ OppositeTimeout \in Nat
  /\ 1 <= NoResponseTimeout /\ 1 <= OppositeTimeout
  /\ TickPeriod \in Nat /\ 1 <= TickPeriod /\ MaxGap \in Nat /\ JumpLimit \in Nat
  /\ RangeLow \in Int /\ RangeHigh \in Int /\ RangeLow <= RangeHigh
BY TargetAssumption

\* At a bounded velocity the way is bounded by the time.
LEMMA WayIsBounded ==
  ASSUME NEW v \in -Velocity .. Velocity, NEW dt \in Nat
  PROVE  v * dt \in Int /\ Velocity * dt \in Nat /\ Abs(v * dt) <= Velocity * dt
<1>1. v \in Int /\ Velocity \in Nat /\ -Velocity <= v /\ v <= Velocity
  BY TargetConstants
<1>2. (Velocity - v) * dt >= 0 /\ (Velocity + v) * dt >= 0
  <2>1. \A a, b \in Nat : a * b >= 0
    OBVIOUS
  <2>2. Velocity - v \in Nat /\ Velocity + v \in Nat
    BY <1>1
  <2> QED BY <2>1, <2>2
<1>3. /\ (Velocity - v) * dt = Velocity * dt - v * dt
      /\ (Velocity + v) * dt = Velocity * dt + v * dt
  BY <1>1
<1>4. v * dt \in Int /\ Velocity * dt \in Nat
  BY <1>1
<1> QED BY <1>2, <1>3, <1>4 DEF Abs

\* Slowing down is immediate and recovery gradual: the phase stays a phase.
LEMMA NextPhaseIsPhase ==
  ASSUME NEW previous \in 0 .. Full, NEW scale \in 0 .. Full, NEW dt \in Nat
  PROVE  NextPhase(previous, scale, dt) \in 0 .. Full
<1>1. Recovery * dt \in Nat /\ previous \in Nat /\ scale \in Nat /\ scale <= Full /\ Full \in Nat
  BY TargetConstants
<1> QED BY <1>1 DEF NextPhase

\* A number clamped around another is no farther from it than the clamp allows,
\* and no farther than it was.
LEMMA ClampedAround ==
  ASSUME NEW x \in Int, NEW c \in Int, NEW d \in Nat
  PROVE  /\ Within(x, c - d, c + d) \in Int
         /\ Abs(Within(x, c - d, c + d) - c) <= d
         /\ Abs(Within(x, c - d, c + d) - c) <= Abs(x - c)
BY DEF Within, Abs

\* Clamped to the range a target is in it, and is no farther from the encoder
\* than it was, unless the encoder itself is outside.
LEMMA ClampedToRange ==
  ASSUME NEW x \in Int, NEW c \in Int, NEW d \in Nat, Abs(x - c) <= d
  PROVE  /\ Within(x, RangeLow, RangeHigh) \in RangeLow .. RangeHigh
         /\ \/ Abs(Within(x, RangeLow, RangeHigh) - c) <= d
            \/ Within(x, RangeLow, RangeHigh) = Within(c, RangeLow, RangeHigh)
BY TargetConstants DEF Within, Abs

\* The watch of the blocking joints: whatever it counts as moved the wrong way it
\* counts as no response as well.
LEMMA WatchCounts ==
  ASSUME NEW g \in GuardMemory, NEW actual \in [Joints -> Int], NEW wanted, NEW dt \in Nat,
         g.opposite <= g.noResponse
  PROVE  LET w == Watched(g, actual, wanted, dt)
         IN  /\ w.anchor \in [Joints -> Int] /\ w.noResponse \in Nat /\ w.opposite \in Nat
             /\ w.opposite <= w.noResponse
<1>1. g.anchor \in [Joints -> Int] /\ g.noResponse \in Nat /\ g.opposite \in Nat
  BY TargetConstants DEF GuardMemory
<1>2. CASE Blocking(g, actual, wanted) = {}
  BY <1>1, <1>2 DEF Watched
<1>3. CASE Blocking(g, actual, wanted) # {} /\ Response(g, actual, wanted) >= Threshold
  BY <1>1, <1>3 DEF Watched
<1>4. CASE Blocking(g, actual, wanted) # {} /\ ~(Response(g, actual, wanted) >= Threshold)
  <2>1. Watched(g, actual, wanted, dt) =
          [anchor |-> g.anchor, noResponse |-> g.noResponse + dt,
           opposite |-> IF Response(g, actual, wanted) < 0 THEN g.opposite + dt ELSE 0]
    BY <1>4 DEF Watched
  <2> QED BY <1>1, <2>1
<1> QED BY <1>2, <1>3, <1>4

\* What a feasible velocity may do to the lead: the command ends within it, or it
\* turns back at least as hard as one of the dynamic limits allows.
LEMMA FeasibleIsLed ==
  ASSUME NEW g \in GuardMemory, NEW actual \in [Joints -> Int], NEW wanted, NEW phase,
         NEW j \in Joints, NEW v \in Int, NEW dt \in Nat, Feasible(g, actual, wanted, v, phase, dt, j)
  PROVE  LET lag == Lag(g, actual, j) + v * dt
         IN  Abs(lag) > Lead => \E room \in DynamicRoom(g, v, dt, j, Sign(-lag)) : room <= 0
<1> DEFINE lag == Lag(g, actual, j) + v * dt
           dynamic(side) == DynamicRoom(g, v, dt, j, side)
<1>1. lag \in Int /\ Lead \in Nat /\ Lead - (-1) * lag = Lead + lag /\ Lead - 1 * lag = Lead - lag
  <2>1. g.positions[j] \in Int /\ actual[j] \in Int /\ v * dt \in Int /\ Lead \in Nat
    BY TargetConstants DEF GuardMemory
  <2>2. lag \in Int
    BY <2>1 DEF Lag
  <2> HIDE DEF lag
  <2> QED BY <2>1, <2>2
<1>2. /\ Room(g, actual, v, dt, j, -1) = dynamic(-1) \cup {Lead - (-1) * lag}
      /\ Room(g, actual, v, dt, j, 1) = dynamic(1) \cup {Lead - 1 * lag}
  BY DEF Room
<1>3. \/ /\ \A room \in Room(g, actual, v, dt, j, -1) : room >= 0
         /\ \A room \in Room(g, actual, v, dt, j, 1) : room >= 0
      \/ /\ \E room \in Room(g, actual, v, dt, j, -1) : room <= 0
         /\ \E room \in Room(g, actual, v, dt, j, 1) : room <= 0
  BY DEF Feasible
<1> HIDE DEF lag, dynamic
<1>4. \/ Lead + lag >= 0 /\ Lead - lag >= 0
      \/ /\ Lead + lag <= 0 \/ \E room \in dynamic(-1) : room <= 0
         /\ Lead - lag <= 0 \/ \E room \in dynamic(1) : room <= 0
  BY <1>1, <1>2, <1>3
<1>5. ASSUME Abs(lag) > Lead PROVE \E room \in dynamic(Sign(-lag)) : room <= 0
  <2>1. CASE lag > 0
    <3>1. Sign(-lag) = -1 /\ Lead - lag < 0 /\ Lead + lag > 0
      BY <1>1, <1>5, <2>1 DEF Abs, Sign
    <3> QED BY <1>1, <1>4, <3>1
  <2>2. CASE ~(lag > 0)
    <3>1. lag < -Lead
      BY <1>1, <1>5, <2>2 DEF Abs
    <3>2. Lead + lag < 0 /\ Lead - lag > 0
      BY <1>1, <3>1
    <3>3. \E room \in dynamic(1) : room <= 0
      BY <1>1, <1>4, <3>2
    <3>4. Sign(-lag) = 1
      BY <1>1, <3>1, TargetConstants DEF Sign
    <3> QED BY <3>3, <3>4
  <2> QED BY <2>1, <2>2
<1> QED BY <1>5 DEF lag, dynamic

\* From the encoders, at rest, no feasible velocity is beyond the limit: nothing
\* makes the bounds of an interval cross.
LEMMA FeasibleFromRest ==
  ASSUME NEW g \in GuardMemory, NEW actual \in [Joints -> Int], NEW wanted, NEW phase,
         NEW j \in Joints, NEW v \in Int, NEW dt \in Nat \ {0},
         g.positions = actual, g.velocities[j] = 0, g.change[j] = 0,
         Feasible(g, actual, wanted, v, phase, dt, j)
  PROVE  v \in -Velocity .. Velocity
<1>1. /\ Lead \in Nat /\ 1 <= Lead /\ Velocity \in Nat /\ Acceleration * dt \in Nat
      /\ (Jerk * dt * g.over) * dt \in Nat /\ g.over \in Nat \ {0} /\ actual[j] \in Int
  BY TargetConstants DEF GuardMemory
<1>2. Lag(g, actual, j) = 0
  BY <1>1 DEF Lag
<1>3. /\ Room(g, actual, v, dt, j, 1) =
            {Velocity - v, Acceleration * dt - v, (Jerk * dt * g.over) * dt - v * g.over, Lead - v * dt}
      /\ Room(g, actual, v, dt, j, -1) =
            {Velocity + v, Acceleration * dt + v, (Jerk * dt * g.over) * dt + v * g.over, Lead + v * dt}
  <2>1. \A side \in {-1, 1} : side * (v - 0) = side * v /\ side * 0 = 0 /\ side * (0 + v * dt) = side * (v * dt)
    BY <1>1
  <2>2. /\ 1 * v = v /\ (-1) * v = -v /\ 1 * (v * dt) = v * dt /\ (-1) * (v * dt) = -(v * dt)
        /\ v * g.over \in Int /\ (-v) * g.over = -(v * g.over) /\ v * dt \in Int
    BY <1>1
  <2>3. \A side \in {-1, 1} :
          Room(g, actual, v, dt, j, side) =
            {Velocity - side * v, Acceleration * dt - side * v,
             (0 + Jerk * dt * g.over) * dt - (side * v) * g.over, Lead - side * (v * dt)}
    BY <1>2, <2>1 DEF Room, DynamicRoom
  <2>4. Jerk * dt * g.over \in Int
    BY <1>1, TargetConstants
  <2>5. (0 + Jerk * dt * g.over) * dt = (Jerk * dt * g.over) * dt
    BY <2>4
  <2> HIDE DEF Room
  <2> QED BY <1>1, <2>2, <2>3, <2>5
<1> DEFINE a == Acceleration * dt
           b == (Jerk * dt * g.over) * dt
<1>4. /\ v > 0 => v * g.over > 0 /\ v * dt > 0
      /\ v < 0 => v * g.over < 0 /\ v * dt < 0
  <2>1. \A x, y \in Nat \ {0} : x * y > 0
    OBVIOUS
  <2>2. v < 0 => -v \in Nat \ {0}
    OBVIOUS
  <2>3. v > 0 => v \in Nat \ {0}
    OBVIOUS
  <2>4. /\ (-v) * g.over = -(v * g.over) /\ (-v) * dt = -(v * dt)
        /\ v * g.over \in Int /\ v * dt \in Int
    BY <1>1
  <2>5. v > 0 => v * g.over > 0 /\ v * dt > 0
    BY <1>1, <2>1, <2>3
  <2>6. v < 0 => (-v) * g.over > 0 /\ (-v) * dt > 0
    BY <1>1, <2>1, <2>2
  <2> QED BY <2>4, <2>5, <2>6
<1>5. a \in Nat /\ b \in Nat /\ v * g.over \in Int /\ v * dt \in Int
  BY <1>1
<1>6. \/ Velocity - v >= 0 /\ Velocity + v >= 0
      \/ /\ Velocity + v <= 0 \/ a + v <= 0 \/ b + v * g.over <= 0 \/ Lead + v * dt <= 0
         /\ Velocity - v <= 0 \/ a - v <= 0 \/ b - v * g.over <= 0 \/ Lead - v * dt <= 0
  BY <1>3 DEF Feasible
<1> HIDE DEF a, b
<1> QED BY <1>1, <1>4, <1>5, <1>6

\* Where a velocity leads to.  On hold that is within the lead of the encoders.
LEMMA AdvancedIsNear ==
  ASSUME NEW g \in GuardMemory, NEW actual \in [Joints -> Int], NEW dt \in Nat,
         NEW v \in [Joints -> Int], NEW phase
  PROVE  LET reached == Advanced(g, actual, v, phase, dt)
         IN  /\ reached \in [Joints -> Int]
             /\ \A j \in Joints :
                  /\ phase = 0 => Abs(reached[j] - actual[j]) <= Lead
                  /\ phase # 0 => reached[j] = g.positions[j] + v[j] * dt
                  /\ g.positions = actual /\ v[j] \in -Velocity .. Velocity =>
                       Abs(reached[j] - actual[j]) <= Velocity * dt
<1> DEFINE reached == Advanced(g, actual, v, phase, dt)
<1>1. ASSUME NEW j \in Joints
      PROVE  /\ reached[j] \in Int
             /\ phase = 0 => Abs(reached[j] - actual[j]) <= Lead
             /\ phase # 0 => reached[j] = g.positions[j] + v[j] * dt
             /\ g.positions = actual /\ v[j] \in -Velocity .. Velocity =>
                  Abs(reached[j] - actual[j]) <= Velocity * dt
  <2>1. /\ g.positions[j] \in Int /\ actual[j] \in Int /\ v[j] * dt \in Int
        /\ Velocity * dt \in Nat /\ Lead \in Nat
    BY TargetConstants DEF GuardMemory
  <2>2. v[j] \in -Velocity .. Velocity => Abs(v[j] * dt) <= Velocity * dt
    BY WayIsBounded
  <2> DEFINE x == g.positions[j] + v[j] * dt
  <2>3. x \in Int /\ (g.positions = actual /\ v[j] \in -Velocity .. Velocity => Abs(x - actual[j]) <= Velocity * dt)
    BY <2>1, <2>2 DEF Abs
  <2>4. CASE phase = 0
    <3>1. reached[j] = Within(x, actual[j] - Lead, actual[j] + Lead)
      BY <2>4 DEF Advanced
    <3>2. /\ reached[j] \in Int /\ Abs(reached[j] - actual[j]) <= Lead
          /\ Abs(reached[j] - actual[j]) <= Abs(x - actual[j])
      BY <2>1, <2>3, <3>1, ClampedAround
    <3> HIDE DEF x, reached
    <3> QED BY <2>1, <2>3, <2>4, <3>2 DEF Abs
  <2>5. CASE phase # 0
    <3>1. reached[j] = x
      BY <2>5 DEF Advanced
    <3> HIDE DEF reached
    <3> QED BY <2>3, <2>5, <3>1
  <2> QED BY <2>4, <2>5
<1>2. reached \in [Joints -> Int]
  BY <1>1 DEF Advanced
<1> QED BY <1>1, <1>2

\* A velocity, a phase and a watch make a memory of the guard.
LEMMA GuardedIsMemory ==
  ASSUME NEW g \in GuardMemory, NEW actual \in [Joints -> Int], NEW w, NEW dt \in Nat \ {0},
         NEW v \in [Joints -> Int], NEW phase \in 0 .. Full,
         w.anchor \in [Joints -> Int], w.noResponse \in 0 .. NoResponseTimeout - 1,
         w.opposite \in 0 .. OppositeTimeout - 1
  PROVE  Guarded(g, actual, w, v, phase, dt) \in GuardMemory
<1>1. Advanced(g, actual, v, phase, dt) \in [Joints -> Int]
  BY AdvancedIsNear
<1>2. [j \in Joints |-> v[j] - g.velocities[j]] \in [Joints -> Int]
  BY DEF GuardMemory
<1> QED BY <1>1, <1>2 DEF GuardMemory, Guarded

\* The velocities the guard may choose, moving or braking.
LEMMA ChosenVelocities ==
  ASSUME NEW g \in GuardMemory, NEW actual \in [Joints -> Int], NEW wanted \in [Joints -> Int],
         NEW phase, NEW dt \in Nat \ {0}
  PROVE  /\ \A v \in Moves(g, actual, wanted, phase, dt) :
              /\ v \in [Joints -> Int]
              /\ \A j \in Joints : Feasible(g, actual, wanted, v[j], phase, dt, j)
         /\ \A v \in Brakes(g, actual, wanted, phase, dt) : v \in [Joints -> -Velocity .. Velocity]
<1>1. ASSUME NEW v \in Moves(g, actual, wanted, phase, dt)
      PROVE  /\ v \in [Joints -> Int]
             /\ \A j \in Joints : Feasible(g, actual, wanted, v[j], phase, dt, j)
  <2>1. /\ v \in [Joints -> UNION {Along(wanted, phase, j) : j \in Joints}]
        /\ \A j \in Joints : v[j] \in Along(wanted, phase, j) /\ Feasible(g, actual, wanted, v[j], phase, dt, j)
    BY DEF Moves
  <2>2. ASSUME NEW j \in Joints PROVE v[j] \in Int
    <3>1. v[j] \in -Abs(wanted[j]) .. Abs(wanted[j]) /\ Abs(wanted[j]) \in Int
      BY <2>1 DEF Along, Abs
    <3> QED BY <3>1
  <2> QED BY <2>1, <2>2
<1>2. \A v \in Brakes(g, actual, wanted, phase, dt) : v \in [Joints -> -Velocity .. Velocity]
  BY DEF Brakes
<1> QED BY <1>1, <1>2

\* One application of the guard (coordinated motion guard): whatever the
\* encoders, the trajectory and the time since the last tick.
LEMMA GuardStateIsNear ==
  ASSUME NEW g \in GuardMemory, NEW actual \in [Joints -> Int], NEW wanted \in [Joints -> Int],
         NEW dt \in Nat, g.opposite <= g.noResponse, NEW h \in GuardStates(g, actual, wanted, dt)
  PROVE  /\ h \in GuardMemory /\ h.opposite <= h.noResponse
         /\ h.phase = 0 => \A j \in Joints : Abs(h.positions[j] - actual[j]) <= Lead
         /\ h.phase # 0 => Turning(g, h, actual)
         /\ g = Bootstrap(actual) => \A j \in Joints : Abs(h.positions[j] - actual[j]) <= Velocity * dt
<1> DEFINE w == Watched(g, actual, wanted, dt)
<1>1. /\ dt \in Nat \ {0} /\ w.anchor \in [Joints -> Int]
      /\ w.noResponse \in 0 .. NoResponseTimeout - 1 /\ w.opposite \in 0 .. OppositeTimeout - 1
      /\ w.opposite <= w.noResponse
  <2>1. ~TimedOut(w) /\ ~(dt <= 0)
    BY DEF GuardStates
  <2>2. /\ w.anchor \in [Joints -> Int] /\ w.noResponse \in Nat /\ w.opposite \in Nat
        /\ w.opposite <= w.noResponse
    BY WatchCounts
  <2> HIDE DEF w
  <2> QED BY <2>1, <2>2, TargetConstants DEF TimedOut
<1>2. PICK s \in LagScales(g, actual, wanted) : h \in AtPhase(g, actual, wanted, NextPhase(g.phase, s, dt), dt)
  BY <1>1 DEF GuardStates
<1> DEFINE p == NextPhase(g.phase, s, dt)
<1>3. p \in 0 .. Full /\ 0 \in 0 .. Full
  <2>1. s \in 0 .. Full /\ g.phase \in 0 .. Full
    BY <1>2, TargetConstants DEF LagScales, GuardMemory
  <2>2. NextPhase(g.phase, s, dt) \in 0 .. Full
    BY <2>1, NextPhaseIsPhase
  <2> QED BY <2>2, TargetConstants
<1>4. PICK v \in [Joints -> Int], phase \in {0, p} :
        /\ h = Guarded(g, actual, w, v, phase, dt)
        /\ \A j \in Joints :
             \/ Feasible(g, actual, wanted, v[j], p, dt, j)
             \/ phase = 0 /\ v[j] \in -Velocity .. Velocity
  <2>1. CASE h \in {Guarded(g, actual, w, v, p, dt) : v \in Moves(g, actual, wanted, p, dt)}
    BY <1>1, <2>1, ChosenVelocities
  <2>2. CASE h \in {Guarded(g, actual, w, v, 0, dt) : v \in Brakes(g, actual, wanted, p, dt)}
    <3>1. PICK v \in Brakes(g, actual, wanted, p, dt) : h = Guarded(g, actual, w, v, 0, dt)
      BY <2>2
    <3>2. v \in [Joints -> -Velocity .. Velocity] /\ v \in [Joints -> Int]
      BY <1>1, <3>1, ChosenVelocities, TargetConstants
    <3> QED BY <3>1, <3>2
  <2> QED BY <1>2, <2>1, <2>2 DEF AtPhase
<1> HIDE DEF w, p
<1>5. phase \in 0 .. Full
  BY <1>3, <1>4
<1>6. /\ h.velocities = v /\ h.over = dt /\ h.phase = phase
      /\ h.positions = Advanced(g, actual, v, phase, dt)
      /\ h.opposite = w.opposite /\ h.noResponse = w.noResponse
  BY <1>4 DEF Guarded
<1>7. /\ h \in GuardMemory
      /\ \A j \in Joints :
           /\ phase = 0 => Abs(h.positions[j] - actual[j]) <= Lead
           /\ phase # 0 => h.positions[j] = g.positions[j] + v[j] * dt
           /\ g.positions = actual /\ v[j] \in -Velocity .. Velocity =>
                Abs(h.positions[j] - actual[j]) <= Velocity * dt
  <2>1. h \in GuardMemory
    BY <1>1, <1>4, <1>5, GuardedIsMemory
  <2> QED BY <1>1, <1>6, <2>1, AdvancedIsNear
<1>8. ASSUME h.phase # 0 PROVE Turning(g, h, actual)
  <2>1. SUFFICES ASSUME NEW j \in Joints, Abs(Lag(h, actual, j)) > Lead
                 PROVE  \E room \in DynamicRoom(g, h.velocities[j], h.over, j, Sign(-Lag(h, actual, j))) : room <= 0
    BY DEF Turning
  <2>2. v[j] \in Int /\ Feasible(g, actual, wanted, v[j], p, dt, j)
    BY <1>4, <1>6, <1>8
  <2>3. Lag(h, actual, j) = Lag(g, actual, j) + v[j] * dt
    <3>1. /\ h.positions[j] = g.positions[j] + v[j] * dt
          /\ g.positions[j] \in Int /\ actual[j] \in Int /\ v[j] * dt \in Int
      BY <1>1, <1>6, <1>7, <1>8, <2>2 DEF GuardMemory
    <3> QED BY <3>1 DEF Lag
  <2> QED BY <1>1, <1>6, <2>1, <2>2, <2>3, FeasibleIsLed
<1>9. ASSUME g = Bootstrap(actual), NEW j \in Joints PROVE Abs(h.positions[j] - actual[j]) <= Velocity * dt
  <2>1. g.positions = actual /\ g.velocities[j] = 0 /\ g.change[j] = 0
    BY <1>9 DEF Bootstrap
  <2>2. v[j] \in -Velocity .. Velocity
    BY <1>1, <1>4, <2>1, FeasibleFromRest
  <2> QED BY <1>7, <2>1, <2>2
<1> QED BY <1>1, <1>6, <1>7, <1>8, <1>9

\* A tick without history starts from the encoders, at rest.
LEMMA BootstrapIsMemory ==
  ASSUME NEW actual \in [Joints -> Int]
  PROVE  /\ Bootstrap(actual) \in GuardMemory /\ Bootstrap(actual).positions = actual
         /\ Bootstrap(actual).opposite <= Bootstrap(actual).noResponse
<1>1. Full \in 0 .. Full /\ TickPeriod \in Nat \ {0}
      /\ 0 \in 0 .. NoResponseTimeout - 1 /\ 0 \in 0 .. OppositeTimeout - 1
  BY TargetConstants
<1> QED BY <1>1 DEF Bootstrap, GuardMemory

\* A tick, wherever it ends: the invariant, the two limits a step must keep, and
\* the accepted prediction it compares.
TargetStepGentle ==
  /\ ~guard.present /\ guard'.present =>
       \A j \in Joints : Abs(guard'.positions[j] - out'.actual[j]) <= Velocity * TickPeriod
  /\ out'.outcome \in {"safety", "valid"} /\ guard'.phase # 0 =>
       Turning(Before(out'.actual), guard', out'.actual) \/ UNCHANGED targetVars
  /\ accepted.present /\ accepted'.present /\ accepted'.context = accepted.context =>
       Abs(accepted'.raw - accepted.raw) <= JumpLimit

\* Ticks without a target, and steps of other parts.
LEMMA NoTickKeeps ==
  ASSUME TargetInvariant, TrajectoryLost \/ IntentRejected \/ UNCHANGED targetVars
  PROVE  TargetInvariant' /\ TargetStepGentle
<1> USE DEF TargetInvariant, TargetShape, TargetWithinReach, HeldWithinLead, FinalWithinReach,
            OppositeIsPartOfSilence
<1>1. accepted = NoIntent \/ (accepted.raw \in Int /\ Abs(accepted.raw - accepted.raw) <= JumpLimit)
  BY TargetConstants DEF Abs
<1>2. CASE TrajectoryLost
  BY <1>2, TargetConstants DEF TrajectoryLost, NoGuard, NoIntent, NoTick, TargetStepGentle
<1>3. CASE IntentRejected
  BY <1>1, <1>3, TargetConstants DEF IntentRejected, NoGuard, NoIntent, NoTick, TargetStepGentle
<1>4. CASE UNCHANGED targetVars
  BY <1>1, <1>4, TargetConstants DEF targetVars, NoIntent, TargetStepGentle
<1> QED BY <1>2, <1>3, <1>4

\* A tick refused by the guard keeps its memory, and the time since the last one
\* that moved goes on.
LEMMA RefusedTickKeeps ==
  ASSUME TargetInvariant, NEW actual, NEW wanted, NEW step \in 0 .. MaxGap, NEW raw \in Int, NEW context,
         IF sinceTick = NoTick THEN step = 0 ELSE sinceTick + step <= MaxGap,
         IntentAccepts(raw, context), GuardFails(actual, wanted, step)
  PROVE  TargetInvariant' /\ TargetStepGentle
<1>1. /\ guard' = guard /\ out' = [outcome |-> "guard"]
      /\ sinceTick' = IF sinceTick = NoTick THEN NoTick ELSE sinceTick + step
  BY DEF GuardFails, ClockTo
<1>2. /\ accepted' = intent' /\ intent'.present = TRUE /\ intent'.raw = raw /\ intent'.context = context
      /\ accepted.present /\ accepted.context = context => Abs(raw - accepted.raw) <= JumpLimit
  BY DEF IntentAccepts, TargetInvariant, TargetShape
<1>3. sinceTick' \in {NoTick} \cup 0 .. MaxGap /\ (sinceTick' = NoTick <=> sinceTick = NoTick)
  BY <1>1, TargetConstants DEF TargetInvariant, TargetShape, NoTick
<1>4. TargetShape'
  BY <1>1, <1>2, <1>3 DEF TargetInvariant, TargetShape
<1>5. TargetWithinReach'
  BY <1>1 DEF TargetInvariant, TargetWithinReach, HeldWithinLead, FinalWithinReach, OppositeIsPartOfSilence
<1>6. TargetStepGentle
  BY <1>1, <1>2 DEF TargetStepGentle
<1> QED BY <1>4, <1>5, <1>6 DEF TargetInvariant

\* A tick that commits a command (RealTimeControlTargetGenerator.tick up to its
\* result): with or without history, clamped or rejected by the gate.
LEMMA MovingTickKeeps ==
  ASSUME TargetInvariant, NEW actual \in [Joints -> Int], NEW wanted \in [Joints -> Int],
         NEW step \in 0 .. MaxGap, NEW raw \in Int, NEW context,
         IF sinceTick = NoTick THEN step = 0 ELSE sinceTick + step <= MaxGap,
         IntentAccepts(raw, context), GuardMoves(actual, wanted, step)
  PROVE  TargetInvariant' /\ TargetStepGentle
<1>1. PICK h \in GuardStates(Before(actual), actual, wanted, Dt(step)) :
        /\ guard' = h /\ sinceTick' = 0
        /\ out' = IF GateRejects(h.positions)
                  THEN [outcome |-> "safety", actual |-> actual]
                  ELSE [outcome |-> "valid", actual |-> actual, final |-> Saturated(h.positions)]
  BY DEF GuardMoves
<1>2. /\ accepted' = intent' /\ intent'.present = TRUE /\ intent'.raw = raw /\ intent'.context = context
      /\ accepted.present /\ accepted.context = context => Abs(raw - accepted.raw) <= JumpLimit
  BY DEF IntentAccepts, TargetInvariant, TargetShape
<1>3. Dt(step) \in Nat /\ (~guard.present => Dt(step) = TickPeriod)
  BY TargetConstants DEF TargetInvariant, TargetShape, NoTick, Dt
<1>4. /\ Before(actual) \in GuardMemory /\ Before(actual).opposite <= Before(actual).noResponse
      /\ ~guard.present => Before(actual) = Bootstrap(actual)
  <2>1. CASE guard.present
    BY <2>1 DEF Before, TargetInvariant, TargetShape, TargetWithinReach, OppositeIsPartOfSilence, NoGuard
  <2>2. CASE ~guard.present
    BY <2>2, BootstrapIsMemory DEF Before
  <2> QED BY <2>1, <2>2
<1>5. /\ h \in GuardMemory /\ h.opposite <= h.noResponse
      /\ h.phase = 0 => \A j \in Joints : Abs(h.positions[j] - actual[j]) <= Lead
      /\ h.phase # 0 => Turning(Before(actual), h, actual)
      /\ ~guard.present => \A j \in Joints : Abs(h.positions[j] - actual[j]) <= Velocity * TickPeriod
  BY <1>1, <1>3, <1>4, GuardStateIsNear
<1>6. h.present = TRUE /\ h.positions \in [Joints -> Int]
  BY <1>5 DEF GuardMemory
<1>7. /\ out'.outcome \in {"safety", "valid"} /\ out'.actual = actual
      /\ out'.outcome = "valid" => out'.final = Saturated(h.positions)
  BY <1>1
<1>8. TargetShape'
  BY <1>1, <1>2, <1>5, <1>6, <1>7, TargetConstants DEF TargetShape, NoTick
<1>9. HeldWithinLead' /\ OppositeIsPartOfSilence'
  BY <1>1, <1>5, <1>7 DEF HeldWithinLead, OppositeIsPartOfSilence
<1>10. FinalWithinReach'
  <2>1. SUFFICES ASSUME out'.outcome = "valid", NEW j \in Joints
                 PROVE  /\ out'.final[j] \in RangeLow .. RangeHigh
                        /\ \/ guard'.phase # 0
                           \/ Abs(out'.final[j] - out'.actual[j]) <= Lead
                           \/ out'.final[j] = Within(out'.actual[j], RangeLow, RangeHigh)
    BY DEF FinalWithinReach
  <2>2. out'.final[j] = Within(h.positions[j], RangeLow, RangeHigh) /\ out'.actual[j] = actual[j]
    BY <1>7, <2>1 DEF Saturated
  <2>3. /\ h.positions[j] \in Int /\ actual[j] \in Int /\ Lead \in Nat
        /\ guard'.phase = 0 => Abs(h.positions[j] - actual[j]) <= Lead
        /\ Within(h.positions[j], RangeLow, RangeHigh) \in RangeLow .. RangeHigh
    BY <1>1, <1>5, <1>6, TargetConstants DEF Within
  <2> QED BY <2>2, <2>3, ClampedToRange
<1>11. TargetStepGentle
  BY <1>1, <1>2, <1>5, <1>7 DEF TargetStepGentle
<1> QED BY <1>8, <1>9, <1>10, <1>11 DEF TargetInvariant, TargetWithinReach

\* Every tick keeps the invariant and moves gently, whatever integers the
\* encoders, the trajectory and the predictions are.
LEMMA TickKeeps ==
  ASSUME TargetInvariant, NEW positions \in SUBSET Int, NEW velocities \in SUBSET Int, NEW targets \in SUBSET Int,
         NEW contexts, TargetTick(positions, velocities, targets, contexts) \/ UNCHANGED targetVars
  PROVE  TargetInvariant' /\ TargetStepGentle
<1>1. CASE TrajectoryLost \/ IntentRejected \/ UNCHANGED targetVars
  BY <1>1, NoTickKeeps
<1>2. CASE ~(TrajectoryLost \/ IntentRejected \/ UNCHANGED targetVars)
  <2>1. PICK actual \in [Joints -> positions], wanted \in [Joints -> velocities],
             step \in 0 .. MaxGap, raw \in targets, context \in contexts :
          /\ IF sinceTick = NoTick THEN step = 0 ELSE sinceTick + step <= MaxGap
          /\ IntentAccepts(raw, context)
          /\ GuardFails(actual, wanted, step) \/ GuardMoves(actual, wanted, step)
    BY <1>2 DEF TargetTick
  <2>2. actual \in [Joints -> Int] /\ wanted \in [Joints -> Int] /\ raw \in Int
    BY <2>1
  <2>3. CASE GuardFails(actual, wanted, step)
    BY <2>1, <2>2, <2>3, RefusedTickKeeps
  <2>4. CASE GuardMoves(actual, wanted, step)
    BY <2>1, <2>2, <2>4, MovingTickKeeps
  <2> QED BY <2>1, <2>3, <2>4
<1> QED BY <1>1, <1>2

LEMMA TargetInitKeeps ==
  ASSUME TargetInit
  PROVE  TargetInvariant
BY TargetConstants DEF TargetInit, TargetInvariant, TargetShape, TargetWithinReach, HeldWithinLead,
   FinalWithinReach, OppositeIsPartOfSilence, NoGuard, NoTick, NoIntent, Nothing

-----------------------------------------------------------------------------
(***************************************************************************)
(* The policy server and its clients.                                      *)
(***************************************************************************)
ClientState ==
  [call : 0 .. MaxCalls, kind : Kinds, attempt : 0 .. MaxRetries, status : {"idle", "waiting"},
   result : {"none", "ok", "communication", "inference"}, source : SUBSET Calls, afterReset : BOOLEAN]

RequestState ==
  [client : Clients, call : 1 .. MaxCalls, kind : Kinds, attempt : 1 .. MaxRetries,
   stage : {"sent", "computing", "filled"}]

CallOf(r) == <<r.client, r.call>>

VlaShape ==
  /\ remote \in BOOLEAN /\ ready \in BOOLEAN
  /\ client \in [Clients -> ClientState]
  /\ requests \in SUBSET RequestState /\ policyLock \in requests \cup {NoHolder}
  /\ queue \in Seq(Calls) /\ Len(queue) <= QueueLength
  /\ acks \in [Calls -> Nat] /\ settled \in [Clients -> SUBSET Calls]

\* A request is of a call that was begun, and of an attempt that was made.
RequestsWereSent ==
  \A r \in requests :
    /\ r.call <= client[r.client].call
    /\ r.call = client[r.client].call =>
         r.kind = client[r.client].kind /\ r.attempt <= client[r.client].attempt

\* Before its first call a client waits for nothing and has no result.
ResultsAreOfCalls ==
  \A c \in Clients : client[c].call = 0 => client[c].result = "none" /\ Idle(c)

\* An attempt is on its way once.
AttemptsAreSingle ==
  \A q, r \in requests : CallOf(q) = CallOf(r) /\ q.attempt = r.attempt => q = r

LockIsOfItsHolder == \A r \in requests : r.stage # "sent" <=> r = policyLock

\* Without a policy nothing is computed.
PolicyIsReady == ready \/ (policyLock = NoHolder /\ queue = <<>>)

\* The attempts of a call that may still be executed, and those made so far.
Underway(k) == {a \in 1 .. MaxRetries : \E r \in requests : CallOf(r) = k /\ r.attempt = a}

Made(k) ==
  IF k[2] < client[k[1]].call THEN MaxRetries
  ELSE IF k[2] = client[k[1]].call THEN client[k[1]].attempt ELSE 0

AcksAreCounted == \A k \in Calls : acks[k] + Cardinality(Underway(k)) <= Made(k)

\* What was over at a reset stays over, and is in no queue.
SettledStaysOver ==
  \A c \in Clients : \A k \in settled[c] :
    Over(k) /\ \A i \in 1 .. Len(queue) : queue[i] # k

VlaInvariant ==
  /\ VlaShape
  /\ RequestsWereSent /\ ResultsAreOfCalls /\ AttemptsAreSingle /\ LockIsOfItsHolder /\ PolicyIsReady
  /\ AcksAreCounted /\ SettledStaysOver
  /\ ChunkIsOfItsObservation /\ AcksArrive

LEMMA VlaConstants ==
  /\ MaxCalls \in Nat /\ 1 <= MaxCalls /\ MaxRetries \in Nat /\ 1 <= MaxRetries
  /\ QueueLength \in Nat /\ 1 <= QueueLength /\ IsFiniteSet(Clients)
BY VlaAssumption

\* No request is the holder that stands for none.
LEMMA RequestIsAHolder ==
  ASSUME NEW r \in RequestState
  PROVE  r # NoHolder /\ CallOf(r) \in Calls
<1>1. CallOf(r) \in Calls
  BY DEF RequestState, CallOf, Calls
<1>2. "call" \in DOMAIN r /\ "call" \notin DOMAIN NoHolder
  BY DEF RequestState, NoHolder
<1> QED BY <1>1, <1>2

\* While a call may be begun, no client has made all of them.
LEMMA CallIsLeft ==
  ASSUME NEW c \in Clients, client \in [Clients -> ClientState], Cardinality(Begun) < MaxCalls
  PROVE  client[c].call + 1 \in 1 .. MaxCalls
<1> DEFINE column == {c} \X (1 .. MaxCalls)
<1>1. client[c].call \in 0 .. MaxCalls
  BY DEF ClientState
<1>2. SUFFICES ASSUME client[c].call = MaxCalls PROVE FALSE
  BY <1>1, VlaConstants
<1>3. IsFiniteSet(1 .. MaxCalls) /\ Cardinality(1 .. MaxCalls) = MaxCalls
  BY VlaConstants, FS_Interval
<1>4. IsFiniteSet({c}) /\ Cardinality({c}) = 1
  BY FS_Singleton
<1>5. IsFiniteSet(column) /\ Cardinality(column) = MaxCalls
  <2>1. /\ IsFiniteSet(column)
        /\ Cardinality(column) = Cardinality({c}) * Cardinality(1 .. MaxCalls)
    BY <1>3, <1>4, FS_Product
  <2>2. 1 * MaxCalls = MaxCalls
    BY VlaConstants
  <2> QED BY <1>3, <1>4, <2>1, <2>2
<1>6. IsFiniteSet(Begun)
  <2>1. IsFiniteSet(Calls)
    BY <1>3, VlaConstants, FS_Product DEF Calls
  <2>2. Begun \in SUBSET Calls
    BY DEF Begun
  <2> QED BY <2>1, <2>2, FS_Subset
<1>7. column \in SUBSET Begun
  BY <1>2, VlaConstants DEF Begun, Calls
<1>8. Cardinality(column) <= Cardinality(Begun) /\ Cardinality(Begun) \in Nat
  BY <1>6, <1>7, FS_Subset, FS_CardinalityType
<1> QED BY <1>5, <1>8, VlaConstants

\* The attempts that may still be executed are finitely many.
LEMMA UnderwayIsFinite ==
  ASSUME NEW k
  PROVE  /\ IsFiniteSet(Underway(k)) /\ Cardinality(Underway(k)) \in Nat
         /\ IsFiniteSet(Underway(k)') /\ Cardinality(Underway(k)') \in Nat
<1>1. IsFiniteSet(1 .. MaxRetries)
  BY VlaConstants, FS_Interval
<1>2. Underway(k) \in SUBSET (1 .. MaxRetries) /\ Underway(k)' \in SUBSET (1 .. MaxRetries)
  BY DEF Underway
<1> QED BY <1>1, <1>2, FS_Subset, FS_CardinalityType

\* What a removed request leaves of the calls: their numbers, kinds and attempts.
CallsStay ==
  /\ client' \in [Clients -> ClientState]
  /\ \A c \in Clients :
       /\ client'[c].call = client[c].call /\ client'[c].kind = client[c].kind
       /\ client'[c].attempt = client[c].attempt
       /\ client[c].status = "idle" => client'[c].status = "idle"

\* An answer is given to the call it is of, or to none.
LEMMA AnswerReachesItsCall ==
  ASSUME VlaInvariant, NEW r \in requests, NEW source \in SUBSET Calls,
         NEW result \in {"ok", "communication", "inference"}, ReplyArrives(r, result, source)
  PROVE  /\ requests' = requests \ {r} /\ CallsStay
         /\ \A c \in Clients :
              \/ client'[c] = client[c]
              \/ /\ c = r.client /\ client[c].call = r.call /\ client[c].kind = r.kind
                 /\ client'[c].result = result /\ client'[c].source = source
<1>1. /\ client \in [Clients -> ClientState] /\ r \in RequestState /\ r.client \in Clients
      /\ requests' = requests \ {r}
      /\ r.call = client[r.client].call => r.kind = client[r.client].kind
  BY DEF VlaInvariant, VlaShape, RequestsWereSent, RequestState, ReplyArrives
<1>2. CASE Awaited(r)
  <2> DEFINE new == [client[r.client] EXCEPT !.status = "idle", !.result = result, !.source = source]
  <2>1. client' = [client EXCEPT ![r.client] = new]
    BY <1>1, <1>2 DEF ReplyArrives
  <2>2. /\ new \in ClientState
        /\ new.call = client[r.client].call /\ new.kind = client[r.client].kind
        /\ new.attempt = client[r.client].attempt /\ new.status = "idle"
        /\ new.result = result /\ new.source = source
    BY <1>1 DEF ClientState
  <2>3. client[r.client].call = r.call
    BY <1>2 DEF Awaited
  <2> HIDE DEF new
  <2> QED BY <1>1, <2>1, <2>2, <2>3 DEF CallsStay
<1>3. CASE ~Awaited(r)
  BY <1>1, <1>3 DEF ReplyArrives, CallsStay
<1> QED BY <1>2, <1>3

\* A request that was executed or lost, with or without an answer.
LEMMA RemovalKeeps ==
  ASSUME VlaInvariant, NEW r \in requests, requests' = requests \ {r}, CallsStay
  PROVE  /\ requests' \in SUBSET RequestState
         /\ RequestsWereSent' /\ AttemptsAreSingle'
         /\ \A k \in Calls : /\ Over(k) => Over(k)'
                             /\ Made(k)' = Made(k)
                             /\ Cardinality(Underway(k)') <= Cardinality(Underway(k))
         /\ Cardinality(Underway(CallOf(r))') + 1 = Cardinality(Underway(CallOf(r)))
<1>1. /\ requests \in SUBSET RequestState /\ client \in [Clients -> ClientState]
      /\ requests' \in SUBSET RequestState /\ requests' \in SUBSET requests
  BY DEF VlaInvariant, VlaShape
<1>2. RequestsWereSent'
  BY <1>1 DEF VlaInvariant, RequestsWereSent, CallsStay, RequestState
<1>3. AttemptsAreSingle'
  BY <1>1 DEF VlaInvariant, AttemptsAreSingle
<1>4. ASSUME NEW k \in Calls
      PROVE  /\ Over(k) => Over(k)'
             /\ Made(k)' = Made(k)
             /\ Cardinality(Underway(k)') <= Cardinality(Underway(k))
  <2>1. k[1] \in Clients
    BY DEF Calls
  <2>2. Over(k) => Over(k)'
    BY <1>1, <2>1 DEF Over, CallsStay, Idle
  <2>3. Made(k)' = Made(k)
    BY <2>1 DEF Made, CallsStay
  <2>4. Underway(k)' \in SUBSET Underway(k)
    BY <1>1 DEF Underway
  <2> QED BY <2>2, <2>3, <2>4, UnderwayIsFinite, FS_Subset
<1>5. Cardinality(Underway(CallOf(r))') + 1 = Cardinality(Underway(CallOf(r)))
  <2>1. r.attempt \in Underway(CallOf(r))
    BY <1>1 DEF Underway, RequestState
  <2>2. Underway(CallOf(r))' = Underway(CallOf(r)) \ {r.attempt}
    <3>1. \A q \in requests : CallOf(q) = CallOf(r) /\ q.attempt = r.attempt => q = r
      BY DEF VlaInvariant, AttemptsAreSingle
    <3>2. ASSUME NEW a \in 1 .. MaxRetries
          PROVE  a \in Underway(CallOf(r))' <=> a \in Underway(CallOf(r)) /\ a # r.attempt
      <4>1. a \in Underway(CallOf(r))' <=> \E q \in requests \ {r} : CallOf(q) = CallOf(r) /\ q.attempt = a
        BY DEF Underway, CallOf
      <4>2. a \in Underway(CallOf(r)) <=> \E q \in requests : CallOf(q) = CallOf(r) /\ q.attempt = a
        BY DEF Underway
      <4> HIDE DEF CallOf
      <4> QED BY <3>1, <4>1, <4>2
    <3>3. Underway(CallOf(r)) \in SUBSET (1 .. MaxRetries) /\ Underway(CallOf(r))' \in SUBSET (1 .. MaxRetries)
      BY DEF Underway
    <3> QED BY <3>2, <3>3
  <2>3. IsFiniteSet(Underway(CallOf(r))) /\ Cardinality(Underway(CallOf(r))) \in Nat
    BY UnderwayIsFinite
  <2>4. Cardinality(Underway(CallOf(r)) \ {r.attempt}) = Cardinality(Underway(CallOf(r))) - 1
    BY <2>1, <2>3, FS_RemoveElement
  <2> QED BY <2>2, <2>3, <2>4
<1> QED BY <1>1, <1>2, <1>3, <1>4, <1>5

\* The lock after a removed request: of the holder that remains, or free.
LEMMA LockAfterRemoval ==
  ASSUME VlaInvariant, NEW r \in requests, requests' = requests \ {r},
         (r.stage = "sent" /\ UNCHANGED policyLock) \/ (r.stage # "sent" /\ policyLock' = NoHolder)
  PROVE  policyLock' \in requests' \cup {NoHolder} /\ LockIsOfItsHolder'
BY RequestIsAHolder DEF VlaInvariant, VlaShape, LockIsOfItsHolder

\* What a client is given after its reset is not of a call that was over then.
PredictionsAreLater ==
  \A c \in Clients :
    client'[c] # client[c] /\ Answered(c, "predict")' => client'[c].source \cap settled[c] = {}

QueueOnlyShrinks ==
  /\ queue' \in Seq(Calls) /\ Len(queue') <= Len(queue)
  /\ \A i \in 1 .. Len(queue') : \E j \in 1 .. Len(queue) : queue'[i] = queue[j]

\* Acks are noted for this request only, and settled is only what is over.
NotedFor(r) ==
  /\ acks' \in [Calls -> Nat] /\ settled' \in [Clients -> SUBSET Calls]
  /\ \A k \in Calls : acks'[k] = acks[k] \/ (k = CallOf(r) /\ acks'[k] = acks[k] + 1)
  /\ \A c \in Clients : \A k \in settled'[c] : k \in settled[c] \/ (Over(k) /\ queue' = <<>>)

\* A request that has been dealt with, however.
LEMMA DoneKeeps ==
  ASSUME VlaInvariant, NEW r \in requests, NEW result, NEW source,
         requests' = requests \ {r}, CallsStay, UNCHANGED <<remote, ready>>,
         \A c \in Clients :
           \/ client'[c] = client[c]
           \/ /\ c = r.client /\ client[c].call = r.call /\ client[c].kind = r.kind
              /\ client'[c].result = result /\ client'[c].source = source,
         (r.stage = "sent" /\ UNCHANGED policyLock) \/ (r.stage # "sent" /\ policyLock' = NoHolder),
         QueueOnlyShrinks, NotedFor(r),
         result = "ok" => /\ r.kind = "chunk" => source = {CallOf(r)}
                          /\ r.kind = "ack" /\ remote => acks'[CallOf(r)] > 0
                          /\ r.kind = "predict" => \A c \in Clients : source \cap settled[c] = {}
  PROVE  VlaInvariant' /\ PredictionsAreLater
<1>1. /\ requests' \in SUBSET RequestState /\ RequestsWereSent' /\ AttemptsAreSingle'
      /\ \A k \in Calls : /\ Over(k) => Over(k)'
                          /\ Made(k)' = Made(k)
                          /\ Cardinality(Underway(k)') <= Cardinality(Underway(k))
      /\ Cardinality(Underway(CallOf(r))') + 1 = Cardinality(Underway(CallOf(r)))
  BY RemovalKeeps
<1>2. policyLock' \in requests' \cup {NoHolder} /\ LockIsOfItsHolder'
  BY LockAfterRemoval
<1>3. VlaShape'
  BY <1>1, <1>2, VlaConstants DEF VlaInvariant, VlaShape, CallsStay, QueueOnlyShrinks, NotedFor
<1>4. PolicyIsReady'
  <2>1. CASE ready
    BY <2>1 DEF PolicyIsReady
  <2>2. CASE ~ready
    <3>1. policyLock = NoHolder /\ queue = <<>>
      BY <2>2 DEF VlaInvariant, PolicyIsReady
    <3>2. policyLock' = NoHolder
      BY <3>1
    <3>3. queue' = <<>>
      BY <3>1 DEF QueueOnlyShrinks
    <3> QED BY <3>2, <3>3 DEF PolicyIsReady
  <2> QED BY <2>1, <2>2
<1>5. AcksAreCounted'
  <2>1. SUFFICES ASSUME NEW k \in Calls
                 PROVE  acks'[k] + Cardinality(Underway(k)') <= Made(k)'
    BY DEF AcksAreCounted
  <2>2. acks[k] + Cardinality(Underway(k)) <= Made(k) /\ acks[k] \in Nat /\ acks'[k] \in Nat
    BY DEF VlaInvariant, AcksAreCounted, VlaShape, NotedFor
  <2>3. Cardinality(Underway(k)) \in Nat /\ Cardinality(Underway(k)') \in Nat
    <3>1. Cardinality(Underway(k)) \in Nat
      BY UnderwayIsFinite
    <3>2. Cardinality(Underway(k)') \in Nat
      BY UnderwayIsFinite
    <3> QED BY <3>1, <3>2
  <2>4. Made(k)' = Made(k) /\ Made(k) \in Nat
    <3>1. k[1] \in Clients /\ client[k[1]] \in ClientState
      BY DEF VlaInvariant, VlaShape, Calls
    <3> QED BY <1>1, <3>1, VlaConstants DEF Made, ClientState
  <2>5. CASE acks'[k] = acks[k]
    BY <1>1, <2>2, <2>3, <2>4, <2>5
  <2>6. CASE k = CallOf(r) /\ acks'[k] = acks[k] + 1
    <3>1. Cardinality(Underway(k)') + 1 = Cardinality(Underway(k))
      BY <1>1, <2>6 DEF Underway
    <3> QED BY <2>2, <2>3, <2>4, <2>6, <3>1
  <2> QED BY <2>5, <2>6 DEF NotedFor
<1>6. SettledStaysOver'
  <2>1. SUFFICES ASSUME NEW c \in Clients, NEW k \in settled'[c]
                 PROVE  Over(k)' /\ \A i \in 1 .. Len(queue') : queue'[i] # k
    BY DEF SettledStaysOver
  <2>2. k \in Calls
    BY DEF NotedFor
  <2>3. CASE k \in settled[c]
    BY <1>1, <2>2, <2>3 DEF VlaInvariant, SettledStaysOver, QueueOnlyShrinks
  <2>4. CASE Over(k) /\ queue' = <<>>
    BY <1>1, <2>2, <2>4
  <2> QED BY <2>3, <2>4 DEF NotedFor
<1>7. ChunkIsOfItsObservation'
  <2>1. SUFFICES ASSUME NEW c \in Clients, Answered(c, "chunk")'
                 PROVE  client'[c].source = {<<c, client'[c].call>>}
    BY DEF ChunkIsOfItsObservation
  <2>2. client'[c].result = "ok" /\ client'[c].kind = "chunk" /\ client'[c].call = client[c].call
        /\ client[c].kind = "chunk" /\ client'[c].status = "idle"
    BY <2>1 DEF Answered, CallsStay, Idle
  <2>3. CASE client'[c] = client[c]
    BY <2>1, <2>2, <2>3 DEF VlaInvariant, ChunkIsOfItsObservation, Answered, Idle
  <2>4. CASE client'[c] # client[c]
    BY <2>2, <2>4 DEF CallOf
  <2> QED BY <2>3, <2>4
<1>8. AcksArrive'
  <2>1. ASSUME NEW k \in Calls PROVE acks'[k] <= MaxRetries
    <3>1. acks'[k] + Cardinality(Underway(k)') <= Made(k)' /\ acks'[k] \in Nat
      BY <1>5 DEF AcksAreCounted, NotedFor
    <3>2. Made(k)' <= MaxRetries
      <4>1. k[1] \in Clients /\ client'[k[1]] \in ClientState
        BY <1>3 DEF VlaShape, Calls
      <4> QED BY <4>1, VlaConstants DEF Made, ClientState
    <3>3. Cardinality(Underway(k)') \in Nat
      BY UnderwayIsFinite
    <3>4. Made(k)' \in Nat
      <4>1. k[1] \in Clients /\ client'[k[1]] \in ClientState
        BY <1>3 DEF VlaShape, Calls
      <4> QED BY <4>1, VlaConstants DEF Made, ClientState
    <3> QED BY <3>1, <3>2, <3>3, <3>4, VlaConstants
  <2>2. ASSUME NEW c \in Clients, remote', Answered(c, "ack")'
        PROVE  acks'[<<c, client'[c].call>>] > 0
    <3>1. client'[c].result = "ok" /\ client'[c].kind = "ack" /\ client'[c].call = client[c].call
          /\ client[c].kind = "ack" /\ client'[c].status = "idle" /\ remote
      BY <2>2 DEF Answered, CallsStay, Idle
    <3>2. CASE client'[c] = client[c]
      <4> DEFINE k == <<c, client[c].call>>
      <4>1. acks[k] > 0
        BY <2>2, <3>1, <3>2 DEF VlaInvariant, AcksArrive, Answered, Idle
      <4>2. k \in Calls
        <5>1. client[c].call \in 0 .. MaxCalls
          BY DEF VlaInvariant, VlaShape, ClientState
        <5>2. client[c].call # 0
          BY <3>1, <3>2 DEF VlaInvariant, ResultsAreOfCalls
        <5> QED BY <5>1, <5>2, VlaConstants DEF Calls
      <4>3. <<c, client'[c].call>> = k
        BY <3>1
      <4> HIDE DEF k
      <4>4. acks[k] \in Nat /\ (acks'[k] = acks[k] \/ acks'[k] = acks[k] + 1)
        BY <4>2 DEF NotedFor, VlaInvariant, VlaShape
      <4> QED BY <4>1, <4>3, <4>4
    <3>3. CASE client'[c] # client[c]
      BY <3>1, <3>3 DEF CallOf
    <3> QED BY <3>2, <3>3
  <2> QED BY <2>1, <2>2 DEF AcksArrive
<1>9. PredictionsAreLater
  BY DEF PredictionsAreLater, Answered, CallsStay
<1>10. ResultsAreOfCalls'
  <2>1. r.call \in 1 .. MaxCalls
    BY DEF VlaInvariant, VlaShape, RequestState
  <2> QED BY <2>1, VlaConstants DEF VlaInvariant, ResultsAreOfCalls, CallsStay, Idle
<1> QED BY <1>10, <1>1, <1>2, <1>3, <1>4, <1>5, <1>6, <1>7, <1>8, <1>9 DEF VlaInvariant

\* Every handler of the server that answers, and the request that is lost.
LEMMA AnsweringKeeps ==
  ASSUME VlaInvariant, NEW r \in requests,
         \/ RequestLost(r) \/ ResetHandled(r) \/ AckHandled(r) \/ PredictRefused(r)
         \/ ChunkComputed(r) \/ InferenceFails(r) \/ ActionTaken(r)
  PROVE  VlaInvariant' /\ PredictionsAreLater
<1>1. /\ r \in RequestState /\ queue \in Seq(Calls) /\ acks \in [Calls -> Nat]
      /\ settled \in [Clients -> SUBSET Calls] /\ client \in [Clients -> ClientState]
      /\ CallOf(r) = <<r.client, r.call>> /\ CallOf(r) \in Calls /\ r.client \in Clients
  <2>1. /\ r \in RequestState /\ queue \in Seq(Calls) /\ acks \in [Calls -> Nat]
        /\ settled \in [Clients -> SUBSET Calls] /\ client \in [Clients -> ClientState]
    BY DEF VlaInvariant, VlaShape
  <2> QED BY <2>1, RequestIsAHolder DEF CallOf, RequestState
<1>2. CASE RequestLost(r)
  <2>1. requests' = requests \ {r} /\ CallsStay /\ UNCHANGED <<remote, ready, policyLock>>
        /\ QueueOnlyShrinks /\ NotedFor(r) /\ r.stage = "sent" /\ client' = client
    BY <1>1, <1>2 DEF RequestLost, CallsStay, QueueOnlyShrinks, NotedFor
  <2> QED BY <2>1, DoneKeeps
<1>3. CASE ResetHandled(r)
  <2>1. /\ UNCHANGED <<remote, ready, policyLock, acks>> /\ r.stage = "sent" /\ r.kind = "reset"
        /\ queue' = (IF ready THEN <<>> ELSE queue)
        /\ settled' = [settled EXCEPT ![r.client] = {k \in Calls : Over(k)}]
        /\ ReplyArrives(r, "ok", {})
    BY <1>3 DEF ResetHandled
  <2>2. queue' = <<>>
    BY <2>1 DEF VlaInvariant, PolicyIsReady
  <2>3. QueueOnlyShrinks
    BY <1>1, <2>2 DEF QueueOnlyShrinks
  <2>4. NotedFor(r)
    BY <1>1, <2>1, <2>2 DEF NotedFor
  <2> QED BY <2>1, <2>3, <2>4, AnswerReachesItsCall, DoneKeeps
<1>4. CASE AckHandled(r)
  <2>1. /\ UNCHANGED <<remote, ready, policyLock, queue, settled>> /\ r.stage = "sent" /\ r.kind = "ack"
        /\ acks' = IF remote THEN [acks EXCEPT ![CallOf(r)] = @ + 1] ELSE acks
        /\ ReplyArrives(r, "ok", {})
    BY <1>1, <1>4 DEF AckHandled
  <2>2. QueueOnlyShrinks
    BY <1>1, <2>1 DEF QueueOnlyShrinks
  <2>3. /\ acks' \in [Calls -> Nat]
        /\ remote => acks'[CallOf(r)] > 0
        /\ \A k \in Calls : acks'[k] = acks[k] \/ (k = CallOf(r) /\ acks'[k] = acks[k] + 1)
    <3>1. acks \in [Calls -> Nat] /\ CallOf(r) \in Calls
      BY <1>1
    <3>2. CASE remote
      <4>1. acks' = [acks EXCEPT ![CallOf(r)] = acks[CallOf(r)] + 1]
        BY <2>1, <3>2
      <4>2. acks[CallOf(r)] \in Nat /\ acks'[CallOf(r)] = acks[CallOf(r)] + 1
        BY <3>1, <4>1
      <4>3. acks' \in [Calls -> Nat] /\ \A k \in Calls : k # CallOf(r) => acks'[k] = acks[k]
        BY <3>1, <4>1
      <4> QED BY <4>2, <4>3
    <3>3. CASE ~remote
      BY <2>1, <3>1, <3>3
    <3> QED BY <3>2, <3>3
  <2>4. NotedFor(r)
    <3>1. settled' = settled /\ settled \in [Clients -> SUBSET Calls]
      BY <1>1, <2>1
    <3> QED BY <2>3, <3>1 DEF NotedFor
  <2>5. /\ requests' = requests \ {r} /\ CallsStay
        /\ \A c \in Clients :
             \/ client'[c] = client[c]
             \/ /\ c = r.client /\ client[c].call = r.call /\ client[c].kind = r.kind
                /\ client'[c].result = "ok" /\ client'[c].source = {}
    BY <2>1, AnswerReachesItsCall
  <2>6. UNCHANGED <<remote, ready, policyLock>> /\ r.stage = "sent" /\ r.kind = "ack"
    BY <2>1
  <2>7. remote => acks'[CallOf(r)] > 0
    BY <2>3
  <2> QED BY <2>2, <2>4, <2>5, <2>6, <2>7, DoneKeeps
<1>5. CASE PredictRefused(r) \/ InferenceFails(r)
  <2>1. /\ UNCHANGED <<remote, ready, queue, acks, settled>> /\ ReplyArrives(r, "inference", {})
        /\ (r.stage = "sent" /\ UNCHANGED policyLock) \/ (r.stage # "sent" /\ policyLock' = NoHolder)
    BY <1>5 DEF PredictRefused, InferenceFails
  <2>2. QueueOnlyShrinks /\ NotedFor(r)
    BY <1>1, <2>1 DEF QueueOnlyShrinks, NotedFor
  <2> QED BY <2>1, <2>2, AnswerReachesItsCall, DoneKeeps
<1>6. CASE ChunkComputed(r)
  <2>1. /\ UNCHANGED <<remote, ready, queue, acks, settled>> /\ r.kind = "chunk" /\ r.stage # "sent"
        /\ policyLock' = NoHolder
        /\ ReplyArrives(r, "ok", {CallOf(r)}) \/ ReplyArrives(r, "inference", {})
    BY <1>1, <1>6 DEF ChunkComputed
  <2>2. QueueOnlyShrinks /\ NotedFor(r) /\ {CallOf(r)} \in SUBSET Calls
    BY <1>1, <2>1 DEF QueueOnlyShrinks, NotedFor
  <2>3. CASE ReplyArrives(r, "ok", {CallOf(r)})
    BY <2>1, <2>2, <2>3, AnswerReachesItsCall, DoneKeeps
  <2>4. CASE ReplyArrives(r, "inference", {})
    BY <2>1, <2>2, <2>4, AnswerReachesItsCall, DoneKeeps
  <2> QED BY <2>1, <2>3, <2>4
<1>7. CASE ActionTaken(r)
  <2>1. /\ UNCHANGED <<remote, ready, acks, settled>> /\ r.kind = "predict" /\ r.stage # "sent"
        /\ policyLock' = NoHolder
        /\ IF queue = <<>> THEN ReplyArrives(r, "inference", {}) /\ UNCHANGED queue
                           ELSE ReplyArrives(r, "ok", {Head(queue)}) /\ queue' = Tail(queue)
    BY <1>7 DEF ActionTaken
  <2>2. CASE queue = <<>>
    <3>1. QueueOnlyShrinks /\ NotedFor(r)
      BY <1>1, <2>1, <2>2 DEF QueueOnlyShrinks, NotedFor
    <3> QED BY <2>1, <2>2, <3>1, AnswerReachesItsCall, DoneKeeps
  <2>3. CASE queue # <<>>
    <3> DEFINE first == Head(queue)
               rest == Tail(queue)
    <3>1. /\ first = queue[1] /\ 1 \in 1 .. Len(queue) /\ first \in Calls
          /\ rest \in Seq(Calls) /\ Len(rest) = Len(queue) - 1 /\ Len(queue) \in Nat
          /\ \A i \in 1 .. Len(rest) : rest[i] = queue[i + 1] /\ i + 1 \in 1 .. Len(queue)
      BY <1>1, <2>3
    <3>0. queue' = rest /\ ReplyArrives(r, "ok", {first}) /\ {first} \in SUBSET Calls
      BY <2>1, <2>3, <3>1
    <3> HIDE DEF first, rest
    <3>2. QueueOnlyShrinks
      BY <3>0, <3>1 DEF QueueOnlyShrinks
    <3>3. NotedFor(r)
      BY <1>1, <2>1 DEF NotedFor
    <3>4. \A c \in Clients : {first} \cap settled[c] = {}
      BY <3>1 DEF VlaInvariant, SettledStaysOver
    <3>5. /\ requests' = requests \ {r} /\ CallsStay
          /\ \A c \in Clients :
               \/ client'[c] = client[c]
               \/ /\ c = r.client /\ client[c].call = r.call /\ client[c].kind = r.kind
                  /\ client'[c].result = "ok" /\ client'[c].source = {first}
      BY <3>0, AnswerReachesItsCall
    <3>6. UNCHANGED <<remote, ready>> /\ r.kind = "predict" /\ r.stage # "sent" /\ policyLock' = NoHolder
      BY <2>1
    <3> QED BY <3>2, <3>3, <3>4, <3>5, <3>6, DoneKeeps
  <2> QED BY <2>2, <2>3
<1> QED BY <1>2, <1>3, <1>4, <1>5, <1>6, <1>7

\* One attempt more under way, and one more made.
AnotherAttempt(c, new) ==
  /\ client' = [client EXCEPT ![c] = new] /\ new \in ClientState
  /\ requests' = requests \cup {Request(c, new.call, new.kind, new.attempt)}
  /\ new.status = "waiting" /\ new.call \in 1 .. MaxCalls /\ new.attempt \in 1 .. MaxRetries
  /\ UNCHANGED <<remote, ready, policyLock, queue, acks, settled>>
  /\ \/ /\ Idle(c) /\ new.call = client[c].call + 1 /\ new.attempt = 1
     \/ /\ ~Idle(c) /\ new.call = client[c].call /\ new.kind = client[c].kind
        /\ new.attempt = client[c].attempt + 1

\* A call that begins (_request) and one that is sent again.
LEMMA SendingKeeps ==
  ASSUME VlaInvariant, NEW c \in Clients, NEW new, AnotherAttempt(c, new)
  PROVE  VlaInvariant' /\ PredictionsAreLater
<1> DEFINE sent == Request(c, new.call, new.kind, new.attempt)
           key == <<c, new.call>>
<1>1. /\ client \in [Clients -> ClientState] /\ client[c] \in ClientState
      /\ client[c].call \in Nat /\ client[c].attempt \in 0 .. MaxRetries
      /\ requests \in SUBSET RequestState /\ policyLock \in requests \cup {NoHolder}
  BY DEF VlaInvariant, VlaShape, ClientState
<1>2. /\ sent \in RequestState /\ CallOf(sent) = key /\ key \in Calls
      /\ sent.client = c /\ sent.call = new.call /\ sent.kind = new.kind
      /\ sent.attempt = new.attempt /\ sent.stage = "sent"
  <2>1. new.kind \in Kinds /\ new.call \in 1 .. MaxCalls /\ new.attempt \in 1 .. MaxRetries
    BY DEF AnotherAttempt, ClientState
  <2> QED BY <2>1 DEF Request, RequestState, CallOf, Calls
<1> HIDE DEF sent
<1>3. \A r \in requests : ~(r.client = c /\ r.call = new.call /\ r.attempt = new.attempt)
  <2>1. SUFFICES ASSUME NEW r \in requests, r.client = c, r.call = new.call, r.attempt = new.attempt
                 PROVE  FALSE
    OBVIOUS
  <2>2. /\ r.call <= client[c].call
        /\ r.call = client[c].call => r.attempt <= client[c].attempt
    BY <2>1 DEF VlaInvariant, RequestsWereSent
  <2>3. r.call \in Nat /\ r.attempt \in Nat
    BY <1>1, <2>1, VlaConstants DEF RequestState
  <2> QED BY <1>1, <2>1, <2>2, <2>3 DEF AnotherAttempt
<1>4. /\ requests' = requests \cup {sent} /\ client' \in [Clients -> ClientState] /\ client'[c] = new
      /\ \A d \in Clients : d # c => client'[d] = client[d]
      /\ UNCHANGED <<remote, ready, policyLock, queue, acks, settled>>
  BY <1>1 DEF AnotherAttempt, sent
<1>5. VlaShape'
  BY <1>1, <1>2, <1>4 DEF VlaInvariant, VlaShape
<1>6. RequestsWereSent'
  <2>1. SUFFICES ASSUME NEW r \in requests'
                 PROVE  /\ r.call <= client'[r.client].call
                        /\ r.call = client'[r.client].call =>
                             r.kind = client'[r.client].kind /\ r.attempt <= client'[r.client].attempt
    BY DEF RequestsWereSent
  <2>2. CASE r = sent
    BY <1>2, <1>4, <2>2 DEF AnotherAttempt
  <2>3. CASE r \in requests
    <3>1. /\ r.call <= client[r.client].call
          /\ r.call = client[r.client].call =>
               r.kind = client[r.client].kind /\ r.attempt <= client[r.client].attempt
      BY <2>3 DEF VlaInvariant, RequestsWereSent
    <3>2. r.call \in Nat /\ r.attempt \in Nat /\ r.client \in Clients
      BY <1>1, <2>3, VlaConstants DEF RequestState
    <3>3. CASE r.client = c
      BY <1>1, <1>4, <3>1, <3>2, <3>3 DEF AnotherAttempt
    <3>4. CASE r.client # c
      BY <1>4, <3>1, <3>2, <3>4
    <3> QED BY <3>3, <3>4
  <2> QED BY <1>4, <2>2, <2>3
<1>7. ResultsAreOfCalls'
  BY <1>4, VlaConstants DEF VlaInvariant, ResultsAreOfCalls, AnotherAttempt, Idle
<1>8. AttemptsAreSingle'
  <2>1. SUFFICES ASSUME NEW q \in requests', NEW r \in requests', CallOf(q) = CallOf(r),
                        q.attempt = r.attempt
                 PROVE  q = r
    BY DEF AttemptsAreSingle, CallOf
  <2>2. q.client = r.client /\ q.call = r.call
    BY <2>1 DEF CallOf
  <2>3. CASE q \in requests /\ r \in requests
    BY <2>1, <2>3 DEF VlaInvariant, AttemptsAreSingle
  <2>4. CASE q = sent \/ r = sent
    BY <1>2, <1>3, <1>4, <2>1, <2>2, <2>4
  <2> QED BY <1>4, <2>3, <2>4
<1>9. LockIsOfItsHolder'
  <2>1. sent # policyLock
    <3>1. sent \notin requests
      BY <1>2, <1>3
    <3> QED BY <1>1, <1>2, <3>1, RequestIsAHolder
  <2> QED BY <1>2, <1>4, <2>1 DEF VlaInvariant, LockIsOfItsHolder
<1>10. PolicyIsReady'
  BY <1>4 DEF VlaInvariant, PolicyIsReady
<1>11. AcksAreCounted'
  <2>1. SUFFICES ASSUME NEW k \in Calls
                 PROVE  acks[k] + Cardinality(Underway(k)') <= Made(k)'
    BY <1>4 DEF AcksAreCounted
  <2>2. /\ acks[k] + Cardinality(Underway(k)) <= Made(k) /\ acks[k] \in Nat
        /\ Cardinality(Underway(k)) \in Nat /\ Cardinality(Underway(k)') \in Nat
    BY UnderwayIsFinite DEF VlaInvariant, AcksAreCounted, VlaShape
  <2>3. /\ k[1] \in Clients /\ k[2] \in Nat /\ k = <<k[1], k[2]>>
        /\ client[k[1]].call \in Nat /\ client[k[1]].attempt \in 0 .. MaxRetries
    BY <1>1, VlaConstants DEF Calls, ClientState
  <2>4. CASE k = key
    <3>1. k[1] = c /\ k[2] = new.call
      BY <2>4
    <3>2. Underway(k)' \in SUBSET (Underway(k) \cup {new.attempt})
      <4>1. ASSUME NEW a \in Underway(k)' PROVE a \in Underway(k) \/ a = new.attempt
        <5>1. a \in 1 .. MaxRetries /\ \E r \in requests' : CallOf(r) = k /\ r.attempt = a
          BY DEF Underway, CallOf
        <5> QED BY <1>2, <1>4, <5>1 DEF Underway
      <4> QED BY <4>1
    <3>3. Cardinality(Underway(k)') <= Cardinality(Underway(k)) + 1
      <4>1. /\ IsFiniteSet(Underway(k) \cup {new.attempt})
            /\ Cardinality(Underway(k) \cup {new.attempt}) <= Cardinality(Underway(k)) + 1
            /\ Cardinality(Underway(k) \cup {new.attempt}) \in Nat
        <5>1. IsFiniteSet(Underway(k))
          BY UnderwayIsFinite
        <5>2. /\ IsFiniteSet(Underway(k) \cup {new.attempt})
              /\ Cardinality(Underway(k) \cup {new.attempt})
                   = IF new.attempt \in Underway(k) THEN Cardinality(Underway(k))
                     ELSE Cardinality(Underway(k)) + 1
          BY <5>1, FS_AddElement
        <5> QED BY <2>2, <5>2
      <4>2. Cardinality(Underway(k)') <= Cardinality(Underway(k) \cup {new.attempt})
        BY <3>2, <4>1, FS_Subset
      <4> QED BY <2>2, <4>1, <4>2
    <3>4. Made(k)' = new.attempt
      BY <1>4, <3>1, VlaConstants DEF Made, AnotherAttempt
    <3>5. CASE Idle(c)
      BY <1>1, <2>2, <3>1, <3>3, <3>4, <3>5 DEF Made, AnotherAttempt
    <3>6. CASE ~Idle(c)
      BY <1>1, <2>2, <3>1, <3>3, <3>4, <3>6 DEF Made, AnotherAttempt
    <3> QED BY <3>5, <3>6
  <2>5. CASE k # key
    <3>1. Underway(k)' = Underway(k)
      <4>1. ASSUME NEW a \in 1 .. MaxRetries
            PROVE  (\E r \in requests' : CallOf(r) = k /\ r.attempt = a)
                     <=> (\E r \in requests : CallOf(r) = k /\ r.attempt = a)
        BY <1>2, <1>4, <2>5
      <4> QED BY <4>1 DEF Underway, CallOf
    <3>2. Made(k) \in Nat /\ Made(k)' \in Nat /\ Made(k) <= Made(k)'
      <4>1. CASE k[1] # c
        BY <1>4, <2>3, <4>1, VlaConstants DEF Made
      <4>2. CASE k[1] = c
        <5>1. k[2] # new.call
          BY <2>3, <2>5, <4>2
        <5>2. new.call \in Nat /\ new.attempt \in Nat
          BY VlaConstants DEF AnotherAttempt
        <5>3. client'[k[1]].call = new.call /\ new.call \in {client[k[1]].call, client[k[1]].call + 1}
          BY <1>4, <4>2 DEF AnotherAttempt
        <5> QED BY <2>3, <5>1, <5>2, <5>3, VlaConstants DEF Made
      <4> QED BY <4>1, <4>2
    <3> QED BY <2>2, <3>1, <3>2
  <2> QED BY <2>4, <2>5
<1>12. SettledStaysOver'
  <2>1. SUFFICES ASSUME NEW d \in Clients, NEW k \in settled[d]
                 PROVE  Over(k)' /\ \A i \in 1 .. Len(queue) : queue[i] # k
    BY <1>4 DEF SettledStaysOver
  <2>2. /\ Over(k) /\ k \in Calls /\ k[1] \in Clients /\ k[2] \in Nat /\ k = <<k[1], k[2]>>
        /\ \A i \in 1 .. Len(queue) : queue[i] # k
    BY VlaConstants DEF VlaInvariant, VlaShape, SettledStaysOver, Calls
  <2>3. ~(k[1] = c /\ k[2] = new.call)
    BY <1>1, <2>2 DEF Over, AnotherAttempt
  <2>4. k[2] < client'[k[1]].call \/ (k[2] = client'[k[1]].call /\ client'[k[1]].status = "idle")
    <3>1. CASE k[1] = c
      BY <1>1, <1>4, <2>2, <2>3, <3>1 DEF Over, AnotherAttempt
    <3>2. CASE k[1] # c
      BY <1>4, <2>2, <3>2 DEF Over, Idle
    <3> QED BY <3>1, <3>2
  <2>5. ~\E q \in requests' : <<q.client, q.call>> = k
    BY <1>2, <1>4, <2>2, <2>3 DEF Over
  <2> QED BY <2>2, <2>4, <2>5 DEF Over, Idle
<1>13. \A d \in Clients : Answered(d, "chunk")' \/ Answered(d, "ack")' \/ Answered(d, "predict")'
         => client'[d] = client[d]
  BY <1>4 DEF Answered, Idle, AnotherAttempt
<1>14. ChunkIsOfItsObservation'
  BY <1>13 DEF VlaInvariant, ChunkIsOfItsObservation, Answered, Idle
<1>15. AcksArrive'
  BY <1>4, <1>13 DEF VlaInvariant, AcksArrive, Answered, Idle
<1>16. PredictionsAreLater
  BY <1>13 DEF PredictionsAreLater
<1> QED BY <1>5, <1>6, <1>7, <1>8, <1>9, <1>10, <1>11, <1>12, <1>14, <1>15, <1>16 DEF VlaInvariant

\* The last attempt has failed: the call has, too; its requests may go on.
LEMMA GivingUpKeeps ==
  ASSUME VlaInvariant, NEW c \in Clients, client[c].status = "waiting",
         client' = [client EXCEPT ![c].status = "idle", ![c].result = "communication"],
         UNCHANGED <<remote, ready, requests, policyLock, queue, acks, settled>>
  PROVE  VlaInvariant' /\ PredictionsAreLater
<1> DEFINE new == [client[c] EXCEPT !.status = "idle", !.result = "communication"]
<1>1. /\ client \in [Clients -> ClientState] /\ client[c] \in ClientState
      /\ client' = [client EXCEPT ![c] = new]
  BY DEF VlaInvariant, VlaShape
<1>2. /\ new \in ClientState /\ new.call = client[c].call /\ new.kind = client[c].kind
      /\ new.attempt = client[c].attempt /\ new.status = "idle" /\ new.result = "communication"
  BY <1>1 DEF ClientState
<1> HIDE DEF new
<1>3. /\ client' \in [Clients -> ClientState]
      /\ \A d \in Clients : /\ client'[d].call = client[d].call /\ client'[d].kind = client[d].kind
                            /\ client'[d].attempt = client[d].attempt
                            /\ client[d].status = "idle" => client'[d] = client[d]
                            /\ client'[d] = client[d] \/ client'[d].result = "communication"
  BY <1>1, <1>2
<1>4. VlaShape'
  BY <1>3 DEF VlaInvariant, VlaShape
<1>5. RequestsWereSent' /\ AttemptsAreSingle' /\ LockIsOfItsHolder' /\ PolicyIsReady'
  <2>1. \A r \in requests : r.client \in Clients
    BY DEF VlaInvariant, VlaShape, RequestState
  <2> QED BY <1>3, <2>1 DEF VlaInvariant, RequestsWereSent, AttemptsAreSingle, LockIsOfItsHolder,
          PolicyIsReady, CallOf
<1>6. ResultsAreOfCalls'
  <2>1. client[c].call # 0
    <3>1. client[c].call = 0 => client[c].status = "idle"
      BY DEF VlaInvariant, ResultsAreOfCalls, Idle
    <3> QED BY <3>1
  <2> QED BY <1>1, <1>2, <1>3, <2>1 DEF VlaInvariant, ResultsAreOfCalls, Idle
<1>7. AcksAreCounted'
  <2>1. \A k \in Calls : k[1] \in Clients
    BY DEF Calls
  <2> QED BY <1>3, <2>1 DEF VlaInvariant, AcksAreCounted, Made, Underway, CallOf
<1>8. SettledStaysOver'
  <2>1. \A d \in Clients : \A k \in settled[d] : k[1] \in Clients
    BY DEF VlaInvariant, VlaShape, Calls
  <2> QED BY <1>3, <2>1 DEF VlaInvariant, SettledStaysOver, Over, Idle
<1>9. ChunkIsOfItsObservation' /\ AcksArrive'
  BY <1>3 DEF VlaInvariant, ChunkIsOfItsObservation, AcksArrive, Answered, Idle
<1>10. PredictionsAreLater
  BY <1>3 DEF PredictionsAreLater, Answered
<1> QED BY <1>4, <1>5, <1>6, <1>7, <1>8, <1>9, <1>10 DEF VlaInvariant

\* A request goes on inside its handler, with the lock.
LEMMA ComputingKeeps ==
  ASSUME VlaInvariant, NEW r \in requests, TakesPolicyLock(r) \/ QueueFilled(r)
  PROVE  VlaInvariant' /\ PredictionsAreLater
<1> DEFINE held == [r EXCEPT !.stage = IF r.stage = "sent" THEN "computing" ELSE "filled"]
<1>1. /\ client' = client /\ acks' = acks /\ settled' = settled /\ UNCHANGED <<remote, ready>>
      /\ requests' = (requests \ {r}) \cup {held} /\ policyLock' = held
      /\ r.stage = "sent" => ready /\ policyLock = NoHolder
      /\ r.stage # "sent" => r.stage = "computing"
      /\ \/ queue' = queue
         \/ queue = <<>> /\ queue' = [i \in 1 .. QueueLength |-> CallOf(r)]
  BY DEF TakesPolicyLock, QueueFilled, CallOf
<1>2. /\ r \in RequestState /\ requests \in SUBSET RequestState /\ queue \in Seq(Calls)
      /\ Len(queue) <= QueueLength /\ CallOf(r) \in Calls
  BY RequestIsAHolder DEF VlaInvariant, VlaShape
<1>3. /\ held \in RequestState /\ held.client = r.client /\ held.call = r.call /\ held.kind = r.kind
      /\ held.attempt = r.attempt /\ held.stage # "sent" /\ CallOf(held) = CallOf(r)
  BY <1>2 DEF RequestState, CallOf
<1> HIDE DEF held
<1>4. ready
  <2>1. r.stage # "sent" => r = policyLock
    BY DEF VlaInvariant, LockIsOfItsHolder
  <2> QED BY <1>1, <1>2, <2>1, RequestIsAHolder DEF VlaInvariant, PolicyIsReady
<1>5. /\ queue' \in Seq(Calls) /\ Len(queue') <= QueueLength
      /\ \A i \in 1 .. Len(queue') :
           queue'[i] = CallOf(r) \/ \E j \in 1 .. Len(queue) : queue'[i] = queue[j]
  <2>1. CASE queue' = queue
    BY <1>2, <2>1
  <2>2. CASE queue' = [i \in 1 .. QueueLength |-> CallOf(r)]
    BY <1>2, <2>2, VlaConstants
  <2> QED BY <1>1, <2>1, <2>2
<1>6. VlaShape'
  BY <1>1, <1>2, <1>3, <1>5 DEF VlaInvariant, VlaShape
<1>7. RequestsWereSent'
  BY <1>1, <1>3 DEF VlaInvariant, RequestsWereSent
<1>8. AttemptsAreSingle'
  <2>1. \A q \in requests : CallOf(q) = CallOf(r) /\ q.attempt = r.attempt => q = r
    BY DEF VlaInvariant, AttemptsAreSingle
  <2>2. SUFFICES ASSUME NEW p \in requests', NEW q \in requests', CallOf(p) = CallOf(q),
                        p.attempt = q.attempt
                 PROVE  p = q
    BY DEF AttemptsAreSingle, CallOf
  <2>3. CASE p # held /\ q # held
    BY <1>1, <2>2, <2>3 DEF VlaInvariant, AttemptsAreSingle
  <2>4. CASE p = held \/ q = held
    BY <1>1, <1>3, <2>1, <2>2, <2>4
  <2> QED BY <2>3, <2>4
<1>9. LockIsOfItsHolder'
  <2>1. \A q \in requests : q # r => q.stage = "sent"
    BY <1>1, <1>2, RequestIsAHolder DEF VlaInvariant, LockIsOfItsHolder
  <2> QED BY <1>1, <1>3, <2>1 DEF LockIsOfItsHolder
<1>10. PolicyIsReady' /\ ResultsAreOfCalls'
  BY <1>1, <1>4 DEF VlaInvariant, PolicyIsReady, ResultsAreOfCalls, Idle
<1>11. \A k \in Calls : Underway(k)' = Underway(k)
  <2>1. ASSUME NEW k \in Calls, NEW a \in 1 .. MaxRetries
        PROVE  (\E q \in requests' : CallOf(q) = k /\ q.attempt = a)
                 <=> (\E q \in requests : CallOf(q) = k /\ q.attempt = a)
    BY <1>1, <1>3
  <2> QED BY <2>1 DEF Underway, CallOf
<1>12. AcksAreCounted'
  BY <1>1, <1>11 DEF VlaInvariant, AcksAreCounted, Made
<1>13. SettledStaysOver'
  <2>1. SUFFICES ASSUME NEW d \in Clients, NEW k \in settled[d]
                 PROVE  Over(k)' /\ \A i \in 1 .. Len(queue') : queue'[i] # k
    BY <1>1 DEF SettledStaysOver
  <2>2. Over(k) /\ \A i \in 1 .. Len(queue) : queue[i] # k
    BY DEF VlaInvariant, SettledStaysOver
  <2>3. k # CallOf(r)
    BY <2>2 DEF Over, CallOf
  <2>4. Over(k)'
    BY <1>1, <1>3, <2>2, <2>3 DEF Over, Idle, CallOf
  <2> QED BY <1>5, <2>2, <2>3, <2>4
<1>14. ChunkIsOfItsObservation' /\ AcksArrive'
  BY <1>1 DEF VlaInvariant, ChunkIsOfItsObservation, AcksArrive, Answered, Idle
<1>15. PredictionsAreLater
  BY <1>1 DEF PredictionsAreLater
<1> QED BY <1>6, <1>7, <1>8, <1>9, <1>10, <1>12, <1>13, <1>14, <1>15 DEF VlaInvariant

LEMMA VlaInitKeeps ==
  ASSUME VlaInit
  PROVE  VlaInvariant
<1>1. /\ client \in [Clients -> ClientState]
      /\ \A c \in Clients : client[c].call = 0 /\ client[c].result = "none"
      /\ requests = {} /\ policyLock = NoHolder /\ queue = <<>> /\ acks = [k \in Calls |-> 0]
      /\ settled = [c \in Clients |-> {}] /\ remote \in BOOLEAN /\ ready \in BOOLEAN
  BY VlaConstants DEF VlaInit, ClientState, Kinds
<1>4. \A c \in Clients : client[c].status = "idle"
  BY DEF VlaInit
<1>2. VlaShape
  BY <1>1, VlaConstants DEF VlaShape
<1>3. AcksAreCounted
  <2>1. SUFFICES ASSUME NEW k \in Calls PROVE acks[k] + Cardinality(Underway(k)) <= Made(k)
    BY DEF AcksAreCounted
  <2>2. Cardinality(Underway(k)) = 0
    <3>1. Underway(k) = {}
      BY <1>1 DEF Underway
    <3> QED BY <3>1, FS_EmptySet
  <2>3. Made(k) = 0
    <3>1. k[1] \in Clients /\ k[2] \in 1 .. MaxCalls
      BY DEF Calls
    <3> QED BY <1>1, <3>1, VlaConstants DEF Made
  <2> QED BY <1>1, <2>2, <2>3
<1>5. RequestsWereSent /\ ResultsAreOfCalls /\ AttemptsAreSingle /\ LockIsOfItsHolder /\ PolicyIsReady
  BY <1>1, <1>4 DEF RequestsWereSent, ResultsAreOfCalls, Idle, AttemptsAreSingle, LockIsOfItsHolder,
     PolicyIsReady
<1>6. SettledStaysOver /\ ChunkIsOfItsObservation
  BY <1>1 DEF SettledStaysOver, ChunkIsOfItsObservation, Answered
<1>7. AcksArrive
  BY <1>1, VlaConstants DEF AcksArrive, Answered
<1> QED BY <1>2, <1>3, <1>5, <1>6, <1>7 DEF VlaInvariant

\* Every step of the clients, of the network and of the server.
LEMMA VlaStepKeeps ==
  ASSUME VlaInvariant, VlaNext \/ UNCHANGED vlaVars
  PROVE  VlaInvariant' /\ PredictionsAreLater
<1>1. CASE UNCHANGED vlaVars
  BY <1>1 DEF vlaVars, VlaInvariant, VlaShape, RequestsWereSent, ResultsAreOfCalls, AttemptsAreSingle,
     LockIsOfItsHolder, PolicyIsReady, AcksAreCounted, Underway, Made, SettledStaysOver, Over, Idle,
     CallOf, ChunkIsOfItsObservation, AcksArrive, Answered, PredictionsAreLater
<1>2. ASSUME NEW c \in Clients, NEW kind \in Kinds, CallBegins(c, kind)
      PROVE  VlaInvariant' /\ PredictionsAreLater
  <2> DEFINE new == [call |-> client[c].call + 1, kind |-> kind, attempt |-> 1, status |-> "waiting",
                     result |-> "none", source |-> {},
                     afterReset |-> client[c].call > 0 /\ Answered(c, "reset")]
  <2>1. client[c].call + 1 \in 1 .. MaxCalls
    BY <1>2, CallIsLeft DEF CallBegins, VlaInvariant, VlaShape
  <2>2. (client[c].call > 0 /\ Answered(c, "reset")) \in BOOLEAN
    OBVIOUS
  <2>3. new \in ClientState
    BY <2>1, <2>2, VlaConstants DEF ClientState
  <2>4. /\ client' = [client EXCEPT ![c] = new]
        /\ requests' = requests \cup {Request(c, new.call, new.kind, new.attempt)}
        /\ UNCHANGED <<remote, ready, policyLock, queue, acks, settled>> /\ Idle(c)
    BY <1>2 DEF CallBegins, Sends
  <2>5. new.status = "waiting" /\ new.call = client[c].call + 1 /\ new.attempt = 1
    OBVIOUS
  <2> HIDE DEF new
  <2>6. AnotherAttempt(c, new)
    BY <2>1, <2>3, <2>4, <2>5, VlaConstants DEF AnotherAttempt
  <2> QED BY <2>6, SendingKeeps
<1>3. ASSUME NEW c \in Clients, AttemptFails(c)
      PROVE  VlaInvariant' /\ PredictionsAreLater
  <2>1. CASE AttemptsLeft(c)
    <3> DEFINE new == [client[c] EXCEPT !.attempt = @ + 1]
    <3>1. /\ client[c] \in ClientState /\ client[c].attempt \in 0 .. MaxRetries
          /\ client[c].call \in 0 .. MaxCalls /\ client[c].attempt < MaxRetries
          /\ client[c].status = "waiting"
      BY <1>3, <2>1 DEF VlaInvariant, VlaShape, ClientState, AttemptsLeft, AttemptFails
    <3>2. /\ new \in ClientState /\ new.attempt = client[c].attempt + 1 /\ new.call = client[c].call
          /\ new.kind = client[c].kind /\ new.status = "waiting"
      BY <3>1, VlaConstants DEF ClientState
    <3>3. /\ client' = [client EXCEPT ![c] = new]
          /\ requests' = requests \cup {Request(c, new.call, new.kind, new.attempt)}
          /\ UNCHANGED <<remote, ready, policyLock, queue, acks, settled>>
      BY <1>3, <2>1 DEF AttemptFails, Sends
    <3>4. client[c].call # 0
      BY <3>1 DEF VlaInvariant, ResultsAreOfCalls, Idle
    <3> HIDE DEF new
    <3>5. AnotherAttempt(c, new)
      BY <3>1, <3>2, <3>3, <3>4, VlaConstants DEF AnotherAttempt, Idle
    <3> QED BY <3>5, SendingKeeps
  <2>2. CASE ~AttemptsLeft(c)
    BY <1>3, <2>2, GivingUpKeeps DEF AttemptFails
  <2> QED BY <2>1, <2>2
<1>4. ASSUME NEW r \in requests, RequestLost(r) \/ Handled(r)
      PROVE  VlaInvariant' /\ PredictionsAreLater
  BY <1>4, AnsweringKeeps, ComputingKeeps DEF Handled
<1> QED BY <1>1, <1>2, <1>3, <1>4 DEF VlaNext

-----------------------------------------------------------------------------
(***************************************************************************)
(* All of them.                                                            *)
(***************************************************************************)
WritersInvariant == VlaInvariant /\ JointInvariant /\ TargetInvariant

\* A step of one part keeps the other two.
LEMMA WritersStepKeeps ==
  ASSUME WritersInvariant, [WritersNext]_writerVars
  PROVE  WritersInvariant' /\ PredictionsAreLater /\ TargetStepGentle
<1>1. VlaNext \/ UNCHANGED vlaVars
  BY DEF WritersNext, PolicyPart, JointPart, TargetPart, writerVars
<1>2. [JointNext]_jointVars
  BY DEF WritersNext, PolicyPart, JointPart, TargetPart, writerVars
<1>3. OneWay \/ OnePosition \/ UNCHANGED targetVars
  BY DEF WritersNext, PolicyPart, JointPart, TargetPart, MCNext, writerVars
<1>4. TargetInvariant' /\ TargetStepGentle
  <2>1. CASE OneWay \/ UNCHANGED targetVars
    <3>1. /\ Positions \in SUBSET Int /\ Targets \in SUBSET Int
          /\ \A velocity \in Wanted : {velocity} \in SUBSET Int
      BY TargetAssumption
    <3> QED BY <2>1, <3>1, TickKeeps DEF OneWay, WritersInvariant
  <2>2. CASE OnePosition
    <3>1. {0} \in SUBSET Int /\ {0, 2} \in SUBSET Int
      OBVIOUS
    <3> QED BY <2>2, <3>1, TickKeeps DEF OnePosition, WritersInvariant
  <2> QED BY <1>3, <2>1, <2>2
<1> QED BY <1>1, <1>2, <1>4, VlaStepKeeps, JointStepKeeps DEF WritersInvariant

\* The invariants of the three parts hold together, whatever their order of steps.
THEOREM WritersCorrect == WritersSpec => []WritersInvariant
<1>1. WritersInit => WritersInvariant
  BY VlaInitKeeps, JointInitKeeps, TargetInitKeeps DEF WritersInit, WritersInvariant
<1>2. WritersInvariant /\ [WritersNext]_writerVars => WritersInvariant'
  BY WritersStepKeeps
<1> QED BY <1>1, <1>2, PTL DEF WritersSpec

\* The state of the policy server, of the armed tests and of the targets keeps its
\* types, and the lock of the policy is of the request that computes.
THEOREM WritersAreTyped == WritersSpec => []WritersTypeOK
<1>1. VlaInvariant => VlaTypeOK
  <2> SUFFICES ASSUME VlaInvariant PROVE VlaTypeOK
    OBVIOUS
  <2>1. \A c \in Clients : client[c].call \in 0 .. MaxCalls /\ client[c].attempt \in 0 .. MaxRetries
    BY DEF VlaInvariant, VlaShape, ClientState
  <2> QED BY <2>1 DEF VlaTypeOK, VlaInvariant, VlaShape, LockIsOfItsHolder
<1>2. JointInvariant => JointTypeOK
  <2> SUFFICES ASSUME JointInvariant PROVE JointTypeOK
    OBVIOUS
  <2>1. \A r \in Runs : run[r].raw \in Ticks /\ run[r].target \in Ticks /\ run[r].budget \in 0 .. 1
    BY DEF JointInvariant, JointShape, JointRun
  <2> QED BY <2>1 DEF JointTypeOK, JointInvariant, JointShape
<1>3. TargetInvariant => TargetTypeOK
  BY DEF TargetInvariant, TargetShape, TargetTypeOK
<1>4. WritersInvariant => WritersTypeOK
  BY <1>1, <1>2, <1>3 DEF WritersInvariant, WritersTypeOK
<1> QED BY <1>4, WritersCorrect, PTL

\* An armed test writes only near the start it was confirmed for, and a PASS was a
\* movement to the side that was asked for (single_joint_goal_position_writer.py).
THEOREM JointIsSafe == WritersSpec => []JointSafe
<1>1. JointInvariant => JointSafe
  BY DEF JointInvariant, ArmedWell, NearExpected, PassMoved, JointSafe, StaysNearConfirmedStart,
     PassIsTheMotionAsked, At
<1> QED BY <1>1, WritersCorrect, PTL DEF WritersInvariant

\* On hold the command stays within the tracking lead of the encoders, and what is
\* sent is in range, for any positions, trajectories and gaps
\* (realtime_control_target.py).
THEOREM TargetStaysWithinReach == WritersSpec => []TargetWithinReach
BY WritersCorrect, PTL DEF WritersInvariant, TargetInvariant

\* The same of the generator by itself, whatever velocity the trajectory wants of
\* each joint; and a command leaves its lead only while it turns back as hard as a
\* dynamic limit allows.
THEOREM TargetAlwaysWithinReach == TargetSpec => []TargetWithinReach /\ TargetsGentle
<1>1. TargetInit => TargetInvariant
  BY TargetInitKeeps
<1>2. TargetInvariant /\ [TargetNext]_targetVars => TargetInvariant' /\ TargetStepGentle
  <2>1. Positions \in SUBSET Int /\ Wanted \in SUBSET Int /\ Targets \in SUBSET Int
    BY TargetAssumption
  <2> QED BY <2>1, TickKeeps DEF TargetNext
<1>3. TargetInvariant /\ [TargetNext]_targetVars =>
        [~guard.present /\ guard'.present =>
           \A j \in Joints : Abs(guard'.positions[j] - out'.actual[j]) <= Velocity * TickPeriod]_targetVars
  BY <1>2 DEF TargetStepGentle
<1>4. TargetInvariant /\ [TargetNext]_targetVars =>
        [accepted.present /\ accepted'.present /\ accepted'.context = accepted.context =>
           Abs(accepted'.raw - accepted.raw) <= JumpLimit]_targetVars
  BY <1>2 DEF TargetStepGentle
<1>5. TargetInvariant => TargetWithinReach
  BY DEF TargetInvariant
<1>6. TargetInvariant /\ [TargetNext]_targetVars =>
        [out'.outcome \in {"safety", "valid"} /\ guard'.phase # 0 =>
           Turning(Before(out'.actual), guard', out'.actual)]_targetVars
  BY <1>2 DEF TargetStepGentle
<1> QED BY <1>1, <1>2, <1>3, <1>4, <1>5, <1>6, PTL DEF TargetSpec, TargetsGentle, RestartsGently,
           LeftByMomentumOnly, NoJumpWithinContext

\* After a gap the arm restarts gently, no trajectory drives a command out of its
\* lead, and predictions of the same chunks do not jump however many are refused in
\* between.
THEOREM TargetsMoveGently == WritersSpec => TargetsGentle
<1>1. WritersInvariant /\ [WritersNext]_writerVars =>
        [~guard.present /\ guard'.present =>
           \A j \in Joints : Abs(guard'.positions[j] - out'.actual[j]) <= Velocity * TickPeriod]_targetVars
  BY WritersStepKeeps DEF TargetStepGentle
<1>2. WritersInvariant /\ [WritersNext]_writerVars =>
        [accepted.present /\ accepted'.present /\ accepted'.context = accepted.context =>
           Abs(accepted'.raw - accepted.raw) <= JumpLimit]_targetVars
  BY WritersStepKeeps DEF TargetStepGentle
<1>3. WritersInvariant /\ [WritersNext]_writerVars =>
        [out'.outcome \in {"safety", "valid"} /\ guard'.phase # 0 =>
           Turning(Before(out'.actual), guard', out'.actual)]_targetVars
  BY WritersStepKeeps DEF TargetStepGentle
<1> QED BY <1>1, <1>2, <1>3, WritersCorrect, PTL DEF WritersSpec, TargetsGentle, RestartsGently,
           LeftByMomentumOnly, NoJumpWithinContext

\* The policy answers with what was asked: a chunk is of its own observation, a
\* reported ack has arrived, and nothing of before a reset is answered after it,
\* whatever is lost, repeated or executed late (vla_server.py, vla_client.py).
THEOREM PolicyAnswersWhatWasAsked == WritersSpec => PolicyAnswers
<1>1. WritersInvariant => ChunkIsOfItsObservation /\ AcksArrive
  BY DEF WritersInvariant, VlaInvariant
<1>2. WritersInvariant /\ [WritersNext]_writerVars =>
        [\A c \in Clients :
           client'[c] # client[c] /\ Answered(c, "predict")' => client'[c].source \cap settled[c] = {}]_vlaVars
  BY WritersStepKeeps DEF PredictionsAreLater
<1> QED BY <1>1, <1>2, WritersCorrect, PTL DEF WritersSpec, PolicyAnswers, NothingFromBeforeReset
=============================================================================
