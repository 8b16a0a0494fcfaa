----------------------------- MODULE SingleJoint -----------------------------
(***************************************************************************)
(* The armed test of one joint: the script                                 *)
(* (scripts/run_single_joint_hardware_test.py, modes armed and             *)
(* acceleration-write), which an operator starts again and again and may   *)
(* start in two terminals at once; the two writers with a budget of one    *)
(* (hardware/safety/single_joint_writer.py, single_joint_parameter_        *)
(* writer.py); the plan of the single step (single_joint_test_planner.py). *)
(*                                                                         *)
(* An angle is a number of Units: there are 80 of them in a tick of the    *)
(* encoder and 91 in the step of 0.1 degree, which makes the conversions   *)
(* between ticks and degrees exact.                                        *)
(***************************************************************************)
EXTENDS Integers

CONSTANTS
  Runs,          \* terminals the script is started from
  Resolution,    \* ticks of a turn
  RangeMin, RangeMax,   \* the calibration, in ticks
  Margin,        \* margin_deg, in Units
  Expected       \* the start the operator has confirmed, in ticks

ASSUME JointAssumption ==
  /\ {Resolution, RangeMin, RangeMax, Margin, Expected} \subseteq Nat
  /\ RangeMin < RangeMax /\ RangeMax < Resolution

VARIABLES
  run,            \* per terminal: the script
  position,       \* the joint, in ticks
  goal,           \* Goal_Position
  engaged,        \* the motor follows its goal
  acceleration    \* Acceleration is still what the operator expects

jointVars == <<run, position, goal, engaged, acceleration>>
motor == <<position, goal, engaged, acceleration>>

Unit == 80
Step == 91
Directions == {"positive", "negative"}
Ticks == 0 .. Resolution - 1
Away(a, b) == IF a > b THEN a - b ELSE b - a

-----------------------------------------------------------------------------
(***************************************************************************)
(* The plan of the single step.                                            *)
(***************************************************************************)
RawToDegrees(raw) == Unit * raw - (Unit * (RangeMin + RangeMax)) \div 2

\* int() of a float: towards zero.
DegreesToRaw(degrees) ==
  LET ticks == degrees + (Unit * (RangeMin + RangeMax)) \div 2
  IN IF ticks >= 0 THEN ticks \div Unit ELSE -((-ticks) \div Unit)

Target(degrees, direction) == IF direction = "positive" THEN degrees + Step ELSE degrees - Step

InnerBand(degrees) ==
  RawToDegrees(RangeMin) + Margin <= degrees /\ degrees <= RawToDegrees(RangeMax) - Margin

InTurn(degrees) == 2 * Away(degrees, 0) <= Unit * (Resolution - 1)

\* The raw position and the angle come from two reads.
PlanPasses(raw, degrees, direction) ==
  LET target == Target(degrees, direction)
  IN /\ InnerBand(degrees) /\ InnerBand(target) /\ InTurn(target)
     /\ DegreesToRaw(target) \in Ticks
     /\ Away(DegreesToRaw(target), raw) \in 1 .. 2

\* Mutant of ExpectedStart: the position is compared with the motor's goal, not
\* with what the operator has confirmed.
ExpectedGoal(raw) == Away(raw, goal) <= 2

\* check_expected_start_matches with --expected-start-raw.
ExpectedStart(raw) == Away(raw, Expected) <= 2

\* Mutant of Readback: the sign of the command is not compared.
ReadbackDistance(command, actual) ==
  CASE actual = 0 -> "NO_MOTION"
    [] Away(actual, 0) > 4 -> "OVERSHOOT"
    [] OTHER -> "PASS"

\* classify_readback
Readback(command, actual) ==
  IF actual = 0 THEN "NO_MOTION"
  ELSE IF (command > 0) # (actual > 0) /\ command # 0 THEN "DIRECTION_MISMATCH"
  ELSE IF Away(actual, 0) > 4 THEN "OVERSHOOT"
  ELSE "PASS"

-----------------------------------------------------------------------------
\* The modes share nothing but the bus: the terminals of a behaviour are of one mode.
NotStarted(mode) ==
       [phase |-> "idle", mode |-> mode, direction |-> "positive", raw |-> 0, target |-> 0,
        budget |-> 0, still |-> TRUE, moved |-> 0, verdict |-> "none"]

JointInit ==
  /\ \E mode \in {"armed", "acceleration"} : run = [r \in Runs |-> NotStarted(mode)]
  /\ position \in Ticks /\ goal = position
  /\ engaged \in BOOLEAN /\ acceleration = TRUE

At(r, phase) == run[r].phase = phase
Set(r, record) == run' = [run EXCEPT ![r] = record]
OnBus(r) == run[r].phase \in {"raw", "degrees", "write", "readback", "leave"}
Blocks(r) == Set(r, [NotStarted(run[r].mode) EXCEPT !.phase = "leave", !.verdict = "BLOCKED"])
Ends(r, verdict, moved) ==
  Set(r, [run[r] EXCEPT !.phase = "leave", !.verdict = verdict, !.moved = moved, !.raw = 0, !.target = 0])

\* Flags, expected start and arguments are in order, and nobody has the port.
PortChecked(r) ==
  /\ At(r, "idle")
  /\ \A other \in Runs \ {r} : ~OnBus(other)
  /\ \E direction \in IF run[r].mode = "armed" THEN Directions ELSE {"positive"} :
       Set(r, [run[r] EXCEPT !.phase = "connect", !.direction = direction])
  /\ UNCHANGED motor

\* The port may meanwhile have been opened by the other terminal.
Connects(r) ==
  /\ At(r, "connect")
  /\ Set(r, [run[r] EXCEPT !.phase = "raw"]) \/ Set(r, NotStarted(run[r].mode))
  /\ UNCHANGED motor

\* execute_single_armed_write: the two reads and what is decided from them.
ReadsRaw(r) ==
  /\ At(r, "raw") /\ run[r].mode = "armed"
  /\ Set(r, [run[r] EXCEPT !.phase = "degrees", !.raw = position]) \/ Blocks(r)
  /\ UNCHANGED motor

Plans(r) ==
  /\ At(r, "degrees")
  /\ LET degrees == RawToDegrees(position)
         direction == run[r].direction
     IN \/ /\ ExpectedStart(run[r].raw) /\ PlanPasses(run[r].raw, degrees, direction)
           /\ Set(r, [run[r] EXCEPT !.phase = "write", !.target = DegreesToRaw(Target(degrees, direction))])
        \/ Blocks(r)
  /\ UNCHANGED motor

BudgetLeft(r) == run[r].budget < 1
Spent(r, phase) == [run[r] EXCEPT !.budget = @ + 1, !.phase = phase]
WriteFailed(r) == Set(r, [Spent(r, "leave") EXCEPT !.verdict = "WRITE_FAILED", !.raw = 0, !.target = 0])

\* write_goal_position_once(): what raises may have reached the motor.
Commands(r) ==
  /\ At(r, "write") /\ run[r].mode = "armed" /\ BudgetLeft(r)
  /\ \/ Set(r, Spent(r, "readback")) /\ goal' = run[r].target
     \/ WriteFailed(r) /\ goal' \in {goal, run[r].target}
  /\ UNCHANGED <<position, engaged, acceleration>>

\* After the one wait.
ReadsBack(r) ==
  /\ At(r, "readback") /\ run[r].mode = "armed"
  /\ LET moved == position - run[r].raw
     IN \/ Ends(r, Readback(run[r].target - run[r].raw, moved), moved)
        \/ Ends(r, "READBACK_FAILED", 0)
  /\ UNCHANGED motor

\* execute_single_parameter_write
ReadsAcceleration(r) ==
  /\ At(r, "raw") /\ run[r].mode = "acceleration"
  /\ \/ acceleration /\ Set(r, [run[r] EXCEPT !.phase = "write"])
     \/ Blocks(r)
  /\ UNCHANGED motor

WritesAcceleration(r) ==
  /\ At(r, "write") /\ run[r].mode = "acceleration" /\ BudgetLeft(r)
  /\ \/ Set(r, Spent(r, "readback")) /\ acceleration' = FALSE
     \/ WriteFailed(r) /\ acceleration' \in {acceleration, FALSE}
  /\ UNCHANGED <<position, goal, engaged>>

ReadsAccelerationBack(r) ==
  /\ At(r, "readback") /\ run[r].mode = "acceleration"
  /\ Ends(r, IF acceleration THEN "READBACK_MISMATCH" ELSE "PASS", 0) \/ Ends(r, "READBACK_FAILED", 0)
  /\ UNCHANGED motor

\* finally: disconnect(disable_torque=False) leaves the motor as it is.
Leaves(r) ==
  /\ At(r, "leave")
  /\ Set(r, NotStarted(run[r].mode))
  /\ UNCHANGED motor

-----------------------------------------------------------------------------
\* The joint goes to its goal; without torque it is moved by hand.  `still` is
\* history: it did not move between the two reads.
JointMoves ==
  /\ IF engaged
     THEN position # goal /\ position' = position + (IF goal > position THEN 1 ELSE -1)
     ELSE position' \in {position - 1, position + 1} \cap Ticks
  /\ run' = [r \in Runs |-> [run[r] EXCEPT !.still = @ /\ ~At(r, "degrees")]]
  /\ UNCHANGED <<goal, engaged, acceleration>>

ScriptStep(r) ==
  \/ PortChecked(r) \/ Connects(r) \/ ReadsRaw(r) \/ Plans(r) \/ Commands(r) \/ ReadsBack(r)
  \/ ReadsAcceleration(r) \/ WritesAcceleration(r) \/ ReadsAccelerationBack(r) \/ Leaves(r)

JointNext == JointMoves \/ \E r \in Runs : ScriptStep(r)

JointSpec == JointInit /\ [][JointNext]_jointVars

-----------------------------------------------------------------------------
JointTypeOK ==
  /\ \A r \in Runs : run[r].raw \in Ticks /\ run[r].target \in Ticks /\ run[r].budget \in 0 .. 1
  /\ position \in Ticks /\ goal \in Ticks /\ engaged \in BOOLEAN /\ acceleration \in BOOLEAN

\* However often the same command is repeated, from two terminals at once or after
\* writes whose fate is unknown: the goal is never commanded further from the start
\* the operator confirmed than the tolerance and one command allow.
StaysNearConfirmedStart ==
  \A r \in Runs : At(r, "write") /\ run[r].mode = "armed" =>
    Away(run[r].target, Expected) <= 4

\* PASS: the joint has moved in the direction asked for and by no more than four
\* ticks, whoever else commands or moves it, unless it moved between the two reads
\* of the start (the angle of one position is then compared with the ticks of
\* another, and a command against the direction asked for can pass).
PassIsTheMotionAsked ==
  \A r \in Runs : run[r].mode = "armed" /\ run[r].verdict = "PASS" /\ run[r].still =>
    /\ (run[r].moved > 0) = (run[r].direction = "positive")
    /\ Away(run[r].moved, 0) <= 4

JointSafe == StaysNearConfirmedStart /\ PassIsTheMotionAsked
=============================================================================
