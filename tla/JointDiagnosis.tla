--------------------------- MODULE JointDiagnosis ---------------------------
(***************************************************************************)
(* The read-only modes of the test of one joint                            *)
(* (scripts/run_single_joint_hardware_test.py: inspect-only, dry-run and   *)
(* the three diagnostics) and what they conclude from what they read       *)
(* (hardware/safety/single_joint_register_diagnostic.py,                   *)
(* single_joint_servo_parameter_diagnostic.py,                             *)
(* all_joint_parameter_diagnostic.py, build_dry_run_plan).  They read one  *)
(* register after the other while the servos go on living, any read can    *)
(* fail, and the conclusion is drawn from what was read.                   *)
(***************************************************************************)
EXTENDS Integers, Sequences

CONSTANTS
  Resolution, RangeMin, RangeMax, Margin, Expected,   \* as in SingleJoint
  MaxServoChanges, \* changes of a servo during one diagnosis
  MaxUnread,       \* reads that fail during one diagnosis
  MaxPlanned       \* steps of a dry run

ASSUME DiagnosisAssumption ==
  /\ {Resolution, RangeMin, RangeMax, Margin, Expected, MaxServoChanges, MaxUnread, MaxPlanned} \subseteq Nat
  /\ RangeMax < Resolution /\ Expected + 1 < Resolution

VARIABLES
  diag,           \* the script
  servo,          \* per servo: torque, goal, present, blocked, fault, odd parameters
  changes

diagnosisVars == <<diag, servo, changes>>

\* The angles and the plan of the armed step; its script is not started here.
Planner == INSTANCE SingleJoint WITH
  Runs <- {}, run <- <<>>, position <- 0, goal <- 0, engaged <- FALSE, acceleration <- FALSE

Ticks == Planner!Ticks
Directions == Planner!Directions
InnerBand(degrees) == Planner!InnerBand(degrees)
InTurn(degrees) == Planner!InTurn(degrees)
RawToDegrees(raw) == Planner!RawToDegrees(raw)

Servos == {"wrist_roll", "elbow_flex"}
Parameters == {"Operating_Mode", "Dead_Zone", "Minimum_Startup_Force", "Acceleration", "Torque_Limit"}
Unread == -1
Required == {"Torque_Enable", "Goal_Position", "Present_Position", "Moving"}

\* A servo with torque goes to its goal unless something blocks it.
InMotion(s) == servo[s].torque /\ servo[s].goal # servo[s].present /\ ~servo[s].blocked
DoesNotReact(s) == servo[s].torque /\ servo[s].goal # servo[s].present /\ servo[s].blocked

Flag(condition) == IF condition THEN 1 ELSE 0

\* A parameter is 1 when it restricts the motion; Acceleration restricts it when
\* the register is zero.
Register(s, r) ==
  CASE r = "Torque_Enable" -> Flag(servo[s].torque)
    [] r = "Goal_Position" -> servo[s].goal
    [] r \in {"Present_Position", "raw", "degrees"} -> servo[s].present
    [] r = "Moving" -> Flag(InMotion(s))
    [] r = "Status" -> Flag(servo[s].fault)
    [] OTHER -> Flag(r \in servo[s].odd)

\* Mutant of Order: Status is read before the other registers.
StatusFirst(mode) ==
  CASE mode = "dry-run" -> <<{"raw"}, {"degrees"}>>
    [] mode = "register-diagnostic" ->
         <<{"Status"}, {"Torque_Enable"}, {"Goal_Position"}, {"Present_Position"}, {"Moving"}>>
    [] mode = "servo-parameter-diagnostic" -> <<Required, Parameters>>
    [] OTHER -> <<Required, {"Acceleration"}>>

\* Lists of registers, read one list after the other; those of one list come from a
\* Python set and are read in any order.  Of the optional registers only those a
\* conclusion depends on are kept.  inspect-only is the first half of dry-run.
Order(mode) ==
  CASE mode = "dry-run" -> <<{"raw"}, {"degrees"}>>
    [] mode = "register-diagnostic" ->
         <<{"Torque_Enable"}, {"Goal_Position"}, {"Present_Position"}, {"Moving"}, {"Status"}>>
    [] mode = "servo-parameter-diagnostic" -> <<Required, Parameters>>
    [] OTHER -> <<Required, {"Acceleration"}>>

-----------------------------------------------------------------------------
(***************************************************************************)
(* The conclusions, from what was read.                                    *)
(***************************************************************************)
Missing(seen, registers) == \E r \in registers : seen[r] = Unread

\* Mutant of RegisterVerdict: the joint that still moves is not told apart.
MovingNotAsked(seen, expected) ==
  IF Missing(seen, Required) THEN "UNKNOWN"
  ELSE IF seen["Status"] = 1 THEN "FAULT_OR_PROTECTION"
  ELSE IF seen["Torque_Enable"] = 0 THEN "TORQUE_DISABLED"
  ELSE IF expected # Unread /\ seen["Goal_Position"] # expected THEN "GOAL_NOT_LATCHED"
  ELSE IF seen["Goal_Position"] # seen["Present_Position"] THEN "COMMAND_LATCHED_BUT_NO_MOTION"
  ELSE "UNKNOWN"

\* classify_diagnostic: the first that applies.
RegisterVerdict(seen, expected) ==
  IF Missing(seen, Required) THEN "UNKNOWN"
  ELSE IF seen["Status"] = 1 THEN "FAULT_OR_PROTECTION"
  ELSE IF seen["Torque_Enable"] = 0 THEN "TORQUE_DISABLED"
  ELSE IF expected # Unread /\ seen["Goal_Position"] # expected THEN "GOAL_NOT_LATCHED"
  ELSE IF seen["Moving"] = 1 THEN "MOTOR_STILL_MOVING"
  ELSE IF seen["Goal_Position"] # seen["Present_Position"] THEN "COMMAND_LATCHED_BUT_NO_MOTION"
  ELSE "UNKNOWN"

\* classify_servo_parameters: every parameter that restricts; none is needed for
\* "no cause found".
ParameterVerdicts(seen) ==
  LET restricting == {p \in Parameters : seen[p] = 1}
  IN IF Missing(seen, Required) THEN {"UNKNOWN"}
     ELSE IF restricting = {} THEN {"NO_CONFIGURATION_CAUSE_FOUND"}
     ELSE restricting

\* find_stuck_joints, for one joint.
Stuck(seen) ==
  /\ seen["Torque_Enable"] = 1 /\ seen["Moving"] = 0
  /\ Unread \notin {seen["Goal_Position"], seen["Present_Position"]}
  /\ seen["Goal_Position"] # seen["Present_Position"]

\* Mutant of Summary: a joint whose acceleration was not read counts as configured.
UnreadIsConfigured(seen) ==
  [complete |-> ~Missing(seen, Required), zero |-> seen["Acceleration"] = 1, stuck |-> Stuck(seen)]

\* What is kept of a joint's snapshot.
Summary(seen) ==
  [complete |-> ~Missing(seen, Required \cup {"Acceleration"}),
   zero |-> seen["Acceleration"] = 1, stuck |-> Stuck(seen)]

\* classify_acceleration_state
AccelerationVerdict(found) ==
  LET zero == {s \in Servos : found[s].zero}
  IN IF \E s \in Servos : ~found[s].complete THEN "READ_INCOMPLETE"
     ELSE IF zero = Servos THEN "ALL_ACCELERATION_ZERO"
     ELSE IF zero = {"wrist_roll"} THEN "WRIST_ROLL_ONLY_ZERO"
     ELSE IF zero = {} THEN "ALL_ACCELERATION_CONFIGURED"
     ELSE "MIXED_ACCELERATION_STATE"

PlannedTarget(degrees, direction, k) ==
  IF direction = "positive" THEN degrees + k * Planner!Step ELSE degrees - k * Planner!Step

\* Mutant of DryRunPasses: the start may be outside the band when the way leads
\* back into it.
InwardsPasses(degrees, direction, steps) ==
  \A k \in 1 .. steps :
    LET target == PlannedTarget(degrees, direction, k) IN InnerBand(target) /\ InTurn(target)

\* build_dry_run_plan: one direction, every step in the band, or all is BLOCKED.
DryRunPasses(degrees, direction, steps) ==
  /\ InnerBand(degrees)
  /\ \A k \in 1 .. steps :
       LET target == PlannedTarget(degrees, direction, k) IN InnerBand(target) /\ InTurn(target)

\* compute_next_step_candidates: three ticks from the position that was read.
SafeCandidates(raw) ==
  {direction \in Directions :
     LET target == RawToDegrees(IF direction = "positive" THEN raw + 3 ELSE raw - 3)
     IN InTurn(target) /\ InnerBand(target)}

-----------------------------------------------------------------------------
NoSummary == [complete |-> FALSE, zero |-> FALSE, stuck |-> FALSE]
Blank(mode) == [r \in UNION {Order(mode)[i] : i \in DOMAIN Order(mode)} |-> Unread]
AtRest == [torque |-> FALSE, goal |-> Expected, present |-> Expected,
           blocked |-> FALSE, fault |-> FALSE, odd |-> {}]

\* Servos that stand, are on their way or are blocked.
OddSets(mode) ==
  IF mode = "servo-parameter-diagnostic" THEN {{}} \cup {{q} : q \in Parameters}
  ELSE IF mode = "all-joint-parameter-diagnostic" THEN {{}, {"Acceleration"}} ELSE {{}}
ServosIn(mode) ==
  [torque : BOOLEAN, goal : {Expected, Expected + 1},
   present : IF mode = "dry-run" THEN Ticks ELSE {Expected},
   blocked : BOOLEAN, fault : {FALSE}, odd : OddSets(mode)]

\* What a mode does not use is fixed.
DiagnosisInit ==
  /\ \E mode \in {"dry-run", "register-diagnostic", "servo-parameter-diagnostic", "all-joint-parameter-diagnostic"},
        direction \in Directions, steps \in 1 .. MaxPlanned, override \in {"none", "one", "both"},
        expected \in {Unread, Expected + 1} :
       /\ mode # "dry-run" => direction = "positive" /\ steps = 1 /\ override = "none"
       /\ mode # "register-diagnostic" => expected = Unread
       /\ diag = [phase |-> "start", mode |-> mode, direction |-> direction, steps |-> steps,
                  override |-> override, expected |-> expected, loaded |-> FALSE, connected |-> FALSE,
                  joint |-> "wrist_roll", list |-> 1, asked |-> {}, seen |-> Blank(mode), unread |-> 0,
                  changed |-> FALSE, found |-> [s \in Servos |-> NoSummary], result |-> {}]
       /\ \E wrist, elbow \in ServosIn(mode) :
            /\ mode = "dry-run" => ~wrist.torque /\ wrist.goal = Expected
            /\ mode # "all-joint-parameter-diagnostic" => elbow = [AtRest EXCEPT !.present = elbow.present]
            /\ elbow.present = Expected
            /\ \A one \in {wrist, elbow} : one.blocked => one.torque /\ one.goal # one.present
            /\ servo = [s \in Servos |-> IF s = "wrist_roll" THEN wrist ELSE elbow]
  /\ changes = 0

InPhase(phase) == diag.phase = phase
Becomes(record) == diag' = record

\* _run_dry_run: half an override is refused only now, after the hardware was read;
\* a whole one (the middle of the range) has no range without a calibration (KeyError).
DryRunResult(d) ==
  CASE d.override = "one" -> "refused"
    [] d.override = "both" /\ ~d.loaded -> "raised"
    [] d.override = "none" /\ ~d.connected -> "BLOCKED"
    [] OTHER -> IF DryRunPasses(IF d.override = "both" THEN 0 ELSE RawToDegrees(d.seen["degrees"]),
                                d.direction, d.steps)
                THEN "PASS" ELSE "BLOCKED"

RegisterReport(d) == {IF d.connected THEN RegisterVerdict(d.seen, d.expected) ELSE "UNKNOWN"}

ParameterReport(d) ==
  IF ~d.connected THEN {}
  ELSE ParameterVerdicts(d.seen) \cup
       (IF d.seen["Present_Position"] = Unread THEN {} ELSE SafeCandidates(d.seen["Present_Position"]))

JointsReport(d) == IF d.connected THEN {AccelerationVerdict(d.found)} ELSE {}

Conclusion(d) ==
  CASE d.mode = "dry-run" -> {DryRunResult(d)}
    [] d.mode = "register-diagnostic" -> RegisterReport(d)
    [] d.mode = "servo-parameter-diagnostic" -> ParameterReport(d)
    [] OTHER -> JointsReport(d)

\* finally: disconnect(disable_torque=False), then the conclusion.
Concludes(d) == Becomes([d EXCEPT !.phase = "done", !.result = Conclusion(d)])

\* One motor is spoken to only when it is the one of the calibration; all of them
\* are addressed by the calibration's own ids.
MayReadOne(busy, calibration) == ~busy /\ calibration = "fine"
MayReadAll(busy, calibration) == ~busy /\ calibration # "unreadable"

\* The port is asked for, the calibration is read.
Prepares ==
  /\ InPhase("start")
  /\ \E busy \in BOOLEAN, calibration \in {"fine", "unreadable", "other_motor"} :
       LET loaded == [diag EXCEPT !.loaded = calibration # "unreadable"]
       IN IF IF diag.mode = "all-joint-parameter-diagnostic"
             THEN MayReadAll(busy, calibration) ELSE MayReadOne(busy, calibration)
          THEN Becomes([loaded EXCEPT !.phase = "connect"])
          ELSE Concludes(loaded)
  /\ UNCHANGED <<servo, changes>>

\* connect() opens the port and asks for the motor; it writes nothing.
Opens ==
  /\ InPhase("connect")
  /\ Becomes([diag EXCEPT !.phase = "read", !.connected = TRUE]) \/ Concludes(diag)
  /\ UNCHANGED <<servo, changes>>

\* After a register: the next one, the next joint or the end.
Continues(d) ==
  LET order == Order(d.mode)
      summed == [d EXCEPT !.found[d.joint] = Summary(d.seen)]
  IN IF ~(order[d.list] \subseteq d.asked) THEN Becomes(d)
     ELSE IF d.list < Len(order) THEN Becomes([d EXCEPT !.list = @ + 1, !.asked = {}])
     ELSE IF d.mode # "all-joint-parameter-diagnostic" THEN Concludes(d)
     ELSE IF d.joint = "wrist_roll"
          THEN Becomes([summed EXCEPT !.joint = "elbow_flex", !.list = 1, !.asked = {}, !.seen = Blank(d.mode)])
     ELSE Concludes(summed)

\* One register.  A diagnostic notes a failed read and goes on; inspect-only and
\* dry-run give up.
ReadsRegister ==
  /\ InPhase("read")
  /\ \E r \in Order(diag.mode)[diag.list] \ diag.asked :
       LET asked == [diag EXCEPT !.asked = @ \cup {r}]
       IN \/ Continues([asked EXCEPT !.seen[r] = Register(diag.joint, r)])
          \/ IF diag.mode = "dry-run"
             THEN Concludes([diag EXCEPT !.connected = FALSE])
             ELSE diag.unread < MaxUnread /\ Continues([asked EXCEPT !.unread = @ + 1])
  /\ UNCHANGED <<servo, changes>>

\* Meanwhile a servo arrives, trips, is commanded by another program or moved by
\* hand.  `changed` is history: it happened after the first read.
ServoChanges ==
  /\ InPhase("read") /\ changes < MaxServoChanges
  /\ changes' = changes + 1
  /\ \E s \in IF diag.mode = "all-joint-parameter-diagnostic" THEN Servos ELSE {"wrist_roll"} :
       \/ InMotion(s) /\ servo' = [servo EXCEPT ![s].present = servo[s].goal]
       \/ ~servo[s].fault /\ servo' = [servo EXCEPT ![s].fault = TRUE, ![s].torque = FALSE, ![s].blocked = FALSE]
       \/ /\ ~servo[s].blocked
          /\ \E g \in {Expected, Expected + 1} \ {servo[s].goal} : servo' = [servo EXCEPT ![s].goal = g]
       \/ /\ ~servo[s].torque
          /\ \E p \in {servo[s].present - 1, servo[s].present + 1} \cap Ticks :
               servo' = [servo EXCEPT ![s].present = p]
  /\ diag' = [diag EXCEPT !.changed = @ \/ diag.list > 1 \/ diag.asked # {} \/ diag.joint # "wrist_roll"]

DiagnosisNext == Prepares \/ Opens \/ ReadsRegister \/ ServoChanges

DiagnosisSpec == DiagnosisInit /\ [][DiagnosisNext]_diagnosisVars

-----------------------------------------------------------------------------
DiagnosisTypeOK ==
  /\ diag.phase \in {"start", "connect", "read", "done"}
  /\ \A s \in Servos : servo[s].present \in Ticks
  /\ changes \in 0 .. MaxServoChanges

Reported(mode) == InPhase("done") /\ diag.mode = mode
Says(verdict) == verdict \in diag.result
Wrist == servo["wrist_roll"]

\* A register diagnosis of a servo that did not change under it tells the truth:
\* what it calls without torque, on its way, not latched or not reacting is.
RegistersTellTheTruth ==
  Reported("register-diagnostic") /\ ~diag.changed =>
    /\ Says("TORQUE_DISABLED") => ~Wrist.torque
    /\ Says("GOAL_NOT_LATCHED") => Wrist.torque /\ Wrist.goal # diag.expected
    /\ Says("MOTOR_STILL_MOVING") => InMotion("wrist_roll")
    /\ Says("COMMAND_LATCHED_BUT_NO_MOTION") => DoesNotReact("wrist_roll")

\* And of one that changed: a motor that tripped at whatever moment of the reading
\* is reported as such, unless its Status could not be read.
TripIsReported ==
  Reported("register-diagnostic") /\ diag.connected /\ Wrist.fault =>
    Says("FAULT_OR_PROTECTION") \/ diag.unread > 0

\* What a dry run passes from a start that was read standing still is a motion the
\* armed run does not refuse: its own checks hold at that start.
DryRunForetellsArmed ==
  Reported("dry-run") /\ diag.override = "none" /\ ~diag.changed /\ Says("PASS") =>
    Planner!PlanPasses(Wrist.present, RawToDegrees(Wrist.present), diag.direction)

\* Joints that did not change: those named as stuck are, and the acceleration
\* verdict is that of the joints, or one register is missing.
JointsTellTheTruth ==
  Reported("all-joint-parameter-diagnostic") /\ diag.connected /\ ~diag.changed =>
    /\ \A s \in Servos : diag.found[s].stuck => DoesNotReact(s)
    /\ diag.unread = 0 => \A s \in Servos : DoesNotReact(s) => diag.found[s].stuck
    /\ \/ diag.unread > 0 /\ diag.result = {"READ_INCOMPLETE"}
       \/ diag.result = {AccelerationVerdict(
             [s \in Servos |-> [complete |-> TRUE, zero |-> "Acceleration" \in servo[s].odd, stuck |-> FALSE]])}

\* The parameters named as restricting are those that are, or one could not be read.
ParametersTellTheTruth ==
  Reported("servo-parameter-diagnostic") /\ diag.connected /\ diag.unread = 0 =>
    diag.result \cap Parameters = Wrist.odd

DiagnosesTrue ==
  /\ RegistersTellTheTruth /\ TripIsReported /\ JointsTellTheTruth /\ ParametersTellTheTruth
  /\ DryRunForetellsArmed
=============================================================================
