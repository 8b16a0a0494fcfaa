-------------------------- MODULE ObserversProofs ---------------------------
(***************************************************************************)
(* What the observers of the arms guarantee for every value of their       *)
(* constants: the state server and its two arms, the cameras and their     *)
(* sessions, the viewer and its log of events; and that the diagnosis of a *)
(* joint and the analysis of the recorded ranges conclude what is true of  *)
(* what was there.  Each part has an inductive invariant of its own, kept  *)
(* by the steps of its module; the theorems at the end put them together   *)
(* for the specification that is model-checked.                            *)
(***************************************************************************)
EXTENDS Observers, FiniteSetTheorems, WellFoundedInduction, TLAPS

(***************************************************************************)
(* The diagnosis of a joint.                                               *)
(***************************************************************************)
ReadOnlyModes == {"dry-run", "register-diagnostic", "servo-parameter-diagnostic", "all-joint-parameter-diagnostic"}
Registers == Required \cup Parameters \cup {"Status", "raw", "degrees"}
Regs(mode) == UNION {Order(mode)[i] : i \in DOMAIN Order(mode)}
Summaries == [complete : BOOLEAN, zero : BOOLEAN, stuck : BOOLEAN]

ServoState == [torque : BOOLEAN, goal : {Expected, Expected + 1}, present : Ticks, blocked : BOOLEAN,
               fault : BOOLEAN, odd : SUBSET Parameters]
Results == Parameters \cup Directions \cup
           {"refused", "raised", "BLOCKED", "PASS",
            "UNKNOWN", "FAULT_OR_PROTECTION", "TORQUE_DISABLED", "GOAL_NOT_LATCHED", "MOTOR_STILL_MOVING",
            "COMMAND_LATCHED_BUT_NO_MOTION", "NO_CONFIGURATION_CAUSE_FOUND", "READ_INCOMPLETE",
            "ALL_ACCELERATION_ZERO", "WRIST_ROLL_ONLY_ZERO", "ALL_ACCELERATION_CONFIGURED",
            "MIXED_ACCELERATION_STATE"}
Scripts == [phase : {"start", "connect", "read", "done"}, mode : ReadOnlyModes, direction : Directions,
            steps : Nat \ {0}, override : {"none", "one", "both"}, expected : Int, loaded : BOOLEAN,
            connected : BOOLEAN, joint : Servos, list : Nat, asked : SUBSET Registers,
            seen : UNION {[Regs(mode) -> Int] : mode \in ReadOnlyModes}, unread : Nat, changed : BOOLEAN,
            found : [Servos -> Summaries], result : SUBSET Results]

\* A register of a servo as it is.
MovesNow(one) == one.torque /\ one.goal # one.present /\ ~one.blocked
HangsNow(one) == one.torque /\ one.goal # one.present /\ one.blocked
RegisterOf(one, r) ==
  CASE r = "Torque_Enable" -> Flag(one.torque)
    [] r = "Goal_Position" -> one.goal
    [] r \in {"Present_Position", "raw", "degrees"} -> one.present
    [] r = "Moving" -> Flag(MovesNow(one))
    [] r = "Status" -> Flag(one.fault)
    [] OTHER -> Flag(r \in one.odd)

ReadSoFar(d) == (UNION {Order(d.mode)[i] : i \in 1 .. (d.list - 1)}) \cup d.asked

\* What was read of a servo is right of it as it is, unless it changed meanwhile;
\* its parameters do not change.
Told(d, one) ==
  /\ ~d.changed => \A r \in Regs(d.mode) : d.seen[r] \in {Unread, RegisterOf(one, r)}
  /\ \A p \in Parameters \cap Regs(d.mode) : d.seen[p] \in {Unread, Flag(p \in one.odd)}
  /\ d.list = 1 /\ d.asked = {} => \A r \in Regs(d.mode) : d.seen[r] = Unread
  /\ d.unread = 0 => \A r \in ReadSoFar(d) : d.seen[r] # Unread

Summed(d, s, one) ==
  /\ ~d.changed => /\ d.found[s].stuck => HangsNow(one)
                   /\ d.unread = 0 /\ HangsNow(one) => d.found[s].stuck
  /\ d.found[s].complete => d.found[s].zero = ("Acceleration" \in one.odd)
  /\ d.unread = 0 => d.found[s].complete

StatusTold(d, one) == d.unread > 0 \/ d.seen["Status"] = Flag(one.fault)

ReadBooks(d, arm) ==
  /\ d.connected /\ d.list \in 1 .. Len(Order(d.mode)) /\ d.asked \subseteq Order(d.mode)[d.list]
  /\ d.seen \in [Regs(d.mode) -> Int]
  /\ Told(d, arm[d.joint])
  /\ d.mode = "dry-run" => d.unread = 0
  /\ d.mode # "all-joint-parameter-diagnostic" => d.joint = "wrist_roll"
  /\ d.joint = "elbow_flex" => Summed(d, "wrist_roll", arm["wrist_roll"])
  /\ d.mode = "register-diagnostic" /\ "Status" \in d.asked => StatusTold(d, arm["wrist_roll"])

\* Between two reads something is left to read.
Open(d) == ~(Order(d.mode)[d.list] \subseteq d.asked)

DoneBooks(d, arm) ==
  /\ d.result = Conclusion(d)
  /\ d.connected /\ d.mode # "all-joint-parameter-diagnostic" =>
       /\ d.seen \in [Regs(d.mode) -> Int] /\ Told(d, arm["wrist_roll"]) /\ ReadSoFar(d) = Regs(d.mode)
       /\ d.mode = "dry-run" => d.unread = 0
       /\ d.mode = "register-diagnostic" => StatusTold(d, arm["wrist_roll"])
  /\ d.connected /\ d.mode = "all-joint-parameter-diagnostic" => \A s \in Servos : Summed(d, s, arm[s])

\* Before the first read.
Unasked(d) ==
  /\ ~d.connected /\ d.joint = "wrist_roll" /\ d.list = 1 /\ d.asked = {} /\ d.unread = 0
  /\ d.seen = Blank(d.mode)

DiagnosisInvariant ==
  /\ diag \in Scripts /\ servo \in [Servos -> ServoState] /\ changes \in 0 .. MaxServoChanges
  /\ diag.phase \in {"start", "connect"} => Unasked(diag)
  /\ diag.phase = "read" => ReadBooks(diag, servo) /\ Open(diag)
  /\ diag.phase = "done" => DoneBooks(diag, servo)

-----------------------------------------------------------------------------
\* The lists of the modes.
LEMMA Orders ==
  /\ Order("dry-run") = <<{"raw"}, {"degrees"}>> /\ Len(Order("dry-run")) = 2
  /\ Order("register-diagnostic") =
       <<{"Torque_Enable"}, {"Goal_Position"}, {"Present_Position"}, {"Moving"}, {"Status"}>>
  /\ Len(Order("register-diagnostic")) = 5
  /\ Order("servo-parameter-diagnostic") = <<Required, Parameters>> /\ Len(Order("servo-parameter-diagnostic")) = 2
  /\ Order("all-joint-parameter-diagnostic") = <<Required, {"Acceleration"}>>
  /\ Len(Order("all-joint-parameter-diagnostic")) = 2
BY DEF Order

\* A mode reads at least one list, each of them some of its registers.
LEMMA OrderIsList ==
  ASSUME NEW mode \in ReadOnlyModes
  PROVE  /\ DOMAIN Order(mode) = 1 .. Len(Order(mode)) /\ Len(Order(mode)) \in Nat /\ Len(Order(mode)) >= 1
         /\ \A i \in 1 .. Len(Order(mode)) : Order(mode)[i] # {} /\ Order(mode)[i] \subseteq Registers
         /\ Regs(mode) = UNION {Order(mode)[i] : i \in 1 .. Len(Order(mode))}
<1>1. /\ DOMAIN Order(mode) = 1 .. Len(Order(mode)) /\ Len(Order(mode)) \in Nat /\ Len(Order(mode)) >= 1
  BY Orders DEF ReadOnlyModes
<1>0. \A i \in 1 .. 2 : i = 1 \/ i = 2
  OBVIOUS
<1>2. \A i \in 1 .. Len(Order(mode)) : Order(mode)[i] # {} /\ Order(mode)[i] \subseteq Registers
  <2>1. CASE mode = "dry-run"
    <3>1. Order(mode)[1] = {"raw"} /\ Order(mode)[2] = {"degrees"} /\ Len(Order(mode)) = 2
      BY <2>1, Orders
    <3> QED
      BY <1>0, <3>1 DEF Registers
  <2>2. CASE mode = "register-diagnostic"
    <3>1. \A i \in 1 .. 5 : i = 1 \/ i = 2 \/ i = 3 \/ i = 4 \/ i = 5
      OBVIOUS
    <3>2. /\ Order(mode)[1] = {"Torque_Enable"} /\ Order(mode)[2] = {"Goal_Position"}
          /\ Order(mode)[3] = {"Present_Position"} /\ Order(mode)[4] = {"Moving"} /\ Order(mode)[5] = {"Status"}
          /\ Len(Order(mode)) = 5
      BY <2>2, Orders
    <3> QED
      BY <3>1, <3>2 DEF Registers, Required
  <2>3. CASE mode = "servo-parameter-diagnostic"
    <3>1. Order(mode)[1] = Required /\ Order(mode)[2] = Parameters /\ Len(Order(mode)) = 2
      BY <2>3, Orders
    <3>2. Required # {} /\ Parameters # {} /\ Required \subseteq Registers /\ Parameters \subseteq Registers
      BY DEF Registers, Required, Parameters
    <3> QED
      BY <1>0, <3>1, <3>2
  <2>4. CASE mode = "all-joint-parameter-diagnostic"
    <3>1. Order(mode)[1] = Required /\ Order(mode)[2] = {"Acceleration"} /\ Len(Order(mode)) = 2
      BY <2>4, Orders
    <3>2. Required # {} /\ Required \subseteq Registers /\ "Acceleration" \in Registers
      BY DEF Registers, Required, Parameters
    <3> QED
      BY <1>0, <3>1, <3>2
  <2> QED
    BY <2>1, <2>2, <2>3, <2>4 DEF ReadOnlyModes
<1> QED
  BY <1>1, <1>2 DEF Regs

\* The registers of the modes.
LEMMA RegsOfModes ==
  /\ Regs("dry-run") = {"raw", "degrees"}
  /\ Regs("register-diagnostic") = Required \cup {"Status"}
  /\ Regs("servo-parameter-diagnostic") = Required \cup Parameters
  /\ Regs("all-joint-parameter-diagnostic") = Required \cup {"Acceleration"}
<1>1. DOMAIN <<{"raw"}, {"degrees"}>> = 1 .. 2
  OBVIOUS
<1>2. Regs("dry-run") = {"raw", "degrees"}
  BY <1>1, Orders DEF Regs
<1>3. Regs("register-diagnostic") = Required \cup {"Status"}
  BY Orders DEF Regs, Required
<1>4. Regs("servo-parameter-diagnostic") = Required \cup Parameters
  BY Orders DEF Regs
<1>5. Regs("all-joint-parameter-diagnostic") = Required \cup {"Acceleration"}
  BY Orders DEF Regs
<1> QED
  BY <1>2, <1>3, <1>4, <1>5

\* A register that was read is not an unread one.
LEMMA RegisterValues ==
  ASSUME NEW one \in ServoState, NEW r
  PROVE  RegisterOf(one, r) \in Nat /\ Unread \notin Nat /\ Unread \in Int
<1>1. Unread \notin Nat /\ Unread \in Int
  BY DEF Unread
<1>2. one.goal \in Nat /\ one.present \in Nat
  BY DiagnosisAssumption DEF ServoState, Ticks, Planner!Ticks
<1>3. \A condition : Flag(condition) \in Nat
  BY DEF Flag
<1> QED
  BY <1>1, <1>2, <1>3 DEF RegisterOf

\* The model's registers are those of the servo as it is.
LEMMA RegisterIsOf ==
  ASSUME NEW s, NEW r
  PROVE  /\ Register(s, r) = RegisterOf(servo[s], r)
         /\ InMotion(s) = MovesNow(servo[s]) /\ DoesNotReact(s) = HangsNow(servo[s])
BY DEF Register, RegisterOf, InMotion, DoesNotReact, MovesNow, HangsNow

-----------------------------------------------------------------------------
(***************************************************************************)
(* From the books to the conclusions.                                      *)
(***************************************************************************)
\* What was read of a servo that did not change, when no read failed.
LEMMA ToldExactly ==
  ASSUME NEW d, NEW one \in ServoState, Told(d, one), ReadSoFar(d) = Regs(d.mode), d.unread = 0, ~d.changed
  PROVE  \A r \in Regs(d.mode) : d.seen[r] = RegisterOf(one, r)
BY DEF Told

\* The verdict on the registers of a servo that did not change.
LEMMA RegistersRight ==
  ASSUME NEW d, NEW one \in ServoState, Told(d, one), d.mode = "register-diagnostic", ~d.changed, d.expected \in Int
  PROVE  LET verdict == RegisterVerdict(d.seen, d.expected)
         IN /\ verdict = "TORQUE_DISABLED" => ~one.torque
            /\ verdict = "GOAL_NOT_LATCHED" => one.torque /\ one.goal # d.expected
            /\ verdict = "MOTOR_STILL_MOVING" => MovesNow(one)
            /\ verdict = "COMMAND_LATCHED_BUT_NO_MOTION" => HangsNow(one)
<1>1. \A r \in Required : d.seen[r] \in {Unread, RegisterOf(one, r)}
  BY RegsOfModes DEF Told
<1>2. ASSUME ~Missing(d.seen, Required)
      PROVE  /\ d.seen["Torque_Enable"] = Flag(one.torque) /\ d.seen["Goal_Position"] = one.goal
             /\ d.seen["Present_Position"] = one.present /\ d.seen["Moving"] = Flag(MovesNow(one))
  <2>1. \A r \in Required : d.seen[r] = RegisterOf(one, r)
    BY <1>1, <1>2 DEF Missing
  <2>2. d.seen["Torque_Enable"] = Flag(one.torque)
    BY <2>1 DEF Required, RegisterOf
  <2>3. d.seen["Goal_Position"] = one.goal
    BY <2>1 DEF Required, RegisterOf
  <2>4. d.seen["Present_Position"] = one.present
    BY <2>1 DEF Required, RegisterOf
  <2>5. d.seen["Moving"] = Flag(MovesNow(one))
    BY <2>1 DEF Required, RegisterOf
  <2> QED
    BY <2>2, <2>3, <2>4, <2>5
<1>3. one.torque \in BOOLEAN /\ one.blocked \in BOOLEAN
  BY DEF ServoState
<1>4. CASE Missing(d.seen, Required)
  BY <1>4 DEF RegisterVerdict
<1>5. CASE ~Missing(d.seen, Required)
  BY <1>2, <1>3, <1>5 DEF RegisterVerdict, Flag, MovesNow, HangsNow
<1> QED
  BY <1>4, <1>5

\* What is kept of a joint whose registers were all asked for.
LEMMA SummaryRight ==
  ASSUME NEW d, NEW one \in ServoState, Told(d, one), d.mode = "all-joint-parameter-diagnostic",
         ReadSoFar(d) = Regs(d.mode), NEW s, d.found[s] = Summary(d.seen)
  PROVE  Summed(d, s, one) /\ Summary(d.seen) \in Summaries
<1>1. Regs(d.mode) = Required \cup {"Acceleration"}
  BY RegsOfModes
<1>2. one.torque \in BOOLEAN /\ one.blocked \in BOOLEAN /\ one.goal \in Nat /\ one.present \in Nat /\ Unread \notin Nat
  BY DiagnosisAssumption DEF ServoState, Ticks, Planner!Ticks, Unread
<1>3. /\ Summary(d.seen).complete = ~Missing(d.seen, Required \cup {"Acceleration"})
      /\ Summary(d.seen).zero = (d.seen["Acceleration"] = 1)
      /\ Summary(d.seen).stuck = Stuck(d.seen)
  BY DEF Summary
<1>4. Summary(d.seen) \in Summaries
  BY DEF Summary, Summaries, Missing, Stuck
<1>5. d.seen["Acceleration"] \in {Unread, Flag("Acceleration" \in one.odd)}
  BY <1>1 DEF Told, Parameters
<1>6. d.found[s].complete => d.found[s].zero = ("Acceleration" \in one.odd)
  <2>1. ASSUME Summary(d.seen).complete PROVE d.seen["Acceleration"] = Flag("Acceleration" \in one.odd)
    <3>1. ~Missing(d.seen, Required \cup {"Acceleration"})
      BY <1>3, <2>1
    <3> QED
      BY <1>5, <3>1 DEF Missing
  <2>2. Flag("Acceleration" \in one.odd) = 1 <=> "Acceleration" \in one.odd
    BY DEF Flag
  <2>3. Summary(d.seen).complete => Summary(d.seen).zero = ("Acceleration" \in one.odd)
    BY <1>3, <2>1, <2>2
  <2> QED
    BY <2>3
<1>7. d.unread = 0 => d.found[s].complete
  BY <1>1, <1>3 DEF Told, Missing
<1>8. ASSUME ~d.changed
      PROVE  /\ d.found[s].stuck => HangsNow(one)
             /\ d.unread = 0 /\ HangsNow(one) => d.found[s].stuck
  <2>0. \A r \in Required : d.seen[r] \in {Unread, RegisterOf(one, r)}
    BY <1>1, <1>8 DEF Told
  <2>1. d.seen["Torque_Enable"] \in {Unread, Flag(one.torque)}
    BY <2>0 DEF Required, RegisterOf
  <2>2. d.seen["Goal_Position"] \in {Unread, one.goal}
    BY <2>0 DEF Required, RegisterOf
  <2>3. d.seen["Present_Position"] \in {Unread, one.present}
    BY <2>0 DEF Required, RegisterOf
  <2>4. d.seen["Moving"] \in {Unread, Flag(MovesNow(one))}
    BY <2>0 DEF Required, RegisterOf
  <2>5. d.unread = 0 => \A r \in Required : d.seen[r] # Unread
    BY <1>1 DEF Told
  <2>6. d.found[s].stuck => HangsNow(one)
    <3>1. ASSUME Stuck(d.seen) PROVE HangsNow(one)
      <4>1. d.seen["Torque_Enable"] = Flag(one.torque) /\ d.seen["Moving"] = Flag(MovesNow(one))
        BY <2>1, <2>4, <3>1 DEF Stuck, Unread
      <4>2. d.seen["Goal_Position"] = one.goal /\ d.seen["Present_Position"] = one.present
        BY <2>2, <2>3, <3>1 DEF Stuck
      <4>3. one.torque /\ ~MovesNow(one) /\ one.goal # one.present
        BY <1>2, <3>1, <4>1, <4>2 DEF Stuck, Flag
      <4> QED
        BY <1>2, <4>3 DEF MovesNow, HangsNow
    <3> QED
      BY <1>3, <3>1
  <2>7. d.unread = 0 /\ HangsNow(one) => d.found[s].stuck
    <3>1. d.unread = 0 => /\ d.seen["Torque_Enable"] = Flag(one.torque) /\ d.seen["Goal_Position"] = one.goal
                          /\ d.seen["Present_Position"] = one.present /\ d.seen["Moving"] = Flag(MovesNow(one))
      BY <2>1, <2>2, <2>3, <2>4, <2>5 DEF Required
    <3> QED
      BY <1>2, <1>3, <3>1 DEF Stuck, Flag, MovesNow, HangsNow
  <2> QED
    BY <2>6, <2>7
<1> QED
  BY <1>4, <1>6, <1>7, <1>8 DEF Summed

\* A step of 91 units from a tick leads one tick up or two down, for a tick has 80;
\* within the band it stays within the turn.
LEMMA OneStepPlanned ==
  ASSUME NEW raw \in Ticks, NEW direction \in Directions, NEW steps \in Nat \ {0},
         DryRunPasses(RawToDegrees(raw), direction, steps)
  PROVE  Planner!PlanPasses(raw, RawToDegrees(raw), direction)
<1> DEFINE middle == (80 * (RangeMin + RangeMax)) \div 2
           degrees == 80 * raw - middle
           target == PlannedTarget(degrees, direction, 1)
<1>0. /\ RangeMin \in Nat /\ RangeMax \in Nat /\ Resolution \in Nat /\ Margin \in Nat /\ RangeMax < Resolution
      /\ raw \in Nat /\ raw < Resolution
  BY DiagnosisAssumption DEF Ticks, Planner!Ticks
<1>1. middle \in Int
  BY <1>0
<1>2. RawToDegrees(raw) = degrees
  BY DEF RawToDegrees, Planner!RawToDegrees, Planner!Unit
<1>3. InnerBand(degrees) /\ InnerBand(target) /\ InTurn(target)
  <2>1. 1 \in 1 .. steps
    OBVIOUS
  <2> QED
    BY <1>2, <2>1 DEF DryRunPasses
<1>4. target = Planner!Target(degrees, direction)
  BY <1>1, <1>0 DEF PlannedTarget, Planner!Target, Planner!Step
<1>5. target = IF direction = "positive" THEN degrees + 91 ELSE degrees - 91
  BY <1>4 DEF Planner!Target, Planner!Step
<1>6. (80 * RangeMin - middle) + Margin <= target /\ target <= (80 * RangeMax - middle) - Margin
  BY <1>3 DEF InnerBand, Planner!InnerBand, Planner!RawToDegrees, Planner!Unit
<1>7. Planner!DegreesToRaw(target) =
        IF target + middle >= 0 THEN (target + middle) \div 80 ELSE -((-(target + middle)) \div 80)
  BY DEF Planner!DegreesToRaw, Planner!Unit
<1> HIDE DEF middle
<1>8. Planner!DegreesToRaw(target) \in Planner!Ticks /\ Planner!Away(Planner!DegreesToRaw(target), raw) \in 1 .. 2
  <2>1. CASE direction = "positive"
    <3>1. target + middle = 80 * raw + 91
      BY <1>0, <1>1, <1>5, <2>1
    <3>2. 80 * raw + 91 <= 80 * RangeMax
      BY <1>0, <1>1, <1>5, <1>6, <2>1
    <3>3. (80 * raw + 91) \div 80 = raw + 1
      BY <1>0
    <3>4. Planner!DegreesToRaw(target) = raw + 1
      BY <1>0, <1>7, <3>1, <3>3
    <3> QED
      BY <1>0, <3>2, <3>4 DEF Planner!Ticks, Planner!Away
  <2>2. CASE direction # "positive"
    <3>1. target + middle = 80 * raw - 91
      BY <1>0, <1>1, <1>5, <2>2
    <3>2. 80 * raw - 91 >= 80 * RangeMin
      BY <1>0, <1>1, <1>5, <1>6, <2>2
    <3>3. (80 * raw - 91) \div 80 = raw - 2
      BY <1>0
    <3>4. Planner!DegreesToRaw(target) = raw - 2
      BY <1>0, <1>7, <3>1, <3>2, <3>3
    <3> QED
      BY <1>0, <3>2, <3>4 DEF Planner!Ticks, Planner!Away
  <2> QED
    BY <2>1, <2>2
<1> QED
  BY <1>2, <1>3, <1>4, <1>8 DEF Planner!PlanPasses, InnerBand, InTurn

\* What the finished script says, by its mode.
LEMMA Conclusions ==
  ASSUME NEW d
  PROVE  /\ d.mode = "dry-run" => Conclusion(d) = {DryRunResult(d)}
         /\ d.mode = "register-diagnostic" => Conclusion(d) = RegisterReport(d)
         /\ d.mode = "servo-parameter-diagnostic" => Conclusion(d) = ParameterReport(d)
         /\ d.mode = "all-joint-parameter-diagnostic" => Conclusion(d) = JointsReport(d)
BY DEF Conclusion

\* The parameters that are named, when all were read.
LEMMA ParametersRight ==
  ASSUME NEW d, NEW one \in ServoState, Told(d, one), d.mode = "servo-parameter-diagnostic",
         ReadSoFar(d) = Regs(d.mode), d.unread = 0, d.connected
  PROVE  ParameterReport(d) \cap Parameters = one.odd
<1>1. Regs(d.mode) = Required \cup Parameters
  BY RegsOfModes
<1>2. ~Missing(d.seen, Required)
  BY <1>1 DEF Told, Missing
<1>3. \A p \in Parameters : d.seen[p] = Flag(p \in one.odd)
  BY <1>1 DEF Told
<1>4. {p \in Parameters : d.seen[p] = 1} = one.odd /\ one.odd \in SUBSET Parameters
  BY <1>3 DEF Flag, ServoState
<1>5. ParameterVerdicts(d.seen) = IF one.odd = {} THEN {"NO_CONFIGURATION_CAUSE_FOUND"} ELSE one.odd
  BY <1>2, <1>4 DEF ParameterVerdicts
<1>6. "NO_CONFIGURATION_CAUSE_FOUND" \notin Parameters /\ Directions \cap Parameters = {}
  BY DEF Parameters, Directions, Planner!Directions
<1>7. \A raw : SafeCandidates(raw) \in SUBSET Directions
  BY DEF SafeCandidates
<1>8. ParameterReport(d) =
        ParameterVerdicts(d.seen) \cup
        (IF d.seen["Present_Position"] = Unread THEN {} ELSE SafeCandidates(d.seen["Present_Position"]))
  BY DEF ParameterReport
<1> QED
  BY <1>4, <1>5, <1>6, <1>7, <1>8

\* The acceleration verdict of the joints as they are, or one was not read.
LEMMA AccelerationRight ==
  ASSUME NEW d, NEW arm \in [Servos -> ServoState], d.unread \in Nat,
         \A s \in Servos : Summed(d, s, arm[s])
  PROVE  \/ d.unread > 0 /\ AccelerationVerdict(d.found) = "READ_INCOMPLETE"
         \/ AccelerationVerdict(d.found) =
              AccelerationVerdict([s \in Servos |-> [complete |-> TRUE, zero |-> "Acceleration" \in arm[s].odd,
                                                     stuck |-> FALSE]])
<1> DEFINE true == [s \in Servos |-> [complete |-> TRUE, zero |-> "Acceleration" \in arm[s].odd, stuck |-> FALSE]]
<1>1. CASE \E s \in Servos : ~d.found[s].complete
  <2>1. d.unread > 0
    BY <1>1 DEF Summed
  <2> QED
    BY <1>1, <2>1 DEF AccelerationVerdict
<1>2. CASE \A s \in Servos : d.found[s].complete
  <2>1. \A s \in Servos : true[s].complete /\ true[s].zero = ("Acceleration" \in arm[s].odd)
    OBVIOUS
  <2>2. \A s \in Servos : d.found[s].zero = ("Acceleration" \in arm[s].odd)
    BY <1>2 DEF Summed
  <2> HIDE DEF true
  <2>3. {s \in Servos : true[s].zero} = {s \in Servos : d.found[s].zero}
    BY <2>1, <2>2
  <2>4. AccelerationVerdict(d.found) = AccelerationVerdict(true)
    BY <1>2, <2>1, <2>3 DEF AccelerationVerdict
  <2> QED
    BY <2>4 DEF true
<1> QED
  BY <1>1, <1>2

\* What the books of a finished script say is what is claimed of its conclusion.
LEMMA DiagnosesAreTrue == DiagnosisInvariant => DiagnosesTrue /\ DiagnosisTypeOK
<1> SUFFICES ASSUME DiagnosisInvariant PROVE DiagnosesTrue /\ DiagnosisTypeOK
  OBVIOUS
<1>0. /\ servo \in [Servos -> ServoState] /\ Wrist \in ServoState /\ diag.unread \in Nat /\ diag.expected \in Int
      /\ diag.steps \in Nat \ {0} /\ diag.direction \in Directions /\ diag.changed \in BOOLEAN
      /\ diag.connected \in BOOLEAN
  BY DEF DiagnosisInvariant, Scripts, Wrist, Servos
<1>1. DiagnosisTypeOK
  <2>1. \A s \in Servos : servo[s].present \in Ticks
    BY <1>0 DEF ServoState
  <2> QED
    BY <2>1 DEF DiagnosisInvariant, Scripts, DiagnosisTypeOK
<1>2. InPhase("done") => DoneBooks(diag, servo)
  BY DEF DiagnosisInvariant, InPhase
<1>3. ASSUME InPhase("done"), diag.connected, diag.mode # "all-joint-parameter-diagnostic"
      PROVE  Told(diag, Wrist) /\ ReadSoFar(diag) = Regs(diag.mode)
  BY <1>2, <1>3 DEF DoneBooks, Wrist
<1>4. RegistersTellTheTruth
  <2> SUFFICES ASSUME Reported("register-diagnostic"), ~diag.changed
               PROVE  /\ Says("TORQUE_DISABLED") => ~Wrist.torque
                      /\ Says("GOAL_NOT_LATCHED") => Wrist.torque /\ Wrist.goal # diag.expected
                      /\ Says("MOTOR_STILL_MOVING") => InMotion("wrist_roll")
                      /\ Says("COMMAND_LATCHED_BUT_NO_MOTION") => DoesNotReact("wrist_roll")
    BY DEF RegistersTellTheTruth
  <2>1. diag.result = {IF diag.connected THEN RegisterVerdict(diag.seen, diag.expected) ELSE "UNKNOWN"}
    BY <1>2, Conclusions DEF Reported, DoneBooks, RegisterReport
  <2>2. CASE diag.connected
    <3>1. Told(diag, Wrist)
      BY <1>3, <2>2 DEF Reported
    <3>2. LET verdict == RegisterVerdict(diag.seen, diag.expected)
          IN /\ verdict = "TORQUE_DISABLED" => ~Wrist.torque
             /\ verdict = "GOAL_NOT_LATCHED" => Wrist.torque /\ Wrist.goal # diag.expected
             /\ verdict = "MOTOR_STILL_MOVING" => MovesNow(Wrist)
             /\ verdict = "COMMAND_LATCHED_BUT_NO_MOTION" => HangsNow(Wrist)
      BY <1>0, <3>1, RegistersRight DEF Reported
    <3> QED
      BY <2>1, <2>2, <3>2, RegisterIsOf DEF Says, Wrist
  <2>3. CASE ~diag.connected
    BY <2>1, <2>3 DEF Says
  <2> QED
    BY <1>0, <2>2, <2>3
<1>5. TripIsReported
  <2> SUFFICES ASSUME Reported("register-diagnostic"), diag.connected, Wrist.fault, ~(diag.unread > 0)
               PROVE  Says("FAULT_OR_PROTECTION")
    BY DEF TripIsReported
  <2>1. Told(diag, Wrist) /\ ReadSoFar(diag) = Regs(diag.mode) /\ StatusTold(diag, Wrist)
    BY <1>2, <1>3 DEF Reported, DoneBooks, Wrist
  <2>2. diag.seen["Status"] = 1
    BY <2>1 DEF StatusTold, Flag
  <2>3. ~Missing(diag.seen, Required)
    BY <1>0, <2>1, RegsOfModes DEF Told, Missing, Reported
  <2>4. diag.result = {RegisterVerdict(diag.seen, diag.expected)}
    BY <1>2, Conclusions DEF Reported, DoneBooks, RegisterReport
  <2> QED
    BY <2>2, <2>3, <2>4 DEF RegisterVerdict, Says
<1>6. JointsTellTheTruth
  <2> SUFFICES ASSUME Reported("all-joint-parameter-diagnostic"), diag.connected, ~diag.changed
               PROVE  /\ \A s \in Servos : diag.found[s].stuck => DoesNotReact(s)
                      /\ diag.unread = 0 => \A s \in Servos : DoesNotReact(s) => diag.found[s].stuck
                      /\ \/ diag.unread > 0 /\ diag.result = {"READ_INCOMPLETE"}
                         \/ diag.result = {AccelerationVerdict(
                               [s \in Servos |-> [complete |-> TRUE, zero |-> "Acceleration" \in servo[s].odd,
                                                  stuck |-> FALSE]])}
    BY DEF JointsTellTheTruth
  <2>1. \A s \in Servos : Summed(diag, s, servo[s])
    BY <1>2 DEF Reported, DoneBooks
  <2>2. diag.result = {AccelerationVerdict(diag.found)}
    BY <1>2, Conclusions DEF Reported, DoneBooks, JointsReport
  <2>3. \/ diag.unread > 0 /\ AccelerationVerdict(diag.found) = "READ_INCOMPLETE"
        \/ AccelerationVerdict(diag.found) =
             AccelerationVerdict([s \in Servos |-> [complete |-> TRUE, zero |-> "Acceleration" \in servo[s].odd,
                                                    stuck |-> FALSE]])
    BY <1>0, <2>1, AccelerationRight
  <2>4. /\ \A s \in Servos : diag.found[s].stuck => DoesNotReact(s)
        /\ diag.unread = 0 => \A s \in Servos : DoesNotReact(s) => diag.found[s].stuck
    BY <2>1, RegisterIsOf DEF Summed
  <2> QED
    BY <2>2, <2>3, <2>4
<1>7. ParametersTellTheTruth
  <2> SUFFICES ASSUME Reported("servo-parameter-diagnostic"), diag.connected, diag.unread = 0
               PROVE  diag.result \cap Parameters = Wrist.odd
    BY DEF ParametersTellTheTruth
  <2>1. Told(diag, Wrist) /\ ReadSoFar(diag) = Regs(diag.mode) /\ diag.mode = "servo-parameter-diagnostic"
    BY <1>3 DEF Reported
  <2>2. diag.result = ParameterReport(diag)
    BY <1>2, Conclusions DEF Reported, DoneBooks
  <2> QED
    BY <1>0, <2>1, <2>2, ParametersRight
<1>8. DryRunForetellsArmed
  <2> SUFFICES ASSUME Reported("dry-run"), diag.override = "none", ~diag.changed, Says("PASS")
               PROVE  Planner!PlanPasses(Wrist.present, RawToDegrees(Wrist.present), diag.direction)
    BY DEF DryRunForetellsArmed
  <2>1. diag.result = {DryRunResult(diag)}
    BY <1>2, Conclusions DEF Reported, DoneBooks
  <2>2. DryRunResult(diag) = "PASS"
    BY <2>1 DEF Says
  <2>3. diag.connected
    BY <1>0, <2>2 DEF DryRunResult
  <2>4. DryRunPasses(RawToDegrees(diag.seen["degrees"]), diag.direction, diag.steps)
    BY <2>2, <2>3 DEF DryRunResult
  <2>5. diag.seen["degrees"] = Wrist.present
    <3>1. Told(diag, Wrist) /\ ReadSoFar(diag) = Regs(diag.mode) /\ diag.unread = 0 /\ diag.mode = "dry-run"
      BY <1>2, <1>3, <2>3 DEF Reported, DoneBooks
    <3>2. diag.seen["degrees"] = RegisterOf(Wrist, "degrees")
      BY <1>0, <3>1, ToldExactly, RegsOfModes
    <3> QED
      BY <3>2 DEF RegisterOf
  <2>6. Wrist.present \in Ticks
    BY <1>0 DEF ServoState
  <2> QED
    BY <1>0, <2>4, <2>5, <2>6, OneStepPlanned
<1> QED
  BY <1>1, <1>4, <1>5, <1>6, <1>7, <1>8 DEF DiagnosesTrue

-----------------------------------------------------------------------------
(***************************************************************************)
(* The script ends.                                                        *)
(***************************************************************************)
\* Two states of a script that differ in phase and result only.
SameBooks(d, e) ==
  /\ e.mode = d.mode /\ e.direction = d.direction /\ e.steps = d.steps /\ e.override = d.override
  /\ e.expected = d.expected /\ e.loaded = d.loaded /\ e.connected = d.connected /\ e.joint = d.joint
  /\ e.list = d.list /\ e.asked = d.asked /\ e.seen = d.seen /\ e.unread = d.unread
  /\ e.changed = d.changed /\ e.found = d.found

\* The end of the script changes neither what it concludes nor what it was told.
LEMMA SameConclusion ==
  ASSUME NEW d, NEW e, SameBooks(d, e)
  PROVE  /\ Conclusion(e) = Conclusion(d)
         /\ \A one : Told(e, one) = Told(d, one) /\ StatusTold(e, one) = StatusTold(d, one)
         /\ \A s, one : Summed(e, s, one) = Summed(d, s, one)
         /\ ReadSoFar(e) = ReadSoFar(d)
<1> USE DEF SameBooks
<1>1. Conclusion(e) = Conclusion(d)
  <2>1. DryRunResult(e) = DryRunResult(d)
    BY DEF DryRunResult
  <2>2. RegisterReport(e) = RegisterReport(d)
    BY DEF RegisterReport
  <2>3. ParameterReport(e) = ParameterReport(d)
    BY DEF ParameterReport
  <2>4. JointsReport(e) = JointsReport(d)
    BY DEF JointsReport
  <2> QED
    BY <2>1, <2>2, <2>3, <2>4 DEF Conclusion
<1>2. ReadSoFar(e) = ReadSoFar(d)
  BY DEF ReadSoFar
<1>3. \A one : Told(e, one) = Told(d, one)
  BY <1>2 DEF Told
<1>4. \A one : StatusTold(e, one) = StatusTold(d, one)
  BY DEF StatusTold
<1>5. \A s, one : Summed(e, s, one) = Summed(d, s, one)
  BY DEF Summed
<1> QED
  BY <1>1, <1>2, <1>3, <1>4, <1>5

\* Results are names.
LEMMA ResultNames ==
  ASSUME NEW d
  PROVE  Conclusion(d) \in SUBSET Results
<1>1. DryRunResult(d) \in Results
  BY DEF DryRunResult, Results
<1>2. RegisterReport(d) \in SUBSET Results
  BY DEF RegisterReport, RegisterVerdict, Results
<1>3. ParameterReport(d) \in SUBSET Results
  <2>1. ParameterVerdicts(d.seen) \in SUBSET Results
    BY DEF ParameterVerdicts, Results
  <2>2. \A raw : SafeCandidates(raw) \in SUBSET Results
    BY DEF SafeCandidates, Results
  <2> QED
    BY <2>1, <2>2 DEF ParameterReport
<1>4. JointsReport(d) \in SUBSET Results
  <2>1. AccelerationVerdict(d.found) \in Results
    BY DEF AccelerationVerdict, Results
  <2> QED
    BY <2>1 DEF JointsReport
<1> QED
  BY <1>1, <1>2, <1>3, <1>4 DEF Conclusion

\* The script ends with what its books allow to say.
LEMMA Ends ==
  ASSUME NEW d \in Scripts, Concludes(d),
         d.connected /\ d.mode # "all-joint-parameter-diagnostic" =>
           /\ d.seen \in [Regs(d.mode) -> Int] /\ Told(d, servo["wrist_roll"]) /\ ReadSoFar(d) = Regs(d.mode)
           /\ d.mode = "dry-run" => d.unread = 0
           /\ d.mode = "register-diagnostic" => StatusTold(d, servo["wrist_roll"]),
         d.connected /\ d.mode = "all-joint-parameter-diagnostic" => \A s \in Servos : Summed(d, s, servo[s])
  PROVE  diag' \in Scripts /\ diag'.phase = "done" /\ DoneBooks(diag', servo)
<1> DEFINE e == [d EXCEPT !.phase = "done", !.result = Conclusion(d)]
<1>1. diag' = e
  BY DEF Concludes, Becomes
<1>2. SameBooks(d, e)
  BY DEF SameBooks, Scripts
<1>3. e \in Scripts
  BY ResultNames DEF Scripts
<1>4. e.phase = "done" /\ e.result = Conclusion(d)
  BY DEF Scripts
<1> HIDE DEF e
<1>5. /\ Conclusion(e) = Conclusion(d) /\ ReadSoFar(e) = ReadSoFar(d)
      /\ \A one : Told(e, one) = Told(d, one) /\ StatusTold(e, one) = StatusTold(d, one)
      /\ \A s, one : Summed(e, s, one) = Summed(d, s, one)
  BY <1>2, SameConclusion
<1>6. e.mode = d.mode /\ e.connected = d.connected /\ e.seen = d.seen /\ e.unread = d.unread
  BY <1>2 DEF SameBooks
<1>7. DoneBooks(e, servo)
  BY <1>4, <1>5, <1>6 DEF DoneBooks
<1> QED
  BY <1>1, <1>3, <1>4, <1>7

-----------------------------------------------------------------------------
(***************************************************************************)
(* After a register: the next list, the next joint or the end.             *)
(***************************************************************************)
\* A list that was read to its end: what was read so far, of the next list on.
LEMMA ListRead ==
  ASSUME NEW d \in Scripts, d.list \in 1 .. Len(Order(d.mode)), d.asked \subseteq Order(d.mode)[d.list],
         Order(d.mode)[d.list] \subseteq d.asked
  PROVE  /\ ReadSoFar(d) = UNION {Order(d.mode)[i] : i \in 1 .. d.list}
         /\ d.list = Len(Order(d.mode)) => ReadSoFar(d) = Regs(d.mode)
<1>1. d.list \in Nat /\ d.list >= 1 /\ d.mode \in ReadOnlyModes
  BY OrderIsList DEF Scripts
<1>2. ReadSoFar(d) = (UNION {Order(d.mode)[i] : i \in 1 .. (d.list - 1)}) \cup Order(d.mode)[d.list]
  BY DEF ReadSoFar
<1>3. 1 .. d.list = (1 .. (d.list - 1)) \cup {d.list}
  BY <1>1
<1>4. ReadSoFar(d) = UNION {Order(d.mode)[i] : i \in 1 .. d.list}
  <2>1. \A x : x \in ReadSoFar(d) <=> \/ \E i \in 1 .. (d.list - 1) : x \in Order(d.mode)[i]
                                      \/ x \in Order(d.mode)[d.list]
    <3>1. ASSUME NEW x
          PROVE  x \in UNION {Order(d.mode)[i] : i \in 1 .. (d.list - 1)} <=>
                   \E i \in 1 .. (d.list - 1) : x \in Order(d.mode)[i]
      BY Zenon
    <3>2. ASSUME NEW x
          PROVE  x \in ReadSoFar(d) <=> \/ x \in UNION {Order(d.mode)[i] : i \in 1 .. (d.list - 1)}
                                        \/ x \in Order(d.mode)[d.list]
      <4> DEFINE before == UNION {Order(d.mode)[i] : i \in 1 .. (d.list - 1)}
      <4>1. ReadSoFar(d) = before \cup Order(d.mode)[d.list]
        BY <1>2
      <4> HIDE DEF before
      <4>2. x \in ReadSoFar(d) <=> x \in before \/ x \in Order(d.mode)[d.list]
        BY <4>1
      <4> QED
        BY <4>2 DEF before
    <3> QED
      BY <3>1, <3>2, Zenon
  <2>2. \A x : x \in ReadSoFar(d) <=> \E i \in 1 .. d.list : x \in Order(d.mode)[i]
    BY <1>3, <2>1
  <2>3. ASSUME NEW x
        PROVE  x \in UNION {Order(d.mode)[i] : i \in 1 .. d.list} <=> \E i \in 1 .. d.list : x \in Order(d.mode)[i]
    BY Zenon
  <2> QED
    BY <2>2, <2>3
<1> QED
  BY <1>1, <1>4, OrderIsList

\* Nothing was read of a joint that is only now its turn.
LEMMA BlankTold ==
  ASSUME NEW d, NEW one \in ServoState, d.mode \in ReadOnlyModes, d.seen = Blank(d.mode), d.list = 1, d.asked = {}
  PROVE  Told(d, one) /\ d.seen \in [Regs(d.mode) -> Int] /\ ReadSoFar(d) = {}
<1>1. Blank(d.mode) = [r \in Regs(d.mode) |-> Unread]
  BY DEF Blank, Regs
<1>2. \A r \in Regs(d.mode) : d.seen[r] = Unread
  BY <1>1
<1>3. ReadSoFar(d) = {}
  BY DEF ReadSoFar
<1>4. d.seen \in [Regs(d.mode) -> Int]
  BY <1>1 DEF Unread
<1> QED
  BY <1>2, <1>3, <1>4 DEF Told

\* After a register there is one left to read, or the script ends with its books.
LEMMA Continuation ==
  ASSUME servo \in [Servos -> ServoState], NEW d \in Scripts, d.phase = "read", ReadBooks(d, servo), Continues(d)
  PROVE  /\ diag' \in Scripts
         /\ \/ diag'.phase = "read" /\ ReadBooks(diag', servo) /\ Open(diag')
            \/ diag'.phase = "done" /\ DoneBooks(diag', servo)
<1>0. /\ d.mode \in ReadOnlyModes /\ d.list \in Nat /\ d.list \in 1 .. Len(Order(d.mode)) /\ d.connected
      /\ d.asked \subseteq Order(d.mode)[d.list] /\ d.seen \in [Regs(d.mode) -> Int]
      /\ Told(d, servo[d.joint]) /\ d.joint \in Servos
      /\ d.mode = "dry-run" => d.unread = 0
      /\ d.mode # "all-joint-parameter-diagnostic" => d.joint = "wrist_roll"
      /\ d.joint = "elbow_flex" => Summed(d, "wrist_roll", servo["wrist_roll"])
  BY DEF ReadBooks, Scripts
<1>1. /\ DOMAIN Order(d.mode) = 1 .. Len(Order(d.mode)) /\ Len(Order(d.mode)) \in Nat
      /\ \A i \in 1 .. Len(Order(d.mode)) : Order(d.mode)[i] # {} /\ Order(d.mode)[i] \subseteq Registers
  BY <1>0, OrderIsList
<1>2. CASE ~(Order(d.mode)[d.list] \subseteq d.asked)
  BY <1>2 DEF Continues, Becomes, Open
<1>3. CASE Order(d.mode)[d.list] \subseteq d.asked /\ d.list < Len(Order(d.mode))
  <2> DEFINE e == [d EXCEPT !.list = @ + 1, !.asked = {}]
  <2>1. diag' = e
    BY <1>3 DEF Continues, Becomes
  <2>2. /\ e.mode = d.mode /\ e.list = d.list + 1 /\ e.asked = {} /\ e.seen = d.seen /\ e.unread = d.unread
        /\ e.changed = d.changed /\ e.found = d.found /\ e.joint = d.joint /\ e.connected = d.connected
        /\ e.phase = "read"
    BY DEF Scripts
  <2>3. e \in Scripts
    <3>1. d.list + 1 \in Nat /\ {} \in SUBSET Registers
      BY <1>0
    <3> QED
      BY <3>1 DEF Scripts
  <2> HIDE DEF e
  <2>4. ReadSoFar(e) = ReadSoFar(d)
    <3>1. ReadSoFar(d) = UNION {Order(d.mode)[i] : i \in 1 .. d.list}
      BY <1>0, <1>3, ListRead
    <3>2. (d.list + 1) - 1 = d.list
      BY <1>0
    <3> QED
      BY <2>2, <3>1, <3>2 DEF ReadSoFar
  <2>5. Told(e, servo[e.joint])
    <3>1. e.list # 1
      BY <1>0, <2>2
    <3> QED
      BY <1>0, <2>2, <2>4, <3>1 DEF Told
  <2>6. e.list \in 1 .. Len(Order(e.mode))
    BY <1>0, <1>1, <1>3, <2>2
  <2>7. e.joint = "elbow_flex" => Summed(e, "wrist_roll", servo["wrist_roll"])
    BY <1>0, <2>2 DEF Summed
  <2>8. ReadBooks(e, servo)
    BY <1>0, <2>2, <2>5, <2>6, <2>7 DEF ReadBooks
  <2>9. Open(e)
    BY <1>1, <2>2, <2>6 DEF Open
  <2> QED
    BY <2>1, <2>2, <2>3, <2>8, <2>9
<1>4. CASE Order(d.mode)[d.list] \subseteq d.asked /\ ~(d.list < Len(Order(d.mode)))
  <2>1. d.list = Len(Order(d.mode)) /\ ReadSoFar(d) = Regs(d.mode)
    <3>1. d.list = Len(Order(d.mode))
      BY <1>0, <1>1, <1>4
    <3> QED
      BY <1>0, <1>4, <3>1, ListRead
  <2>2. CASE d.mode # "all-joint-parameter-diagnostic"
    <3>1. Concludes(d)
      BY <1>4, <2>2 DEF Continues
    <3>2. d.mode = "register-diagnostic" => StatusTold(d, servo["wrist_roll"])
      <4>1. d.mode = "register-diagnostic" => Len(Order(d.mode)) = 5 /\ Order(d.mode)[5] = {"Status"}
        BY Orders
      <4>2. d.mode = "register-diagnostic" => "Status" \in d.asked
        BY <1>4, <2>1, <4>1
      <4> QED
        BY <4>2 DEF ReadBooks
    <3>3. d.joint = "wrist_roll"
      BY <1>0, <2>2
    <3> QED
      BY <1>0, <2>1, <2>2, <3>1, <3>2, <3>3, Ends
  <2>3. CASE d.mode = "all-joint-parameter-diagnostic"
    <3> DEFINE e == [d EXCEPT !.found[d.joint] = Summary(d.seen)]
    <3>1. /\ e.mode = d.mode /\ e.list = d.list /\ e.asked = d.asked /\ e.seen = d.seen /\ e.unread = d.unread
          /\ e.changed = d.changed /\ e.joint = d.joint /\ e.connected = d.connected /\ e.phase = d.phase
          /\ e.found = [d.found EXCEPT ![d.joint] = Summary(d.seen)]
      BY DEF Scripts
    <3>2. d.found \in [Servos -> Summaries] /\ servo[d.joint] \in ServoState
      BY <1>0 DEF Scripts
    <3>3. e.found[d.joint] = Summary(d.seen) /\ \A s \in Servos \ {d.joint} : e.found[s] = d.found[s]
      BY <1>0, <3>1, <3>2
    <3>4. Summary(d.seen) \in Summaries
      BY <3>3 DEF Summary, Summaries, Missing, Stuck
    <3>5. e \in Scripts
      BY <1>0, <3>2, <3>4 DEF Scripts
    <3> HIDE DEF e
    <3>6. Told(e, servo[d.joint]) /\ ReadSoFar(e) = Regs(e.mode)
      <4>1. ReadSoFar(e) = ReadSoFar(d)
        BY <3>1 DEF ReadSoFar
      <4> QED
        BY <1>0, <2>1, <3>1, <4>1 DEF Told
    <3>7. Summed(e, d.joint, servo[d.joint])
      BY <2>3, <3>1, <3>2, <3>3, <3>6, SummaryRight
    <3>8. CASE d.joint = "wrist_roll"
      <4> DEFINE next == [e EXCEPT !.joint = "elbow_flex", !.list = 1, !.asked = {}, !.seen = Blank(d.mode)]
      <4>1. diag' = next
        BY <1>4, <2>3, <3>8 DEF Continues, Becomes, e
      <4>2. /\ next.mode = d.mode /\ next.list = 1 /\ next.asked = {} /\ next.seen = Blank(next.mode)
            /\ next.unread = e.unread /\ next.changed = e.changed /\ next.joint = "elbow_flex"
            /\ next.connected = e.connected /\ next.phase = "read" /\ next.found = e.found
        BY <3>1, <3>5 DEF Scripts
      <4>3. next \in Scripts
        <5>1. Blank(d.mode) \in [Regs(d.mode) -> Int]
          BY DEF Blank, Regs, Unread
        <5>2. Blank(d.mode) \in UNION {[Regs(mode) -> Int] : mode \in ReadOnlyModes}
          BY <1>0, <5>1
        <5>3. 1 \in Nat /\ {} \in SUBSET Registers /\ "elbow_flex" \in Servos
          BY DEF Servos
        <5> QED
          BY <3>5, <5>2, <5>3 DEF Scripts
      <4> HIDE DEF next
      <4>4. /\ Told(next, servo["elbow_flex"]) /\ next.seen \in [Regs(next.mode) -> Int]
        <5>1. servo["elbow_flex"] \in ServoState
          BY DEF Servos
        <5> QED
          BY <1>0, <4>2, <5>1, BlankTold
      <4>5. Summed(next, "wrist_roll", servo["wrist_roll"])
        BY <3>7, <3>8, <4>2 DEF Summed
      <4>6. next.list \in 1 .. Len(Order(next.mode))
        BY <1>0, <4>2, OrderIsList
      <4>7. ReadBooks(next, servo)
        BY <1>0, <2>3, <3>1, <4>2, <4>4, <4>5, <4>6 DEF ReadBooks
      <4>8. Open(next)
        BY <1>1, <4>2, <4>6 DEF Open
      <4> QED
        BY <4>1, <4>2, <4>3, <4>7, <4>8
    <3>9. CASE d.joint # "wrist_roll"
      <4>1. Concludes(e)
        BY <1>4, <2>3, <3>9 DEF Continues, e
      <4>2. d.joint = "elbow_flex"
        BY <1>0, <3>9 DEF Servos
      <4>3. Summed(e, "wrist_roll", servo["wrist_roll"])
        BY <1>0, <3>1, <3>3, <4>2 DEF Summed, Servos
      <4>4. \A s \in Servos : Summed(e, s, servo[s])
        BY <3>7, <4>2, <4>3 DEF Servos
      <4> QED
        BY <2>3, <3>1, <3>5, <4>1, <4>4, Ends
    <3> QED
      BY <3>8, <3>9
  <2> QED
    BY <2>2, <2>3
<1> QED
  BY <1>2, <1>3, <1>4

-----------------------------------------------------------------------------
(***************************************************************************)
(* The steps.                                                              *)
(***************************************************************************)
\* A servo at rest, or with what it starts with instead.
LEMMA ServosAtFirst == ASSUME NEW mode \in ReadOnlyModes PROVE ServosIn(mode) \subseteq ServoState
<1> DEFINE presents == IF mode = "dry-run" THEN Ticks ELSE {Expected}
<1>0. Expected \in Ticks /\ Expected + 1 \in Ticks
  BY DiagnosisAssumption DEF Ticks, Planner!Ticks
<1>1. presents \in SUBSET Ticks
  BY <1>0
<1>2. OddSets(mode) \in SUBSET (SUBSET Parameters)
  <2>1. {"Acceleration"} \in SUBSET Parameters
    BY DEF Parameters
  <2> QED
    BY <2>1 DEF OddSets
<1> DEFINE fine == {FALSE}
<1>3. fine \in SUBSET BOOLEAN
  OBVIOUS
<1> HIDE DEF presents, fine
<1>4. ServosIn(mode) = [torque : BOOLEAN, goal : {Expected, Expected + 1}, present : presents,
                       blocked : BOOLEAN, fault : fine, odd : OddSets(mode)]
  BY DEF ServosIn, presents, fine
<1> SUFFICES ASSUME NEW one \in ServosIn(mode) PROVE one \in ServoState
  OBVIOUS
<1>5. /\ one.torque \in BOOLEAN /\ one.goal \in {Expected, Expected + 1} /\ one.present \in Ticks
      /\ one.blocked \in BOOLEAN /\ one.fault \in BOOLEAN /\ one.odd \in SUBSET Parameters
  <2>1. /\ one.torque \in BOOLEAN /\ one.goal \in {Expected, Expected + 1} /\ one.present \in presents
        /\ one.blocked \in BOOLEAN /\ one.odd \in OddSets(mode)
    BY <1>4
  <2>2. one.fault \in fine
    BY <1>4
  <2>3. one.fault \in BOOLEAN
    BY <1>3, <2>2
  <2> QED
    BY <1>1, <1>2, <2>1, <2>3
<1>6. one = [torque |-> one.torque, goal |-> one.goal, present |-> one.present,
             blocked |-> one.blocked, fault |-> one.fault, odd |-> one.odd]
  BY <1>4
<1> QED
  BY <1>5, <1>6 DEF ServoState

\* The script before its first step.
LEMMA DiagnosisBegins == DiagnosisInit => DiagnosisInvariant
<1> SUFFICES ASSUME DiagnosisInit PROVE DiagnosisInvariant
  OBVIOUS
<1>0. /\ Expected \in Nat /\ Expected \in Ticks /\ Expected + 1 \in Ticks /\ MaxServoChanges \in Nat
      /\ MaxPlanned \in Nat
  BY DiagnosisAssumption DEF Ticks, Planner!Ticks
<1>1. PICK mode \in {"dry-run", "register-diagnostic", "servo-parameter-diagnostic", "all-joint-parameter-diagnostic"},
           direction \in Directions, steps \in 1 .. MaxPlanned, override \in {"none", "one", "both"},
           expected \in {Unread, Expected + 1} :
        /\ mode # "dry-run" => direction = "positive" /\ steps = 1 /\ override = "none"
        /\ mode # "register-diagnostic" => expected = Unread
        /\ diag = [phase |-> "start", mode |-> mode, direction |-> direction, steps |-> steps,
                   override |-> override, expected |-> expected, loaded |-> FALSE, connected |-> FALSE,
                   joint |-> "wrist_roll", list |-> 1, asked |-> {}, seen |-> Blank(mode), unread |-> 0,
                   changed |-> FALSE, found |-> [s \in Servos |-> NoSummary], result |-> {}]
        /\ \E wrist, elbow \in ServosIn(mode) :
             /\ mode = "dry-run" => ~wrist.torque /\ wrist.goal = Expected
             /\ mode # "all-joint-parameter-diagnostic" => elbow = [AtRest EXCEPT !.present = elbow.present]
             /\ elbow.present = Expected
             /\ \A one \in {wrist, elbow} : one.blocked => one.torque /\ one.goal # one.present
             /\ servo = [s \in Servos |-> IF s = "wrist_roll" THEN wrist ELSE elbow]
  BY Zenon DEF DiagnosisInit
<1>2. mode \in ReadOnlyModes
  BY DEF ReadOnlyModes
<1>5. servo \in [Servos -> ServoState]
  <2>1. PICK wrist \in ServosIn(mode), elbow \in ServosIn(mode) :
          servo = [s \in Servos |-> IF s = "wrist_roll" THEN wrist ELSE elbow]
    BY Zenon, <1>1
  <2>2. wrist \in ServoState /\ elbow \in ServoState
    BY <1>2, <2>1, ServosAtFirst
  <2> QED
    BY <2>1, <2>2
<1>6. Blank(mode) \in [Regs(mode) -> Int]
  BY DEF Blank, Regs, Unread
<1>7. diag \in Scripts
  <2>1. /\ Blank(mode) \in UNION {[Regs(m) -> Int] : m \in ReadOnlyModes}
        /\ steps \in Nat \ {0} /\ expected \in Int /\ [s \in Servos |-> NoSummary] \in [Servos -> Summaries]
        /\ "wrist_roll" \in Servos
    BY <1>0, <1>2, <1>6 DEF Unread, NoSummary, Summaries, Servos
  <2> QED
    BY <1>1, <1>2, <2>1 DEF Scripts
<1>8. Unasked(diag) /\ diag.phase = "start"
  BY <1>1 DEF Unasked
<1>9. changes \in 0 .. MaxServoChanges
  <2>1. changes = 0
    BY Zenon DEF DiagnosisInit
  <2> QED
    BY <1>0, <2>1
<1> QED
  BY <1>5, <1>7, <1>8, <1>9 DEF DiagnosisInvariant

\* Before the first register: the port, the calibration, the motor.
LEMMA PreparationKeeps ==
  ASSUME DiagnosisInvariant, Prepares \/ Opens
  PROVE  DiagnosisInvariant'
<1> USE DEF DiagnosisInvariant
<1>0. /\ diag \in Scripts /\ Unasked(diag) /\ servo' = servo /\ changes' = changes
      /\ servo \in [Servos -> ServoState] /\ diag.mode \in ReadOnlyModes
  BY DEF Prepares, Opens, InPhase, Scripts
<1>1. ASSUME NEW e \in Scripts, ~e.connected, Concludes(e) PROVE DiagnosisInvariant'
  <2>1. diag' \in Scripts /\ diag'.phase = "done" /\ DoneBooks(diag', servo)
    BY <1>1, Ends
  <2> QED
    BY <1>0, <2>1
<1>2. CASE Prepares
  <2>1. PICK calibration \in {"fine", "unreadable", "other_motor"} :
          LET loaded == [diag EXCEPT !.loaded = calibration # "unreadable"]
          IN Becomes([loaded EXCEPT !.phase = "connect"]) \/ Concludes(loaded)
    BY <1>2 DEF Prepares
  <2> DEFINE loaded == [diag EXCEPT !.loaded = calibration # "unreadable"]
             next == [loaded EXCEPT !.phase = "connect"]
  <2>2. loaded \in Scripts /\ ~loaded.connected
    BY <1>0 DEF Scripts, Unasked
  <2>3. CASE Concludes(loaded)
    BY <1>1, <2>2, <2>3
  <2>4. CASE diag' = next
    <3>1. next \in Scripts /\ next.phase = "connect"
      BY <2>2 DEF Scripts
    <3>2. /\ next.connected = diag.connected /\ next.joint = diag.joint /\ next.list = diag.list
          /\ next.asked = diag.asked /\ next.unread = diag.unread /\ next.seen = diag.seen /\ next.mode = diag.mode
      BY <1>0 DEF Scripts
    <3> HIDE DEF next
    <3>3. Unasked(next)
      BY <1>0, <3>2 DEF Unasked
    <3> QED
      BY <1>0, <2>4, <3>1, <3>3
  <2> QED
    BY <2>1, <2>3, <2>4 DEF Becomes
<1>3. CASE Opens
  <2> DEFINE next == [diag EXCEPT !.phase = "read", !.connected = TRUE]
  <2>1. CASE Concludes(diag)
    BY <1>0, <1>1, <2>1 DEF Unasked
  <2>2. CASE diag' = next
    <3>1. next \in Scripts /\ next.phase = "read" /\ next.connected
      BY <1>0 DEF Scripts
    <3>2. /\ next.joint = "wrist_roll" /\ next.list = 1 /\ next.asked = {} /\ next.unread = 0
          /\ next.seen = Blank(next.mode) /\ next.mode = diag.mode
      BY <1>0 DEF Scripts, Unasked
    <3> HIDE DEF next
    <3>3. servo["wrist_roll"] \in ServoState
      BY <1>0 DEF Servos
    <3>4. Told(next, servo["wrist_roll"]) /\ next.seen \in [Regs(next.mode) -> Int]
      BY <1>0, <3>2, <3>3, BlankTold
    <3>5. next.list \in 1 .. Len(Order(next.mode)) /\ Order(next.mode)[1] # {}
      BY <1>0, <3>2, OrderIsList
    <3>6. ReadBooks(next, servo)
      BY <3>1, <3>2, <3>4, <3>5 DEF ReadBooks
    <3>7. Open(next)
      BY <3>2, <3>5 DEF Open
    <3> QED
      BY <1>0, <2>2, <3>1, <3>6, <3>7
  <2> QED
    BY <1>3, <2>1, <2>2 DEF Opens, Becomes
<1> QED
  BY <1>2, <1>3

\* A register: it is read as it is, or it cannot be read.
LEMMA ReadKeeps ==
  ASSUME DiagnosisInvariant, ReadsRegister
  PROVE  DiagnosisInvariant'
<1> USE DEF DiagnosisInvariant
<1>0. /\ diag \in Scripts /\ diag.phase = "read" /\ ReadBooks(diag, servo) /\ Open(diag)
      /\ servo' = servo /\ changes' = changes /\ servo \in [Servos -> ServoState]
      /\ diag.mode \in ReadOnlyModes /\ diag.joint \in Servos
  BY DEF ReadsRegister, InPhase, Scripts
<1>1. PICK r \in Order(diag.mode)[diag.list] \ diag.asked :
        LET asked == [diag EXCEPT !.asked = @ \cup {r}]
        IN \/ Continues([asked EXCEPT !.seen[r] = Register(diag.joint, r)])
           \/ IF diag.mode = "dry-run"
              THEN Concludes([diag EXCEPT !.connected = FALSE])
              ELSE diag.unread < MaxUnread /\ Continues([asked EXCEPT !.unread = @ + 1])
  BY DEF ReadsRegister
<1> DEFINE asked == [diag EXCEPT !.asked = @ \cup {r}]
           answered == [asked EXCEPT !.seen[r] = Register(diag.joint, r)]
           failed == [asked EXCEPT !.unread = @ + 1]
           one == servo[diag.joint]
           value == RegisterOf(one, r)
<1>2. /\ diag.connected /\ diag.list \in 1 .. Len(Order(diag.mode)) /\ diag.asked \subseteq Order(diag.mode)[diag.list]
      /\ diag.seen \in [Regs(diag.mode) -> Int] /\ Told(diag, one) /\ one \in ServoState
      /\ diag.unread \in Nat /\ diag.asked \in SUBSET Registers /\ diag.changed \in BOOLEAN
  BY <1>0 DEF ReadBooks, Scripts
<1>3. r \in Regs(diag.mode) /\ r \in Registers /\ Order(diag.mode)[diag.list] \subseteq Regs(diag.mode)
  BY <1>0, <1>2, OrderIsList
<1>4. value \in Nat /\ value # Unread
  BY <1>2, RegisterValues
<1>5. Register(diag.joint, r) = value
  BY RegisterIsOf
<1> HIDE DEF value, one
<1>6. ASSUME NEW e \in Scripts, e.phase = "read", Continues(e), ReadBooks(e, servo)
      PROVE  DiagnosisInvariant'
  <2>1. /\ diag' \in Scripts
        /\ \/ diag'.phase = "read" /\ ReadBooks(diag', servo) /\ Open(diag')
           \/ diag'.phase = "done" /\ DoneBooks(diag', servo)
    BY <1>0, <1>6, Continuation
  <2> QED
    BY <1>0, <2>1
<1>7. CASE Continues(answered)
  <2>1. /\ answered.mode = diag.mode /\ answered.list = diag.list /\ answered.unread = diag.unread
        /\ answered.changed = diag.changed /\ answered.found = diag.found /\ answered.joint = diag.joint
        /\ answered.connected = diag.connected /\ answered.phase = "read"
        /\ answered.asked = diag.asked \cup {r} /\ answered.seen = [diag.seen EXCEPT ![r] = value]
    BY <1>0, <1>5 DEF Scripts
  <2>2. answered \in Scripts
    <3>1. [diag.seen EXCEPT ![r] = value] \in [Regs(diag.mode) -> Int]
      <4>1. diag.seen \in [Regs(diag.mode) -> Int] /\ value \in Int
        BY <1>2, <1>4
      <4> QED
        BY <4>1
    <3>2. /\ [diag.seen EXCEPT ![r] = value] \in UNION {[Regs(mode) -> Int] : mode \in ReadOnlyModes}
          /\ diag.asked \cup {r} \in SUBSET Registers
      BY <1>0, <1>2, <1>3, <3>1
    <3> QED
      BY <1>0, <1>5, <3>2 DEF Scripts
  <2> HIDE DEF answered
  <2>3. answered.seen \in [Regs(diag.mode) -> Int] /\ answered.seen[r] = value
        /\ \A q \in Regs(diag.mode) \ {r} : answered.seen[q] = diag.seen[q]
    BY <1>2, <1>3, <1>4, <2>1
  <2>4. ReadSoFar(answered) = ReadSoFar(diag) \cup {r}
    BY <2>1 DEF ReadSoFar
  <2>5. Told(answered, one)
    <3>1. ~answered.changed => \A q \in Regs(diag.mode) : answered.seen[q] \in {Unread, RegisterOf(one, q)}
      BY <1>2, <2>1, <2>3 DEF Told, value
    <3>2. \A p \in Parameters \cap Regs(diag.mode) : answered.seen[p] \in {Unread, Flag(p \in one.odd)}
      <4>1. r \in Parameters => value = Flag(r \in one.odd)
        BY DEF value, RegisterOf, Parameters
      <4> QED
        BY <1>2, <2>3, <4>1 DEF Told
    <3>3. answered.asked # {}
      BY <2>1
    <3>4. answered.unread = 0 => \A q \in ReadSoFar(answered) : answered.seen[q] # Unread
      <4>1. diag.unread = 0 => \A q \in ReadSoFar(diag) : diag.seen[q] # Unread
        BY <1>2 DEF Told
      <4>2. ReadSoFar(diag) \subseteq Regs(diag.mode)
        BY <1>0, <1>2, <1>3, OrderIsList DEF ReadSoFar
      <4> QED
        BY <1>4, <2>1, <2>3, <2>4, <4>1, <4>2
    <3> QED
      BY <2>1, <3>1, <3>2, <3>3, <3>4 DEF Told
  <2>6. answered.joint = "elbow_flex" => Summed(answered, "wrist_roll", servo["wrist_roll"])
    BY <1>0, <2>1 DEF ReadBooks, Summed
  <2>7. answered.mode = "register-diagnostic" /\ "Status" \in answered.asked =>
          StatusTold(answered, servo["wrist_roll"])
    <3> SUFFICES ASSUME answered.mode = "register-diagnostic", "Status" \in answered.asked
                 PROVE  StatusTold(answered, servo["wrist_roll"])
      OBVIOUS
    <3>1. one = servo["wrist_roll"]
      BY <1>0, <2>1 DEF ReadBooks, one
    <3>2. CASE r = "Status"
      BY <2>1, <2>3, <3>1, <3>2 DEF StatusTold, value, RegisterOf
    <3>3. CASE r # "Status"
      <4>1. StatusTold(diag, servo["wrist_roll"])
        BY <1>0, <2>1, <3>3 DEF ReadBooks
      <4>2. "Status" \in Regs(diag.mode)
        BY <2>1, RegsOfModes
      <4> QED
        BY <2>1, <2>3, <3>3, <4>1, <4>2 DEF StatusTold
    <3> QED
      BY <3>2, <3>3
  <2>8. ReadBooks(answered, servo)
    BY <1>0, <1>2, <2>1, <2>3, <2>5, <2>6, <2>7 DEF ReadBooks, one
  <2> QED
    BY <1>6, <1>7, <2>1, <2>2, <2>8
<1>8. CASE diag.mode # "dry-run" /\ Continues(failed)
  <2>1. /\ failed.mode = diag.mode /\ failed.list = diag.list /\ failed.unread = diag.unread + 1
        /\ failed.changed = diag.changed /\ failed.found = diag.found /\ failed.joint = diag.joint
        /\ failed.connected = diag.connected /\ failed.phase = "read"
        /\ failed.asked = diag.asked \cup {r} /\ failed.seen = diag.seen
    BY <1>0 DEF Scripts
  <2>2. failed \in Scripts
    <3>1. diag.unread + 1 \in Nat /\ diag.asked \cup {r} \in SUBSET Registers
      BY <1>2, <1>3
    <3> QED
      BY <1>0, <3>1 DEF Scripts
  <2> HIDE DEF failed
  <2>3. failed.unread > 0 /\ failed.unread # 0 /\ failed.asked # {}
    BY <1>2, <2>1
  <2>4. Told(failed, one)
    BY <1>2, <2>1, <2>3 DEF Told
  <2>5. failed.joint = "elbow_flex" => Summed(failed, "wrist_roll", servo["wrist_roll"])
    BY <1>0, <2>1, <2>3 DEF ReadBooks, Summed
  <2>6. ReadBooks(failed, servo)
    BY <1>0, <1>2, <1>8, <2>1, <2>3, <2>4, <2>5 DEF ReadBooks, StatusTold, one
  <2> QED
    BY <1>6, <1>8, <2>1, <2>2, <2>6
<1>9. CASE Concludes([diag EXCEPT !.connected = FALSE])
  <2> DEFINE lost == [diag EXCEPT !.connected = FALSE]
  <2>1. lost \in Scripts /\ ~lost.connected
    BY <1>0 DEF Scripts
  <2> HIDE DEF lost
  <2>2. diag' \in Scripts /\ diag'.phase = "done" /\ DoneBooks(diag', servo)
    BY <1>9, <2>1, Ends DEF lost
  <2> QED
    BY <1>0, <2>2
<1> QED
  BY <1>1, <1>7, <1>8, <1>9

\* A servo changes: nothing was read yet, or it is noted.
LEMMA ServoKeeps ==
  ASSUME DiagnosisInvariant, ServoChanges
  PROVE  DiagnosisInvariant'
<1> USE DEF DiagnosisInvariant
<1>0. /\ diag \in Scripts /\ diag.phase = "read" /\ ReadBooks(diag, servo) /\ Open(diag)
      /\ servo \in [Servos -> ServoState] /\ changes' \in 0 .. MaxServoChanges
      /\ diag.mode \in ReadOnlyModes /\ diag.joint \in Servos
  BY DiagnosisAssumption DEF ServoChanges, InPhase, Scripts
<1>1. PICK s \in Servos :
       \/ InMotion(s) /\ servo' = [servo EXCEPT ![s].present = servo[s].goal]
       \/ ~servo[s].fault /\ servo' = [servo EXCEPT ![s].fault = TRUE, ![s].torque = FALSE, ![s].blocked = FALSE]
       \/ /\ ~servo[s].blocked
          /\ \E g \in {Expected, Expected + 1} \ {servo[s].goal} : servo' = [servo EXCEPT ![s].goal = g]
       \/ /\ ~servo[s].torque
          /\ \E p \in {servo[s].present - 1, servo[s].present + 1} \cap Ticks :
               servo' = [servo EXCEPT ![s].present = p]
  BY DEF ServoChanges, Servos
<1>2. Expected \in Ticks /\ Expected + 1 \in Ticks
  BY DiagnosisAssumption DEF Ticks, Planner!Ticks
<1>3. servo' \in [Servos -> ServoState] /\ \A q \in Servos : servo'[q].odd = servo[q].odd
  <2>0. servo[s] \in ServoState
    BY <1>0
  <2>1. CASE servo' = [servo EXCEPT ![s].present = servo[s].goal]
    <3>1. [servo[s] EXCEPT !.present = servo[s].goal] \in ServoState
      BY <1>2, <2>0 DEF ServoState
    <3>2. [servo[s] EXCEPT !.present = servo[s].goal].odd = servo[s].odd
      BY <2>0 DEF ServoState
    <3> QED
      BY <1>0, <2>1, <3>1, <3>2
  <2>2. CASE servo' = [servo EXCEPT ![s].fault = TRUE, ![s].torque = FALSE, ![s].blocked = FALSE]
    <3> DEFINE next == [servo[s] EXCEPT !.fault = TRUE, !.torque = FALSE, !.blocked = FALSE]
    <3>1. next \in ServoState /\ next.odd = servo[s].odd
      BY <2>0 DEF ServoState
    <3>2. servo' = [servo EXCEPT ![s] = next]
      BY <1>0, <2>0, <2>2 DEF ServoState
    <3> HIDE DEF next
    <3> QED
      BY <1>0, <3>1, <3>2
  <2>3. ASSUME NEW g \in {Expected, Expected + 1}, servo' = [servo EXCEPT ![s].goal = g]
        PROVE  servo' \in [Servos -> ServoState] /\ \A q \in Servos : servo'[q].odd = servo[q].odd
    <3>1. [servo[s] EXCEPT !.goal = g] \in ServoState
      BY <2>0 DEF ServoState
    <3>2. [servo[s] EXCEPT !.goal = g].odd = servo[s].odd
      BY <2>0 DEF ServoState
    <3> QED
      BY <1>0, <2>3, <3>1, <3>2
  <2>4. ASSUME NEW p \in Ticks, servo' = [servo EXCEPT ![s].present = p]
        PROVE  servo' \in [Servos -> ServoState] /\ \A q \in Servos : servo'[q].odd = servo[q].odd
    <3>1. [servo[s] EXCEPT !.present = p] \in ServoState
      BY <2>0 DEF ServoState
    <3>2. [servo[s] EXCEPT !.present = p].odd = servo[s].odd
      BY <2>0 DEF ServoState
    <3> QED
      BY <1>0, <2>4, <3>1, <3>2
  <2> QED
    BY <1>1, <2>1, <2>2, <2>3, <2>4
<1> DEFINE noted == diag.changed \/ diag.list > 1 \/ diag.asked # {} \/ diag.joint # "wrist_roll"
<1>4. diag' = [diag EXCEPT !.changed = noted]
  BY <1>0 DEF ServoChanges, Scripts
<1>5. /\ diag'.mode = diag.mode /\ diag'.list = diag.list /\ diag'.asked = diag.asked /\ diag'.seen = diag.seen
      /\ diag'.unread = diag.unread /\ diag'.found = diag.found /\ diag'.joint = diag.joint
      /\ diag'.connected = diag.connected /\ diag'.phase = "read" /\ diag'.changed = noted
  BY <1>0, <1>4 DEF Scripts
<1>6. diag' \in Scripts
  <2>1. noted \in BOOLEAN
    BY <1>0 DEF Scripts
  <2> HIDE DEF noted
  <2> QED
    BY <1>0, <1>4, <2>1 DEF Scripts
<1>7. /\ diag.connected /\ diag.list \in 1 .. Len(Order(diag.mode)) /\ diag.asked \subseteq Order(diag.mode)[diag.list]
      /\ diag.seen \in [Regs(diag.mode) -> Int] /\ Told(diag, servo[diag.joint]) /\ diag.list \in Nat
      /\ diag.list >= 1
  BY <1>0, OrderIsList DEF ReadBooks, Scripts
<1>8. ~noted => diag.list = 1 /\ diag.asked = {} /\ diag.joint = "wrist_roll"
  BY <1>7
<1> HIDE DEF noted
<1>9. Told(diag', servo'[diag'.joint])
  <2>1. ReadSoFar(diag') = ReadSoFar(diag)
    BY <1>5 DEF ReadSoFar
  <2>2. ~diag'.changed => \A r \in Regs(diag.mode) : diag'.seen[r] = Unread
    BY <1>5, <1>7, <1>8 DEF Told
  <2>3. servo'[diag.joint].odd = servo[diag.joint].odd
    BY <1>0, <1>3
  <2> QED
    BY <1>5, <1>7, <2>1, <2>2, <2>3 DEF Told
<1>10. diag'.joint = "elbow_flex" => Summed(diag', "wrist_roll", servo'["wrist_roll"])
  <2> SUFFICES ASSUME diag.joint = "elbow_flex" PROVE Summed(diag', "wrist_roll", servo'["wrist_roll"])
    BY <1>5
  <2>1. Summed(diag, "wrist_roll", servo["wrist_roll"])
    BY <1>0 DEF ReadBooks
  <2>2. servo'["wrist_roll"].odd = servo["wrist_roll"].odd
    BY <1>3 DEF Servos
  <2>3. diag'.changed
    BY <1>5, <1>8
  <2> QED
    BY <1>5, <2>1, <2>2, <2>3 DEF Summed
<1>11. diag.mode = "register-diagnostic" => "Status" \notin diag.asked
  <2> SUFFICES ASSUME diag.mode = "register-diagnostic", "Status" \in diag.asked PROVE FALSE
    OBVIOUS
  <2>1. "Status" \in Order(diag.mode)[diag.list]
    BY <1>7
  <2>2. Order(diag.mode)[diag.list] = {"Status"}
    <3>1. \A i \in 1 .. 5 : i = 1 \/ i = 2 \/ i = 3 \/ i = 4 \/ i = 5
      OBVIOUS
    <3>2. /\ Order(diag.mode)[1] = {"Torque_Enable"} /\ Order(diag.mode)[2] = {"Goal_Position"}
          /\ Order(diag.mode)[3] = {"Present_Position"} /\ Order(diag.mode)[4] = {"Moving"}
          /\ Order(diag.mode)[5] = {"Status"} /\ Len(Order(diag.mode)) = 5
      BY Orders
    <3> QED
      BY <1>7, <2>1, <3>1, <3>2
  <2> QED
    BY <1>0, <2>2 DEF Open
<1>12. ReadBooks(diag', servo')
  BY <1>0, <1>5, <1>7, <1>9, <1>10, <1>11 DEF ReadBooks
<1>13. Open(diag')
  BY <1>0, <1>5 DEF Open
<1> QED
  BY <1>0, <1>3, <1>5, <1>6, <1>12, <1>13

\* Every step of the component.
LEMMA DiagnosisStep == DiagnosisInvariant /\ [DiagnosisNext]_diagnosisVars => DiagnosisInvariant'
<1> SUFFICES ASSUME DiagnosisInvariant, [DiagnosisNext]_diagnosisVars PROVE DiagnosisInvariant'
  OBVIOUS
<1>1. CASE UNCHANGED diagnosisVars
  BY <1>1 DEF diagnosisVars, DiagnosisInvariant
<1> QED
  BY <1>1, PreparationKeeps, ReadKeeps, ServoKeeps DEF DiagnosisNext

-----------------------------------------------------------------------------
(***************************************************************************)
(* Least and greatest elements, by well-foundedness.                       *)
(***************************************************************************)
\* A set of numbers that is not empty has a least one.
LEMMA LeastExists ==
  ASSUME NEW T \in SUBSET Nat, T # {}
  PROVE  \E x \in T : \A y \in T : x <= y
<1> DEFINE R == OpToRel(<, Nat)
<1>1. IsWellFoundedOn(R, Nat)
  BY NatLessThanWellFounded
<1>2. \A y \in Nat, x \in Nat : y < x => <<y, x>> \in R
  BY DEF OpToRel
<1> HIDE DEF R
<1>3. PICK x \in T : \A y \in T : ~ (<<y, x>> \in R)
  BY <1>1, WFMin
<1>4. \A y \in T : ~ (y < x)
  BY <1>2, <1>3
<1> QED
  BY <1>3, <1>4

\* Min() of some directories is one of them.
LEMMA MinOfRoots ==
  ASSUME NEW T \in SUBSET Nat, T # {}
  PROVE  Min(T) \in T
BY LeastExists DEF Min

\* Of bounded numbers one is the greatest.
LEMMA GreatestExists ==
  ASSUME NEW T \in SUBSET Nat, T # {}, NEW bound \in Nat, \A x \in T : x <= bound
  PROVE  \E x \in T : \A y \in T : y <= x
<1> DEFINE D == {bound - x : x \in T}
<1>1. D \in SUBSET Nat /\ D # {}
  <2>1. \A x \in T : bound - x \in Nat
    OBVIOUS
  <2>2. PICK x \in T : TRUE
    OBVIOUS
  <2>3. bound - x \in D
    OBVIOUS
  <2> QED
    BY <2>1, <2>3
<1>2. PICK d \in D : \A e \in D : d <= e
  BY <1>1, LeastExists
<1>3. PICK x \in T : d = bound - x
  BY <1>2
<1>4. ASSUME NEW y \in T PROVE y <= x
  <2>1. d <= bound - y
    BY <1>2
  <2> QED
    BY <1>3, <2>1
<1> QED
  BY <1>4

-----------------------------------------------------------------------------
(***************************************************************************)
(* A percentile is a sample: of finitely many values there is one that     *)
(* has at most `trim` samples below it, and with itself more.              *)
(***************************************************************************)
AtMost(samples, f, v) == {s \in samples : f[s] <= v}
Below(samples, f, v) == {s \in samples : f[s] < v}

\* The greatest value of a part of the samples: all of the part are at most it.
LEMMA GreatestValue ==
  ASSUME NEW samples, IsFiniteSet(samples), NEW f \in [samples -> Int],
         NEW some \in SUBSET samples, some # {}
  PROVE  \E s \in some : \A r \in some : f[r] <= f[s]
<1> DEFINE Count(s) == Cardinality(AtMost(samples, f, f[s]))
           counts == {Count(s) : s \in some}
<1>1. \A s \in samples : /\ AtMost(samples, f, f[s]) \subseteq samples /\ IsFiniteSet(AtMost(samples, f, f[s]))
                         /\ Count(s) \in Nat /\ Count(s) <= Cardinality(samples)
  <2> SUFFICES ASSUME NEW s \in samples
               PROVE  /\ AtMost(samples, f, f[s]) \subseteq samples /\ IsFiniteSet(AtMost(samples, f, f[s]))
                      /\ Count(s) \in Nat /\ Count(s) <= Cardinality(samples)
    OBVIOUS
  <2>1. AtMost(samples, f, f[s]) \in SUBSET samples
    BY DEF AtMost
  <2>2. IsFiniteSet(AtMost(samples, f, f[s])) /\ Count(s) <= Cardinality(samples)
    BY <2>1, FS_Subset
  <2>3. Count(s) \in Nat
    BY <2>2, FS_CardinalityType
  <2> QED
    BY <2>1, <2>2, <2>3
<1>2. Cardinality(samples) \in Nat
  BY FS_CardinalityType
<1> HIDE DEF Count
<1>3. PICK m \in counts : \A n \in counts : n <= m
  <2>1. counts \in SUBSET Nat /\ counts # {} /\ \A n \in counts : n <= Cardinality(samples)
    BY <1>1
  <2> HIDE DEF counts
  <2> QED
    BY <1>2, <2>1, GreatestExists
<1>4. PICK s \in some : m = Count(s)
  BY <1>3
<1>5. ASSUME NEW r \in some, ~(f[r] <= f[s]) PROVE FALSE
  <2>1. f[r] \in Int /\ f[s] \in Int /\ f[s] < f[r]
    BY <1>5
  <2>2. AtMost(samples, f, f[s]) \in SUBSET AtMost(samples, f, f[r])
    BY <2>1 DEF AtMost
  <2>3. r \in AtMost(samples, f, f[r]) /\ r \notin AtMost(samples, f, f[s])
    BY <2>1 DEF AtMost
  <2>4. Count(s) <= Count(r) /\ Count(s) # Count(r)
    BY <1>1, <2>2, <2>3, FS_Subset DEF Count
  <2>5. Count(r) <= Count(s)
    BY <1>3, <1>4
  <2> QED
    BY <1>1, <2>4, <2>5
<1> QED
  BY <1>5

\* Of more samples than are trimmed one has no more than those below it, and more
\* than those up to it.
LEMMA PercentileExists ==
  ASSUME NEW samples, IsFiniteSet(samples), NEW f \in [samples -> Int],
         NEW trim \in Nat, trim < Cardinality(samples)
  PROVE  \E s \in samples : /\ Cardinality(Below(samples, f, f[s])) <= trim
                            /\ Cardinality(AtMost(samples, f, f[s])) > trim
<1> DEFINE enough == {s \in samples : Cardinality(AtMost(samples, f, f[s])) > trim}
           g == [s \in samples |-> -f[s]]
<1>0. Cardinality(samples) \in Nat
  BY FS_CardinalityType
<1>1. samples # {}
  BY <1>0, FS_EmptySet
<1>2. enough # {}
  <2>1. PICK s \in samples : \A r \in samples : f[r] <= f[s]
    BY <1>1, GreatestValue
  <2>2. AtMost(samples, f, f[s]) = samples
    BY <2>1 DEF AtMost
  <2> QED
    BY <2>2
<1>3. PICK s \in enough : \A r \in enough : f[s] <= f[r]
  <2>1. g \in [samples -> Int]
    OBVIOUS
  <2>2. PICK s \in enough : \A r \in enough : g[r] <= g[s]
    <3>1. enough \in SUBSET samples
      OBVIOUS
    <3> HIDE DEF enough, g
    <3> QED
      BY <1>2, <2>1, <3>1, GreatestValue
  <2>3. \A r \in enough : f[r] \in Int /\ f[s] \in Int /\ -f[r] <= -f[s]
    BY <2>2
  <2> QED
    BY <2>3
<1>4. Cardinality(Below(samples, f, f[s])) <= trim
  <2> DEFINE some == Below(samples, f, f[s])
  <2>1. some \in SUBSET samples
    BY DEF Below
  <2>2. CASE some = {}
    BY <2>2, FS_EmptySet
  <2>3. CASE some # {}
    <3>1. PICK r \in some : \A q \in some : f[q] <= f[r]
      <4> HIDE DEF some
      <4> QED
        BY <2>1, <2>3, GreatestValue
    <3>2. some = AtMost(samples, f, f[r])
      <4>1. f[r] < f[s] /\ f[r] \in Int /\ f[s] \in Int
        BY <3>1 DEF Below
      <4>2. \A q \in samples : f[q] \in Int
        OBVIOUS
      <4> QED
        BY <3>1, <4>1, <4>2 DEF Below, AtMost
    <3>3. r \in samples /\ ~(f[s] <= f[r])
      BY <3>1 DEF Below
    <3>4. r \notin enough
      BY <1>3, <3>3
    <3>5. ~(Cardinality(AtMost(samples, f, f[r])) > trim)
      BY <3>3, <3>4
    <3>6. Cardinality(some) \in Nat
      BY <2>1, FS_Subset, FS_CardinalityType
    <3>7. Cardinality(AtMost(samples, f, f[r])) <= trim
      BY <3>2, <3>5, <3>6
    <3> QED
      BY <3>2, <3>7
  <2> QED
    BY <2>2, <2>3
<1> QED
  BY <1>3, <1>4

-----------------------------------------------------------------------------
(***************************************************************************)
(* The result for a joint.  A pool holds for some directories what was     *)
(* loaded from them.                                                       *)
(***************************************************************************)
Contents == [recording : Recordings, frames : 0 .. LastFrame, tasks : {0, 1}]
Books == UNION {[D -> Contents] : D \in SUBSET Roots}

FrameOf(pool, sample) == <<pool[sample[1]].recording, sample[2]>>
FramesIn(pool) == UNION {{<<p.recording, i>> : i \in 1 .. p.frames} : p \in Range(pool)}

\* A book has an entry for each of its directories.
LEMMA BookEntries ==
  ASSUME NEW book \in Books
  PROVE  /\ DOMAIN book \in SUBSET Roots /\ book = [r \in DOMAIN book |-> book[r]]
         /\ \A r \in DOMAIN book : book[r] \in Contents
<1>1. PICK D \in SUBSET Roots : book \in [D -> Contents]
  BY DEF Books
<1> QED
  BY <1>1

\* One more entry, in front of those there are.
LEMMA BookGrows ==
  ASSUME NEW book \in Books, NEW root \in Roots, NEW content \in Contents
  PROVE  /\ Entered(book, root, content) \in Books
         /\ DOMAIN Entered(book, root, content) = DOMAIN book \cup {root}
<1>1. DOMAIN book \in SUBSET Roots /\ \A r \in DOMAIN book : book[r] \in Contents
  BY BookEntries
<1>2. Entered(book, root, content) \in [DOMAIN book \cup {root} -> Contents]
  BY <1>1 DEF Entered
<1> QED
  BY <1>1, <1>2 DEF Books

\* The samples of a pool are finitely many, and each is the angle of a frame.
LEMMA SamplesOfPool ==
  ASSUME NEW pool \in Books
  PROVE  /\ IsFiniteSet(PooledSamples(pool))
         /\ \A s \in PooledSamples(pool) : /\ s[1] \in DOMAIN pool /\ s[2] \in 1 .. LastFrame
                                           /\ s = <<s[1], s[2]>>
                                           /\ s[2] \in 1 .. pool[s[1]].frames
                                           /\ Value(pool, s) \in Int /\ Value(pool, s) # NotFinite
         /\ \A s \in PooledSamples(pool) : FrameOf(pool, s) \in FramesIn(pool)
         /\ IsFiniteSet(FramesIn(pool))
<1>0. LastFrame \in Nat /\ \A recording \in Recordings, i \in 1 .. LastFrame : Angle(recording, i) \in Int
  BY RangesAssumption
<1>1. DOMAIN pool \in SUBSET Roots /\ pool = [r \in DOMAIN pool |-> pool[r]] /\ \A r \in DOMAIN pool : pool[r] \in Contents
  BY BookEntries
<1>2. \A r \in DOMAIN pool : pool[r].recording \in Recordings /\ pool[r].frames \in 0 .. LastFrame
  BY <1>1 DEF Contents
<1>3. IsFiniteSet((DOMAIN pool) \X (1 .. LastFrame))
  <2>1. IsFiniteSet(DOMAIN pool)
    BY <1>1, RangesAssumption, FS_Subset
  <2>2. IsFiniteSet(1 .. LastFrame)
    BY <1>0, FS_Interval
  <2> QED
    BY <2>1, <2>2, FS_Product
<1>4. IsFiniteSet(PooledSamples(pool))
  BY <1>3, FS_Subset DEF PooledSamples
<1>5. ASSUME NEW s \in PooledSamples(pool)
      PROVE  /\ s[1] \in DOMAIN pool /\ s[2] \in 1 .. LastFrame /\ s = <<s[1], s[2]>>
             /\ s[2] \in 1 .. pool[s[1]].frames
             /\ Value(pool, s) \in Int /\ Value(pool, s) # NotFinite
  <2>1. s \in (DOMAIN pool) \X (1 .. LastFrame) /\ s[2] <= pool[s[1]].frames /\ Value(pool, s) # NotFinite
    BY DEF PooledSamples
  <2>2. s[1] \in DOMAIN pool /\ s[2] \in 1 .. LastFrame /\ s = <<s[1], s[2]>>
    BY <2>1
  <2>3. s[2] \in 1 .. pool[s[1]].frames
    BY <1>0, <1>2, <2>1, <2>2
  <2>4. Value(pool, s) \in Int
    BY <1>0, <1>2, <2>2 DEF Value
  <2> QED
    BY <2>1, <2>2, <2>3, <2>4
<1>6. ASSUME NEW s \in PooledSamples(pool) PROVE FrameOf(pool, s) \in FramesIn(pool)
  <2>1. pool[s[1]] \in Range(pool)
    BY <1>1, <1>5 DEF Range
  <2> QED
    BY <1>5, <2>1 DEF FrameOf, FramesIn
<1>7. IsFiniteSet(FramesIn(pool))
  <2> DEFINE places == {s \in (DOMAIN pool) \X (1 .. LastFrame) : s[2] <= pool[s[1]].frames}
             g == [s \in places |-> FrameOf(pool, s)]
  <2>1. IsFiniteSet(places)
    BY <1>3, FS_Subset
  <2>2. ASSUME NEW s \in places PROVE FrameOf(pool, s) \in FramesIn(pool)
    <3>1. s[1] \in DOMAIN pool /\ s[2] \in 1 .. pool[s[1]].frames
      BY <1>0, <1>2
    <3>2. pool[s[1]] \in Range(pool)
      BY <1>1, <3>1 DEF Range
    <3> QED
      BY <3>1, <3>2 DEF FrameOf, FramesIn
  <2>3. ASSUME NEW frame \in FramesIn(pool) PROVE \E s \in places : FrameOf(pool, s) = frame
    <3>1. PICK p \in Range(pool) : \E i \in 1 .. p.frames : frame = <<p.recording, i>>
      BY DEF FramesIn
    <3>2. PICK i \in 1 .. p.frames : frame = <<p.recording, i>>
      BY <3>1
    <3>3. PICK r \in DOMAIN pool : p = pool[r]
      BY <1>1, <3>1 DEF Range
    <3>4. i \in 1 .. LastFrame /\ i <= pool[r].frames
      BY <1>0, <1>2, <3>2, <3>3
    <3>5. <<r, i>> \in places
      BY <3>4
    <3>6. FrameOf(pool, <<r, i>>) = frame
      BY <3>2, <3>3 DEF FrameOf
    <3> QED
      BY <3>5, <3>6
  <2> HIDE DEF places
  <2>4. g \in Surjection(places, FramesIn(pool))
    BY <2>2, <2>3 DEF Surjection
  <2> HIDE DEF g
  <2> QED
    BY <2>1, <2>4, FS_Surjection
<1> QED
  BY <1>4, <1>5, <1>6, <1>7

\* Fewer samples are left out at an end than there are.
LEMMA TrimIsLess ==
  ASSUME NEW count \in Nat, count > 0
  PROVE  count \div TrimEvery \in Nat /\ count \div TrimEvery < count
<1>1. TrimEvery \in Nat /\ TrimEvery >= 2
  BY RangesAssumption
<1> QED
  BY <1>1

\* Both percentiles are angles of samples.
LEMMA PercentilesSampled ==
  ASSUME NEW pool \in Books, PooledSamples(pool) # {}
  PROVE  /\ \E s \in PooledSamples(pool) : Lowest(pool) = Value(pool, s)
         /\ \E s \in PooledSamples(pool) : Highest(pool) = Value(pool, s)
<1> DEFINE samples == PooledSamples(pool)
           values == {Value(pool, s) : s \in PooledSamples(pool)}
           f == [s \in samples |-> Value(pool, s)]
           g == [s \in samples |-> -Value(pool, s)]
<1>1. IsFiniteSet(samples) /\ \A s \in samples : Value(pool, s) \in Int
  BY SamplesOfPool
<1>2. Trim(pool) \in Nat /\ Trim(pool) < Cardinality(samples)
  <2>1. Cardinality(samples) \in Nat /\ Cardinality(samples) > 0
    BY <1>1, FS_CardinalityType, FS_EmptySet
  <2> QED
    BY <2>1, TrimIsLess DEF Trim
<1>3. f \in [samples -> Int] /\ g \in [samples -> Int]
  BY <1>1
<1>4. \E v \in values : /\ Cardinality({s \in PooledSamples(pool) : Value(pool, s) < v}) <= Trim(pool)
                        /\ Cardinality({s \in PooledSamples(pool) : Value(pool, s) <= v}) > Trim(pool)
  <2>1. PICK s \in samples : /\ Cardinality(Below(samples, f, f[s])) <= Trim(pool)
                             /\ Cardinality(AtMost(samples, f, f[s])) > Trim(pool)
    <3> HIDE DEF samples, f
    <3> QED
      BY <1>1, <1>2, <1>3, PercentileExists
  <2>2. Below(samples, f, f[s]) = {q \in PooledSamples(pool) : Value(pool, q) < Value(pool, s)}
    BY DEF Below
  <2>3. AtMost(samples, f, f[s]) = {q \in PooledSamples(pool) : Value(pool, q) <= Value(pool, s)}
    BY DEF AtMost
  <2> QED
    BY <2>1, <2>2, <2>3
<1>5. \E v \in values : /\ Cardinality({s \in PooledSamples(pool) : Value(pool, s) > v}) <= Trim(pool)
                        /\ Cardinality({s \in PooledSamples(pool) : Value(pool, s) >= v}) > Trim(pool)
  <2>1. PICK s \in samples : /\ Cardinality(Below(samples, g, g[s])) <= Trim(pool)
                             /\ Cardinality(AtMost(samples, g, g[s])) > Trim(pool)
    <3> HIDE DEF samples, g
    <3> QED
      BY <1>1, <1>2, <1>3, PercentileExists
  <2>2. Below(samples, g, g[s]) = {q \in PooledSamples(pool) : Value(pool, q) > Value(pool, s)}
    BY <1>1 DEF Below
  <2>3. AtMost(samples, g, g[s]) = {q \in PooledSamples(pool) : Value(pool, q) >= Value(pool, s)}
    BY <1>1 DEF AtMost
  <2> QED
    BY <2>1, <2>2, <2>3
<1>6. Lowest(pool) \in values
  BY <1>4 DEF Lowest
<1>7. Highest(pool) \in values
  BY <1>5 DEF Highest
<1> QED
  BY <1>6, <1>7

-----------------------------------------------------------------------------
(***************************************************************************)
(* What is written is right of the pool it was computed from.              *)
(***************************************************************************)
Statuses == {"none", "UNTRUSTED_SOURCE", "INSUFFICIENT_SAMPLES", "MARGIN_COLLAPSED", "TRUSTED"}

\* A pool of directories that were kept as first of their kind, when what they held
\* was `judged`.
Kept(pool, judged) == DOMAIN pool \in SUBSET Deduplicated(judged)

\* A range that is given out lies between two samples, the margin left out.
LEMMA TrustedIsSampled ==
  ASSUME NEW pool \in Books, NEW book, NEW given, given = JointResult(pool, book)
  PROVE  /\ given.used = pool /\ given.judged = book /\ given.status \in Statuses
         /\ given.status = "TRUSTED" =>
              /\ Cardinality(PooledSamples(pool)) >= MinimumSamples
              /\ given.low < given.high
              /\ \E s \in PooledSamples(pool) : Value(pool, s) + RangeMargin = given.low
              /\ \E s \in PooledSamples(pool) : Value(pool, s) - RangeMargin = given.high
<1> DEFINE of(status, low, high) ==
             [whole |-> TRUE, status |-> status, low |-> low, high |-> high, used |-> pool, judged |-> book]
<1>1. \A status, low, high :
        /\ of(status, low, high).used = pool /\ of(status, low, high).judged = book
        /\ of(status, low, high).status = status
        /\ of(status, low, high).low = low /\ of(status, low, high).high = high
  OBVIOUS
<1>2. given =
        IF PooledSamples(pool) = {} THEN of("UNTRUSTED_SOURCE", 0, 0)
        ELSE IF Cardinality(PooledSamples(pool)) < MinimumSamples THEN of("INSUFFICIENT_SAMPLES", 0, 0)
        ELSE IF Lowest(pool) + RangeMargin >= Highest(pool) - RangeMargin THEN of("MARGIN_COLLAPSED", 0, 0)
        ELSE of("TRUSTED", Lowest(pool) + RangeMargin, Highest(pool) - RangeMargin)
  BY DEF JointResult
<1> HIDE DEF of
<1>3. \/ \E status \in Statuses \ {"TRUSTED"} : given = of(status, 0, 0)
      \/ /\ PooledSamples(pool) # {} /\ ~(Cardinality(PooledSamples(pool)) < MinimumSamples)
         /\ ~(Lowest(pool) + RangeMargin >= Highest(pool) - RangeMargin)
         /\ given = of("TRUSTED", Lowest(pool) + RangeMargin, Highest(pool) - RangeMargin)
  BY <1>2 DEF Statuses
<1>4. CASE \E status \in Statuses \ {"TRUSTED"} : given = of(status, 0, 0)
  BY <1>1, <1>4
<1>5. CASE /\ PooledSamples(pool) # {} /\ ~(Cardinality(PooledSamples(pool)) < MinimumSamples)
           /\ ~(Lowest(pool) + RangeMargin >= Highest(pool) - RangeMargin)
           /\ given = of("TRUSTED", Lowest(pool) + RangeMargin, Highest(pool) - RangeMargin)
  <2>1. PICK s \in PooledSamples(pool) : Lowest(pool) = Value(pool, s)
    BY <1>5, PercentilesSampled
  <2>2. PICK q \in PooledSamples(pool) : Highest(pool) = Value(pool, q)
    BY <1>5, PercentilesSampled
  <2>3. Value(pool, s) \in Int /\ Value(pool, q) \in Int /\ RangeMargin \in Nat /\ MinimumSamples \in Nat
    BY SamplesOfPool, RangesAssumption
  <2>4. Cardinality(PooledSamples(pool)) \in Nat
    BY SamplesOfPool, FS_CardinalityType
  <2>5. /\ given.used = pool /\ given.judged = book /\ given.status = "TRUSTED"
        /\ given.low = Value(pool, s) + RangeMargin /\ given.high = Value(pool, q) - RangeMargin
    BY <1>1, <1>5, <2>1, <2>2
  <2>6. given.low < given.high /\ Cardinality(PooledSamples(pool)) >= MinimumSamples
    BY <1>5, <2>1, <2>2, <2>3, <2>4, <2>5
  <2>7. given.status \in Statuses
    BY <2>5 DEF Statuses
  <2> QED
    BY <2>5, <2>6, <2>7
<1> QED
  BY <1>3, <1>4, <1>5

\* SamplesOfPool of different recordings are of different frames.
LEMMA DifferentFrames ==
  ASSUME NEW pool \in Books,
         \A r, q \in DOMAIN pool : pool[r].recording = pool[q].recording => r = q
  PROVE  Cardinality(PooledSamples(pool)) <= Cardinality(FramesIn(pool))
<1> DEFINE samples == PooledSamples(pool)
           g == [s \in samples |-> FrameOf(pool, s)]
<1>1. ASSUME NEW s \in samples, NEW q \in samples, FrameOf(pool, s) = FrameOf(pool, q) PROVE s = q
  <2>1. pool[s[1]].recording = pool[q[1]].recording /\ s[2] = q[2]
    BY <1>1 DEF FrameOf
  <2>2. s[1] \in DOMAIN pool /\ q[1] \in DOMAIN pool /\ s = <<s[1], s[2]>> /\ q = <<q[1], q[2]>>
    BY SamplesOfPool
  <2>3. s[1] = q[1]
    BY <2>1, <2>2
  <2> QED
    BY <2>1, <2>2, <2>3
<1>2. \A s \in samples : FrameOf(pool, s) \in FramesIn(pool)
  BY SamplesOfPool
<1> HIDE DEF samples
<1>3. g \in Injection(samples, FramesIn(pool))
  BY <1>1, <1>2 DEF Injection, IsInjective
<1> HIDE DEF g
<1>4. IsFiniteSet(FramesIn(pool))
  BY SamplesOfPool
<1> QED
  BY <1>3, <1>4, FS_Injection DEF samples

\* The file, when it is filled.
LEMMA FilledRight ==
  ASSUME NEW pool \in Books, NEW judged \in Books, Kept(pool, judged),
         ranges' = JointResult(pool, judged)
  PROVE  ranges'.status \in Statuses /\ RangeWasVisited' /\ EnoughFrames'
<1>1. /\ ranges'.used = pool /\ ranges'.judged = judged /\ ranges'.status \in Statuses
      /\ ranges'.status = "TRUSTED" =>
           /\ Cardinality(PooledSamples(pool)) >= MinimumSamples
           /\ ranges'.low < ranges'.high
           /\ \E s \in PooledSamples(pool) : Value(pool, s) + RangeMargin = ranges'.low
           /\ \E s \in PooledSamples(pool) : Value(pool, s) - RangeMargin = ranges'.high
  BY TrustedIsSampled
<1>2. FramesSeen' = FramesIn(pool)
  BY <1>1 DEF FramesSeen, FramesIn
<1>3. \A s \in PooledSamples(pool) : /\ FrameOf(pool, s) \in FramesIn(pool)
                                     /\ Value(pool, s) \in Int /\ Value(pool, s) # NotFinite
                                     /\ Angle(FrameOf(pool, s)[1], FrameOf(pool, s)[2]) = Value(pool, s)
  BY SamplesOfPool DEF FrameOf, Value
<1>4. ASSUME ranges'.status = "TRUSTED" PROVE RangeWasVisited'
  <2>0. RangeMargin \in Nat
    BY RangesAssumption
  <2>1. PICK s \in PooledSamples(pool) : Value(pool, s) + RangeMargin = ranges'.low
    BY <1>1, <1>4
  <2>2. PICK q \in PooledSamples(pool) : Value(pool, q) - RangeMargin = ranges'.high
    BY <1>1, <1>4
  <2>3. \E f \in FramesSeen' : Angle(f[1], f[2]) # NotFinite /\ Angle(f[1], f[2]) + RangeMargin <= ranges'.low
    <3>1. Value(pool, s) + RangeMargin <= ranges'.low
      BY <1>3, <2>0, <2>1
    <3> QED
      BY <1>2, <1>3, <3>1
  <2>4. \E f \in FramesSeen' : Angle(f[1], f[2]) - RangeMargin >= ranges'.high
    <3>1. Value(pool, q) - RangeMargin >= ranges'.high
      BY <1>3, <2>0, <2>2
    <3> QED
      BY <1>2, <1>3, <3>1
  <2> QED
    BY <1>1, <1>4, <2>3, <2>4 DEF RangeWasVisited
<1>5. ASSUME ranges'.status = "TRUSTED" PROVE EnoughFrames'
  <2>1. CASE \A r, q \in DOMAIN pool : pool[r].recording = pool[q].recording => r = q
    <3>1. Cardinality(PooledSamples(pool)) <= Cardinality(FramesIn(pool))
      BY <2>1, DifferentFrames
    <3>2. Cardinality(PooledSamples(pool)) \in Nat /\ Cardinality(FramesIn(pool)) \in Nat /\ MinimumSamples \in Nat
      BY SamplesOfPool, FS_CardinalityType, RangesAssumption
    <3>3. Cardinality(FramesIn(pool)) >= MinimumSamples
      BY <1>1, <1>5, <3>1, <3>2
    <3> QED
      BY <1>2, <3>3 DEF EnoughFrames
  <2>2. CASE \E r, q \in DOMAIN pool : pool[r].recording = pool[q].recording /\ r # q
    <3>1. PICK r \in DOMAIN pool, q \in DOMAIN pool : pool[r].recording = pool[q].recording /\ r # q
      BY <2>2
    <3>2. ASSUME pool[r] = pool[q], pool = [root \in DOMAIN pool |-> judged[root]] PROVE FALSE
      <4>1. judged[r] = judged[q]
        BY <3>1, <3>2
      <4>2. r \in Deduplicated(judged) /\ q \in Deduplicated(judged)
        BY <3>1 DEF Kept
      <4>3. r <= q /\ q <= r
        BY <4>1, <4>2 DEF Deduplicated
      <4>4. r \in Nat /\ q \in Nat
        BY <3>1, BookEntries, RangesAssumption
      <4> QED
        BY <3>1, <4>3, <4>4
    <3>3. \/ pool[r] # pool[q]
          \/ pool # [root \in DOMAIN pool |-> judged[root]]
      BY <3>2
    <3>4. \E x, y \in DOMAIN pool :
            /\ x # y /\ pool[x].recording = pool[y].recording
            /\ pool[x] # pool[y] \/ pool # [root \in DOMAIN pool |-> judged[root]]
      BY <3>1, <3>3
    <3> QED
      BY <1>1, <3>4 DEF EnoughFrames
  <2> QED
    BY <2>1, <2>2
<1> QED
  BY <1>1, <1>4, <1>5 DEF RangeWasVisited, EnoughFrames

-----------------------------------------------------------------------------
(***************************************************************************)
(* The analysis while the directories change.                              *)
(***************************************************************************)
Directories == [info : Excluded \cup {"fine"}, recording : Recordings, tasks : {0, 1}, frames : 0 .. LastFrame]
Analyses == [phase : {"idle", "judge", "load", "write", "fill"}, todo : SUBSET Roots, hashes : Books,
             pool : Books, judged : Books, runs : Nat]

DiskShape ==
  /\ DOMAIN disk = Roots /\ diskChanges \in 0 .. MaxDiskChanges
  /\ search.angles = <<>> => disk \in [Roots -> Directories]

AnalysisBooks ==
  /\ analysis \in Analyses /\ analysis.hashes = analysis.judged
  /\ search.angles # <<>> => analysis = Idle(MaxAnalyses)
  /\ analysis.phase \in {"judge", "load"} => analysis.todo # {}
  /\ analysis.phase \in {"idle", "judge"} => DOMAIN analysis.pool = {}
  /\ analysis.phase \in {"load", "write", "fill"} =>
       analysis.todo \cup DOMAIN analysis.pool \subseteq Deduplicated(analysis.judged)

FileRight == ranges.status \in Statuses /\ RangeWasVisited /\ EnoughFrames

OutsideOf(angles) == {i \in 1 .. Len(angles) : Over(angles[i])}
InRuns(runs) == UNION {r[1] .. r[2] : r \in runs}
Searches == [angles : Seq(SearchedCommands), i : Nat, inRun : BOOLEAN, start : Nat, runs : SUBSET (Nat \X Nat)]

\* The runs so far, with the one that is going on, are the frames outside so far.
SearchBooks ==
  /\ search \in Searches /\ search.i \in 1 .. Len(search.angles) + 2
  /\ \A r \in search.runs : {r[1] - 1, r[2] + 1} \cap OutsideOf(search.angles) = {}
  /\ search.i = Len(search.angles) + 2 => InRuns(search.runs) = OutsideOf(search.angles)
  /\ search.i < Len(search.angles) + 2 =>
       /\ InRuns(search.runs) \cup (IF search.inRun THEN search.start .. (search.i - 1) ELSE {})
            = {j \in OutsideOf(search.angles) : j < search.i}
       /\ IF search.inRun
          THEN search.start \in 1 .. (search.i - 1) /\ search.start - 1 \notin OutsideOf(search.angles)
          ELSE search.i - 1 \notin OutsideOf(search.angles)

RangesInvariant == DiskShape /\ AnalysisBooks /\ FileRight /\ SearchBooks

\* An idle analysis has no books.
LEMMA IdleBooks ==
  ASSUME NEW runs \in Nat
  PROVE  /\ Idle(runs) \in Analyses /\ Idle(runs).hashes = Idle(runs).judged
         /\ Idle(runs).phase = "idle" /\ DOMAIN Idle(runs).pool = {} /\ Idle(runs).runs = runs
<1>1. <<>> \in Books /\ DOMAIN <<>> = {}
  <2>1. <<>> \in [{} -> Contents] /\ DOMAIN <<>> = {}
    OBVIOUS
  <2> QED
    BY <2>1 DEF Books
<1> QED
  BY <1>1 DEF Idle, Analyses

\* Neither directories nor a search have anything to do with the other at the start.
LEMMA RangesBegin == RangesInit => RangesInvariant
<1> SUFFICES ASSUME RangesInit PROVE RangesInvariant
  OBVIOUS
<1>0. LastFrame \in Nat /\ MaxAnalyses \in Nat /\ MaxDiskChanges \in Nat
  BY RangesAssumption
<1>1. FileRight
  <2>1. ranges.status = "none"
    BY DEF RangesInit, NoFile
  <2> QED
    BY <2>1 DEF FileRight, RangeWasVisited, EnoughFrames, Statuses
<1>2. CASE /\ \E info \in Excluded \cup {"fine"}, recording \in [Roots -> Recordings], frames \in 1 .. LastFrame :
                 disk = [root \in Roots |-> [info |-> IF root = 1 THEN info ELSE "fine",
                                             recording |-> recording[root], tasks |-> 0,
                                             frames |-> IF root = 1 THEN frames ELSE LastFrame]]
           /\ analysis = Idle(0)
           /\ search = [angles |-> <<>>, i |-> 1, inRun |-> FALSE, start |-> 0, runs |-> {}]
  <2>1. DiskShape
    BY <1>0, <1>2 DEF RangesInit, DiskShape, Directories
  <2>2. AnalysisBooks
    BY <1>2, IdleBooks DEF AnalysisBooks
  <2>3. SearchBooks
    <3>1. search.angles = <<>> /\ Len(search.angles) = 0 /\ search.i = 1 /\ ~search.inRun /\ search.runs = {}
          /\ search \in Searches
      BY <1>2 DEF Searches
    <3>2. OutsideOf(search.angles) = {} /\ InRuns(search.runs) = {}
      BY <3>1 DEF OutsideOf, InRuns
    <3> QED
      BY <3>1, <3>2 DEF SearchBooks
  <2> QED
    BY <1>1, <2>1, <2>2, <2>3 DEF RangesInvariant
<1>3. CASE /\ disk = [root \in Roots |-> [info |-> "absent", recording |-> 1, tasks |-> 0, frames |-> 0]]
           /\ analysis = Idle(MaxAnalyses)
           /\ \E n \in 1 .. SearchedFrames : \E angles \in [1 .. n -> SearchedCommands] :
                search = [angles |-> angles, i |-> 1, inRun |-> FALSE, start |-> 0, runs |-> {}]
  <2>1. PICK n \in 1 .. SearchedFrames : \E angles \in [1 .. n -> SearchedCommands] :
          search = [angles |-> angles, i |-> 1, inRun |-> FALSE, start |-> 0, runs |-> {}]
    BY <1>3
  <2>7. PICK angles \in [1 .. n -> SearchedCommands] :
          search = [angles |-> angles, i |-> 1, inRun |-> FALSE, start |-> 0, runs |-> {}]
    BY <2>1
  <2>2. n \in Nat /\ n >= 1
    BY RangesAssumption
  <2>3. angles \in Seq(SearchedCommands) /\ Len(angles) = n /\ angles # <<>>
    BY <2>2
  <2>4. DiskShape
    BY <1>0, <1>3, <2>7, <2>3 DEF RangesInit, DiskShape
  <2>5. AnalysisBooks
    BY <1>0, <1>3, IdleBooks DEF AnalysisBooks
  <2>6. SearchBooks
    <3>1. /\ search.angles = angles /\ search.i = 1 /\ ~search.inRun /\ search.runs = {} /\ search \in Searches
      BY <2>7, <2>3 DEF Searches
    <3>2. {j \in OutsideOf(angles) : j < 1} = {} /\ 0 \notin OutsideOf(angles) /\ InRuns({}) = {}
      BY <2>2, <2>3 DEF OutsideOf, InRuns
    <3> QED
      BY <2>2, <2>3, <3>1, <3>2 DEF SearchBooks
  <2> QED
    BY <1>1, <2>4, <2>5, <2>6 DEF RangesInvariant
<1> QED
  BY <1>2, <1>3 DEF RangesInit

\* What is in the file stays right while nobody writes it.
LEMMA FileStays ==
  ASSUME RangesInvariant, ranges' = ranges
  PROVE  FileRight'
<1>1. FramesSeen' = FramesSeen
  BY DEF FramesSeen
<1> QED
  BY <1>1 DEF RangesInvariant, FileRight, RangeWasVisited, EnoughFrames

\* Directories change: one stays a directory with whatever is in it.
LEMMA DiskKeeps ==
  ASSUME RangesInvariant, DiskChanges
  PROVE  RangesInvariant'
<1>0. LastFrame \in Nat /\ MaxDiskChanges \in Nat
  BY RangesAssumption
<1>1. search.angles = <<>> /\ disk \in [Roots -> Directories]
  BY DEF DiskChanges, RangesInvariant, DiskShape
<1>2. PICK root \in Roots :
        \/ disk[root].frames < LastFrame /\ disk' = [disk EXCEPT ![root].frames = @ + 1]
        \/ disk' = [disk EXCEPT ![root].info = "absent", ![root].frames = 0]
        \/ \E from \in Roots \ {root}, tasks \in {0, 1} :
             disk' = [disk EXCEPT ![root] = [disk[from] EXCEPT !.tasks = tasks]]
  BY DEF DiskChanges
<1>3. disk' \in [Roots -> Directories]
  <2>1. CASE disk[root].frames < LastFrame /\ disk' = [disk EXCEPT ![root].frames = @ + 1]
    <3>1. disk[root] \in Directories /\ disk[root].frames + 1 \in 0 .. LastFrame
      BY <1>0, <1>1, <2>1 DEF Directories
    <3>2. [disk[root] EXCEPT !.frames = @ + 1] \in Directories
      BY <3>1 DEF Directories
    <3> QED
      BY <1>1, <2>1, <3>2
  <2>2. CASE disk' = [disk EXCEPT ![root].info = "absent", ![root].frames = 0]
    <3>1. disk[root] \in Directories /\ "absent" \in Excluded /\ 0 \in 0 .. LastFrame
      BY <1>0, <1>1 DEF Excluded
    <3>2. [disk[root] EXCEPT !.info = "absent", !.frames = 0] \in Directories
      BY <3>1 DEF Directories
    <3>3. disk' = [disk EXCEPT ![root] = [disk[root] EXCEPT !.info = "absent", !.frames = 0]]
      BY <1>1, <2>2 DEF Directories
    <3> QED
      BY <1>1, <3>2, <3>3
  <2>3. ASSUME NEW from \in Roots \ {root}, NEW tasks \in {0, 1},
               disk' = [disk EXCEPT ![root] = [disk[from] EXCEPT !.tasks = tasks]]
        PROVE  disk' \in [Roots -> Directories]
    <3>1. disk[from] \in Directories
      BY <1>1
    <3>2. [disk[from] EXCEPT !.tasks = tasks] \in Directories
      BY <3>1 DEF Directories
    <3> QED
      BY <1>1, <2>3, <3>2
  <2> QED
    BY <1>2, <2>1, <2>2, <2>3
<1>4. diskChanges' \in 0 .. MaxDiskChanges
  BY <1>0 DEF DiskChanges, RangesInvariant, DiskShape
<1>5. UNCHANGED <<analysis, ranges, search>>
  BY DEF DiskChanges
<1>6. DiskShape'
  BY <1>1, <1>3, <1>4, <1>5 DEF DiskShape
<1>7. AnalysisBooks'
  BY <1>5 DEF RangesInvariant, AnalysisBooks
<1>8. FileRight'
  BY <1>5, FileStays
<1>9. SearchBooks'
  BY <1>5 DEF RangesInvariant, SearchBooks
<1> QED
  BY <1>6, <1>7, <1>8, <1>9 DEF RangesInvariant

\* What is in a directory is a content, at any moment of an analysis.
LEMMA AnalysisUnderWay ==
  ASSUME RangesInvariant, analysis.phase # "idle" \/ analysis.runs < MaxAnalyses
  PROVE  /\ search.angles = <<>> /\ analysis \in Analyses
         /\ \A root \in Roots : Content(root) \in Contents
<1>1. MaxAnalyses \in Nat /\ ~(MaxAnalyses < MaxAnalyses)
  BY RangesAssumption
<1>2. search.angles = <<>>
  BY <1>1, IdleBooks DEF RangesInvariant, AnalysisBooks
<1>3. disk \in [Roots -> Directories]
  BY <1>2 DEF RangesInvariant, DiskShape
<1> QED
  <2>1. ASSUME NEW root \in Roots PROVE Content(root) \in Contents
    <3>1. disk[root] \in Directories
      BY <1>3
    <3> QED
      BY <3>1 DEF Content, Contents, Directories
  <2> QED
    BY <1>2, <2>1 DEF RangesInvariant, AnalysisBooks

\* The analysis ends: its books are gone.
LEMMA AnalysisEnds ==
  ASSUME RangesInvariant, NEW runs \in Nat, search.angles = <<>>, search' = search,
         analysis' = Idle(runs)
  PROVE  AnalysisBooks'
<1>1. Idle(runs).phase = "idle"
  BY IdleBooks
<1> QED
  BY <1>1, IdleBooks DEF AnalysisBooks

\* A step of the analysis: its books stay right, and so does the file.
LEMMA AnalysisKeeps ==
  ASSUME RangesInvariant, Discovers \/ Evaluates \/ Loads \/ Truncates \/ Fills \/ Interrupted
  PROVE  AnalysisBooks' /\ FileRight'
<1> USE DEF RangesInvariant
<1>1. CASE Discovers
  <2>1. search.angles = <<>> /\ analysis \in Analyses
    BY <1>1, AnalysisUnderWay DEF Discovers
  <2>2. analysis.runs + 1 \in Nat
    BY <2>1 DEF Analyses
  <2>3. PICK candidates \in {Roots, {root \in Roots : disk[root].info # "absent"}} :
          analysis' = IF candidates = {} THEN Idle(analysis.runs + 1)
                      ELSE [Idle(analysis.runs + 1) EXCEPT !.phase = "judge", !.todo = candidates]
    BY <1>1 DEF Discovers
  <2>4. AnalysisBooks'
    <3>1. CASE candidates = {}
      BY <1>1, <2>1, <2>2, <2>3, <3>1, AnalysisEnds DEF Discovers
    <3>2. CASE candidates # {}
      <4> DEFINE began == [Idle(analysis.runs + 1) EXCEPT !.phase = "judge", !.todo = candidates]
      <4>1. candidates \in SUBSET Roots
        BY <2>3
      <4>2. Idle(analysis.runs + 1) \in Analyses /\ Idle(analysis.runs + 1).hashes = Idle(analysis.runs + 1).judged
            /\ DOMAIN Idle(analysis.runs + 1).pool = {}
        BY <2>2, IdleBooks
      <4>3. /\ began \in Analyses /\ began.hashes = began.judged /\ began.phase = "judge" /\ began.todo # {}
            /\ DOMAIN began.pool = {}
        BY <3>2, <4>1, <4>2 DEF Analyses
      <4>4. analysis' = began /\ search' = search
        BY <1>1, <2>3, <3>2 DEF Discovers
      <4> QED
        BY <2>1, <4>3, <4>4 DEF AnalysisBooks
    <3> QED
      BY <3>1, <3>2
  <2> QED
    BY <1>1, <2>4, FileStays DEF Discovers
<1>2. CASE Evaluates
  <2> DEFINE root == Min(analysis.todo)
             left == analysis.todo \ {root}
             hashes == IF Trusted(root) THEN Entered(analysis.hashes, root, ContentHash(root)) ELSE analysis.hashes
             judged == IF Trusted(root) THEN Entered(analysis.judged, root, Content(root)) ELSE analysis.judged
             used == Deduplicated(hashes)
             noted == [analysis EXCEPT !.hashes = hashes, !.judged = judged]
  <2>1. /\ search.angles = <<>> /\ analysis \in Analyses /\ analysis.phase = "judge"
        /\ \A r \in Roots : Content(r) \in Contents
    BY <1>2, AnalysisUnderWay DEF Evaluates
  <2>2. root \in analysis.todo /\ analysis.todo \in SUBSET Roots
    <3>1. analysis.todo \in SUBSET Nat /\ analysis.todo # {} /\ analysis.todo \in SUBSET Roots
      BY <2>1, RangesAssumption DEF AnalysisBooks, Analyses
    <3> QED
      BY <3>1, MinOfRoots
  <2>3. hashes = judged /\ judged \in Books
    <3>1. analysis.hashes = analysis.judged /\ analysis.judged \in Books
      BY <2>1 DEF AnalysisBooks, Analyses
    <3>2. root \in Roots /\ Content(root) \in Contents
      BY <2>1, <2>2
    <3> HIDE DEF root
    <3> QED
      BY <3>1, <3>2, BookGrows DEF ContentHash
  <2>4. analysis' = IF left # {} THEN [noted EXCEPT !.todo = left]
                    ELSE IF used = {} THEN Idle(analysis.runs)
                    ELSE [noted EXCEPT !.phase = "load", !.todo = used]
    BY <1>2 DEF Evaluates
  <2>5. used \in SUBSET Roots
    BY <2>3, BookEntries DEF Deduplicated
  <2>6. left \in SUBSET Roots /\ analysis.runs \in Nat /\ DOMAIN analysis.pool = {} /\ search' = search
    BY <1>2, <2>1, <2>2 DEF Analyses, AnalysisBooks, Evaluates
  <2> HIDE DEF root, left, hashes, judged
  <2>7. AnalysisBooks'
    <3>1. CASE left # {}
      <4>1. /\ analysis' \in Analyses /\ analysis'.hashes = analysis'.judged /\ analysis'.todo # {}
            /\ analysis'.phase = "judge" /\ DOMAIN analysis'.pool = {}
        BY <2>1, <2>3, <2>4, <2>6, <3>1 DEF Analyses
      <4> QED
        BY <2>1, <2>6, <4>1 DEF AnalysisBooks
    <3>2. CASE left = {} /\ used = {}
      BY <2>1, <2>4, <2>6, <3>2, AnalysisEnds
    <3>3. CASE left = {} /\ used # {}
      <4>1. /\ analysis' \in Analyses /\ analysis'.hashes = hashes /\ analysis'.judged = judged
            /\ analysis'.todo = used /\ analysis'.phase = "load" /\ DOMAIN analysis'.pool = {}
        BY <2>1, <2>3, <2>4, <2>5, <2>6, <3>3 DEF Analyses
      <4>2. analysis'.todo # {} /\ analysis'.todo \cup DOMAIN analysis'.pool \subseteq Deduplicated(analysis'.judged)
        BY <2>3, <3>3, <4>1
      <4> QED
        BY <2>1, <2>3, <2>6, <4>1, <4>2 DEF AnalysisBooks
    <3> QED
      BY <3>1, <3>2, <3>3
  <2> QED
    BY <1>2, <2>7, FileStays DEF Evaluates
<1>3. CASE Loads
  <2> DEFINE root == Min(analysis.todo)
             left == analysis.todo \ {root}
             pool == Entered(analysis.pool, root, Content(root))
  <2>1. /\ search.angles = <<>> /\ analysis \in Analyses /\ analysis.phase = "load"
        /\ \A r \in Roots : Content(r) \in Contents
    BY <1>3, AnalysisUnderWay DEF Loads
  <2>2. root \in analysis.todo /\ analysis.todo \in SUBSET Roots
    <3>1. analysis.todo \in SUBSET Nat /\ analysis.todo # {} /\ analysis.todo \in SUBSET Roots
      BY <2>1, RangesAssumption DEF AnalysisBooks, Analyses
    <3> QED
      BY <3>1, MinOfRoots
  <2>3. pool \in Books /\ DOMAIN pool = DOMAIN analysis.pool \cup {root}
    <3>1. analysis.pool \in Books
      BY <2>1 DEF Analyses
    <3>2. root \in Roots /\ Content(root) \in Contents
      BY <2>1, <2>2
    <3> HIDE DEF root
    <3> QED
      BY <3>1, <3>2, BookGrows
  <2>4. analysis' = IF disk[root].frames = 0 THEN Idle(analysis.runs)
                    ELSE [analysis EXCEPT !.todo = left, !.pool = pool,
                                          !.phase = IF left = {} THEN "write" ELSE "load"]
    BY <1>3 DEF Loads
  <2>5. /\ left \in SUBSET Roots /\ analysis.runs \in Nat /\ search' = search
        /\ analysis.hashes = analysis.judged
        /\ analysis.todo \cup DOMAIN analysis.pool \subseteq Deduplicated(analysis.judged)
    BY <1>3, <2>1, <2>2 DEF Analyses, AnalysisBooks, Loads
  <2>6. left \cup DOMAIN pool \subseteq Deduplicated(analysis.judged)
    BY <2>2, <2>3, <2>5
  <2> HIDE DEF root, left, pool
  <2>7. AnalysisBooks'
    <3>1. CASE disk[root].frames = 0
      BY <2>1, <2>4, <2>5, <3>1, AnalysisEnds
    <3>2. CASE disk[root].frames # 0
      <4>1. /\ analysis' \in Analyses /\ analysis'.hashes = analysis'.judged /\ analysis'.judged = analysis.judged
            /\ analysis'.todo = left /\ analysis'.phase = (IF left = {} THEN "write" ELSE "load")
            /\ analysis'.pool = pool
        BY <2>1, <2>3, <2>4, <2>5, <3>2 DEF Analyses
      <4> QED
        BY <2>1, <2>5, <2>6, <4>1 DEF AnalysisBooks
    <3> QED
      BY <3>1, <3>2
  <2> QED
    BY <1>3, <2>7, FileStays DEF Loads
<1>4. CASE Truncates
  <2>1. search.angles = <<>> /\ analysis \in Analyses /\ analysis.phase = "write" /\ search' = search
    BY <1>4, AnalysisUnderWay DEF Truncates
  <2>2. CASE ranges' = NoFile /\ analysis' = [analysis EXCEPT !.phase = "fill"]
    <3>1. /\ analysis' \in Analyses /\ analysis'.hashes = analysis.hashes /\ analysis'.judged = analysis.judged
          /\ analysis'.todo = analysis.todo /\ analysis'.phase = "fill" /\ analysis'.pool = analysis.pool
      BY <2>1, <2>2 DEF Analyses
    <3>2. AnalysisBooks'
      BY <2>1, <3>1 DEF AnalysisBooks
    <3>3. ranges'.status = "none"
      BY <2>2 DEF NoFile
    <3> QED
      BY <3>2, <3>3 DEF FileRight, RangeWasVisited, EnoughFrames, Statuses
  <2>3. CASE UNCHANGED ranges /\ analysis' = Idle(analysis.runs)
    <3>1. analysis.runs \in Nat
      BY <2>1 DEF Analyses
    <3>2. AnalysisBooks'
      BY <2>1, <2>3, <3>1, AnalysisEnds
    <3> QED
      BY <2>3, <3>2, FileStays
  <2> QED
    BY <1>4, <2>2, <2>3 DEF Truncates
<1>5. CASE Fills
  <2>1. search.angles = <<>> /\ analysis \in Analyses /\ analysis.phase = "fill" /\ search' = search
    BY <1>5, AnalysisUnderWay DEF Fills
  <2>2. /\ analysis.pool \in Books /\ analysis.judged \in Books /\ analysis.runs \in Nat
        /\ Kept(analysis.pool, analysis.judged)
    BY <2>1 DEF Analyses, AnalysisBooks, Kept
  <2>3. ranges' = JointResult(analysis.pool, analysis.judged) /\ analysis' = Idle(analysis.runs)
    BY <1>5 DEF Fills
  <2>4. AnalysisBooks'
    BY <2>1, <2>2, <2>3, AnalysisEnds
  <2> QED
    BY <2>2, <2>3, <2>4, FilledRight DEF FileRight
<1>6. CASE Interrupted
  <2>1. search.angles = <<>> /\ analysis \in Analyses /\ search' = search /\ analysis' = Idle(analysis.runs)
    BY <1>6, AnalysisUnderWay DEF Interrupted
  <2>2. analysis.runs \in Nat
    BY <2>1 DEF Analyses
  <2>3. AnalysisBooks'
    BY <2>1, <2>2, AnalysisEnds
  <2> QED
    BY <1>6, <2>3, FileStays DEF Interrupted
<1> QED
  BY <1>1, <1>2, <1>3, <1>4, <1>5, <1>6

-----------------------------------------------------------------------------
(***************************************************************************)
(* The search.                                                             *)
(***************************************************************************)
\* A run that is closed holds its frames.
LEMMA RunsGrow ==
  ASSUME NEW runs, NEW first \in Nat, NEW last \in Nat
  PROVE  InRuns(runs \cup {<<first, last>>}) = InRuns(runs) \cup (first .. last)
<1>1. <<first, last>>[1] = first /\ <<first, last>>[2] = last
  OBVIOUS
<1>2. ASSUME NEW x \in InRuns(runs \cup {<<first, last>>}) PROVE x \in InRuns(runs) \cup (first .. last)
  BY <1>1 DEF InRuns
<1>3. ASSUME NEW x \in InRuns(runs) \cup (first .. last) PROVE x \in InRuns(runs \cup {<<first, last>>})
  BY <1>1 DEF InRuns
<1> QED
  BY <1>2, <1>3

\* A frame of the search: what is outside up to it is in a run, and no more.
LEMMA SearchStepKeeps ==
  ASSUME SearchBooks, SearchStep
  PROVE  SearchBooks'
<1> DEFINE angles == search.angles
           i == search.i
           n == Len(search.angles)
           outside == OutsideOf(search.angles)
           over == Over(search.angles[search.i])
<1>1. /\ search \in Searches /\ angles \in Seq(SearchedCommands) /\ n \in Nat
      /\ i \in 1 .. n /\ search.start \in Nat /\ search.runs \in SUBSET (Nat \X Nat)
      /\ search.inRun \in BOOLEAN
  BY DEF SearchBooks, Searches, SearchStep, Searching
<1>2. over \in BOOLEAN /\ (i \in outside <=> over) /\ outside \subseteq 1 .. n
  BY <1>1 DEF OutsideOf, Over
<1>3. {j \in outside : j < i + 1} = {j \in outside : j < i} \cup (IF over THEN {i} ELSE {})
  BY <1>1, <1>2
<1>4. /\ \A r \in search.runs : {r[1] - 1, r[2] + 1} \cap outside = {}
      /\ InRuns(search.runs) \cup (IF search.inRun THEN search.start .. (i - 1) ELSE {}) = {j \in outside : j < i}
      /\ IF search.inRun THEN search.start \in 1 .. (i - 1) /\ search.start - 1 \notin outside
                         ELSE i - 1 \notin outside
  BY <1>1 DEF SearchBooks
<1>10. /\ over /\ ~search.inRun => search' = [search EXCEPT !.i = i + 1, !.inRun = TRUE, !.start = i]
       /\ ~over /\ search.inRun =>
            search' = [search EXCEPT !.i = i + 1, !.inRun = FALSE, !.runs = @ \cup {<<search.start, i - 1>>}]
       /\ (over <=> search.inRun) => search' = [search EXCEPT !.i = i + 1]
  <2>1. over /\ ~search.inRun => search' = [search EXCEPT !.i = i + 1, !.inRun = TRUE, !.start = i]
    BY <1>1 DEF SearchStep, Searches
  <2>2. ~over /\ search.inRun =>
          search' = [search EXCEPT !.i = i + 1, !.inRun = FALSE, !.runs = @ \cup {<<search.start, i - 1>>}]
    BY <1>1 DEF SearchStep, Searches
  <2>3. (over <=> search.inRun) => search' = [search EXCEPT !.i = i + 1]
    BY <1>1, <1>2 DEF SearchStep, Searches
  <2> QED
    BY <2>1, <2>2, <2>3
<1> HIDE DEF over
<1>11. i + 1 \in Nat /\ <<search.start, i - 1>> \in Nat \X Nat /\ i \in Nat
  BY <1>1
<1>12. i + 1 \in 1 .. n + 2 /\ i + 1 < n + 2 /\ (i + 1) - 1 = i
  BY <1>1
<1>5. search'.angles = angles /\ search'.i = i + 1 /\ search' \in Searches
  <2>1. CASE over /\ ~search.inRun
    <3>1. search' = [angles |-> search.angles, i |-> i + 1, inRun |-> TRUE, start |-> i, runs |-> search.runs]
      BY <1>1, <1>10, <2>1 DEF Searches
    <3>2. search.angles \in Seq(SearchedCommands) /\ search.runs \in SUBSET (Nat \X Nat)
      BY <1>1
    <3>3. search'.angles = search.angles /\ search'.i = i + 1
      BY <3>1
    <3>4. search' \in Searches
      <4> HIDE DEF i
      <4> QED
        BY <1>11, <3>1, <3>2 DEF Searches
    <3> QED
      BY <3>3, <3>4
  <2>2. CASE ~over /\ search.inRun
    <3>1. search' = [angles |-> search.angles, i |-> i + 1, inRun |-> FALSE, start |-> search.start,
                     runs |-> search.runs \cup {<<search.start, i - 1>>}]
      BY <1>1, <1>10, <2>2 DEF Searches
    <3>2. /\ search.angles \in Seq(SearchedCommands) /\ search.start \in Nat
          /\ search.runs \cup {<<search.start, i - 1>>} \in SUBSET (Nat \X Nat)
      BY <1>1, <1>11
    <3>3. search'.angles = search.angles /\ search'.i = i + 1
      BY <3>1
    <3>4. search' \in Searches
      <4> HIDE DEF i
      <4> QED
        BY <1>11, <3>1, <3>2 DEF Searches
    <3> QED
      BY <3>3, <3>4
  <2>3. CASE over <=> search.inRun
    BY <1>1, <1>10, <1>11, <2>3 DEF Searches
  <2> QED
    BY <1>1, <1>2, <2>1, <2>2, <2>3
<1>6. /\ over /\ ~search.inRun => search'.inRun = TRUE /\ search'.start = i /\ search'.runs = search.runs
      /\ ~over /\ search.inRun => search'.inRun = FALSE /\ search'.runs = search.runs \cup {<<search.start, i - 1>>}
      /\ (over <=> search.inRun) =>
           search'.inRun = search.inRun /\ search'.start = search.start /\ search'.runs = search.runs
  BY <1>1, <1>10 DEF Searches
<1> HIDE DEF outside, i, n, angles
<1>7. CASE over /\ ~search.inRun
  <2>1. {j \in outside : j < i + 1} = InRuns(search'.runs) \cup (search'.start .. i)
    BY <1>1, <1>3, <1>4, <1>6, <1>7
  <2>2. search'.start \in 1 .. i /\ search'.start - 1 \notin outside
    BY <1>1, <1>4, <1>6, <1>7
  <2> QED
    BY <1>1, <1>4, <1>5, <1>12, <1>6, <1>7, <2>1, <2>2 DEF SearchBooks, outside, i, n, angles
<1>8. CASE ~over /\ search.inRun
  <2>1. InRuns(search'.runs) = InRuns(search.runs) \cup (search.start .. (i - 1))
    <3>1. i - 1 \in Nat
      BY <1>1
    <3>2. \A runs : InRuns(runs \cup {<<search.start, i - 1>>}) = InRuns(runs) \cup (search.start .. (i - 1))
      <4>1. \A runs : \A first, last \in Nat : InRuns(runs \cup {<<first, last>>}) = InRuns(runs) \cup (first .. last)
        BY RunsGrow
      <4> QED
        BY <1>1, <3>1, <4>1
    <3> QED
      BY <1>6, <1>8, <3>2
  <2>2. {j \in outside : j < i + 1} = InRuns(search'.runs)
    BY <1>3, <1>4, <1>8, <2>1
  <2>3. \A r \in search'.runs : {r[1] - 1, r[2] + 1} \cap outside = {}
    <3>1. {search.start - 1, (i - 1) + 1} \cap outside = {}
      BY <1>1, <1>2, <1>4, <1>8
    <3>2. <<search.start, i - 1>>[1] = search.start /\ <<search.start, i - 1>>[2] = i - 1
      OBVIOUS
    <3> QED
      BY <1>4, <1>6, <1>8, <3>1, <3>2
  <2> QED
    BY <1>1, <1>2, <1>5, <1>12, <1>6, <1>8, <2>2, <2>3 DEF SearchBooks, outside, i, n, angles
<1>9. CASE over <=> search.inRun
  <2>1. {j \in outside : j < i + 1}
          = InRuns(search'.runs) \cup (IF search'.inRun THEN search'.start .. i ELSE {})
    <3>1. search.inRun => search.start .. i = (search.start .. (i - 1)) \cup {i}
      BY <1>1, <1>4
    <3> QED
      BY <1>3, <1>4, <1>6, <1>9, <3>1
  <2>2. IF search'.inRun THEN search'.start \in 1 .. i /\ search'.start - 1 \notin outside ELSE i \notin outside
    BY <1>1, <1>2, <1>4, <1>6, <1>9
  <2> QED
    BY <1>1, <1>4, <1>5, <1>12, <1>6, <1>9, <2>1, <2>2 DEF SearchBooks, outside, i, n, angles
<1> QED
  BY <1>7, <1>8, <1>9

\* After the last frame.
LEMMA SearchEndKeeps ==
  ASSUME SearchBooks, SearchEnds
  PROVE  SearchBooks'
<1> DEFINE i == search.i
           n == Len(search.angles)
           outside == OutsideOf(search.angles)
<1>1. /\ search \in Searches /\ n \in Nat /\ i = n + 1 /\ search.start \in Nat
      /\ search.runs \in SUBSET (Nat \X Nat) /\ search.inRun \in BOOLEAN
  BY DEF SearchBooks, Searches, SearchEnds
<1>2. outside \subseteq 1 .. n /\ {j \in outside : j < i} = outside
  BY <1>1 DEF OutsideOf
<1>3. /\ \A r \in search.runs : {r[1] - 1, r[2] + 1} \cap outside = {}
      /\ InRuns(search.runs) \cup (IF search.inRun THEN search.start .. (i - 1) ELSE {}) = outside
      /\ search.inRun => search.start \in 1 .. (i - 1) /\ search.start - 1 \notin outside
  BY <1>1, <1>2 DEF SearchBooks
<1>4. <<search.start, i - 1>> \in Nat \X Nat
  BY <1>1
<1>5. /\ search'.angles = search.angles /\ search'.i = n + 2 /\ search' \in Searches
      /\ search'.runs = IF search.inRun THEN search.runs \cup {<<search.start, i - 1>>} ELSE search.runs
  <2>1. search' = [search EXCEPT !.i = n + 2,
                                 !.runs = IF search.inRun THEN @ \cup {<<search.start, i - 1>>} ELSE @]
    BY <1>1 DEF SearchEnds
  <2>2. n + 2 \in Nat
    BY <1>1
  <2> QED
    BY <1>1, <1>4, <2>1, <2>2 DEF Searches
<1> HIDE DEF outside
<1>6. InRuns(search'.runs) = outside
  <2>1. i - 1 \in Nat
    BY <1>1
  <2>2. \A runs : InRuns(runs \cup {<<search.start, i - 1>>}) = InRuns(runs) \cup (search.start .. (i - 1))
    <3>1. \A runs : \A first, last \in Nat : InRuns(runs \cup {<<first, last>>}) = InRuns(runs) \cup (first .. last)
      BY RunsGrow
    <3>2. search.start \in Nat
      BY <1>1
    <3> HIDE DEF i
    <3> QED
      BY <2>1, <3>1, <3>2
  <2> QED
    BY <1>3, <1>5, <2>2
<1>7. \A r \in search'.runs : {r[1] - 1, r[2] + 1} \cap outside = {}
  <2>1. search.inRun => {search.start - 1, (i - 1) + 1} \cap outside = {}
    BY <1>1, <1>2, <1>3
  <2>2. <<search.start, i - 1>>[1] = search.start /\ <<search.start, i - 1>>[2] = i - 1
    OBVIOUS
  <2> QED
    BY <1>3, <1>5, <2>1, <2>2
<1>8. OutsideOf(search'.angles) = outside /\ Len(search'.angles) = n
  BY <1>5 DEF outside
<1>9. n + 2 \in 1 .. n + 2 /\ ~(n + 2 < n + 2)
  BY <1>1
<1> HIDE DEF n
<1> QED
  BY <1>5, <1>6, <1>7, <1>8, <1>9 DEF SearchBooks

\* Every step of the component.
LEMMA RangesStep == RangesInvariant /\ [RangesNext]_rangesVars => RangesInvariant'
<1> SUFFICES ASSUME RangesInvariant, [RangesNext]_rangesVars PROVE RangesInvariant'
  OBVIOUS
<1>1. CASE DiskChanges
  BY <1>1, DiskKeeps
<1>2. CASE Discovers \/ Evaluates \/ Loads \/ Truncates \/ Fills \/ Interrupted
  <2>1. AnalysisBooks' /\ FileRight'
    BY <1>2, AnalysisKeeps
  <2>2. UNCHANGED <<disk, diskChanges, search>>
    BY <1>2 DEF Discovers, Evaluates, Loads, Truncates, Fills, Interrupted
  <2> QED
    BY <2>1, <2>2 DEF RangesInvariant, DiskShape, SearchBooks
<1>3. CASE SearchStep \/ SearchEnds
  <2>1. SearchBooks'
    BY <1>3, SearchStepKeeps, SearchEndKeeps DEF RangesInvariant
  <2>2. UNCHANGED <<disk, diskChanges, analysis, ranges>> /\ search.angles # <<>>
    BY <1>3 DEF SearchStep, SearchEnds, Searching
  <2>3. search'.angles = search.angles
    BY <1>3 DEF SearchStep, SearchEnds, Searching, RangesInvariant, SearchBooks, Searches
  <2>4. FileRight'
    BY <2>2, FileStays
  <2> QED
    BY <2>1, <2>2, <2>3, <2>4 DEF RangesInvariant, DiskShape, AnalysisBooks
<1>4. CASE UNCHANGED rangesVars
  <2>1. FileRight'
    BY <1>4, FileStays DEF rangesVars
  <2> QED
    BY <1>4, <2>1 DEF rangesVars, RangesInvariant, DiskShape, AnalysisBooks, SearchBooks
<1> QED
  BY <1>1, <1>2, <1>3, <1>4 DEF RangesNext

\* What the invariant says of the runs and of the file is what is claimed of them.
LEMMA RangesAreTrue == RangesInvariant => RangesTrue /\ RangesTypeOK
<1> SUFFICES ASSUME RangesInvariant PROVE RangesTrue /\ RangesTypeOK
  OBVIOUS
<1>1. RangesTypeOK
  BY DEF RangesInvariant, DiskShape, AnalysisBooks, Analyses, FileRight, Statuses, RangesTypeOK
<1>2. RunsAreTheExcess
  <2> SUFFICES ASSUME search.angles # <<>>, search.i = Len(search.angles) + 2
               PROVE  LET frames == 1 .. Len(search.angles)
                          outside == {i \in frames : OverAmount(search.angles[i]) > 0}
                      IN /\ UNION {r[1] .. r[2] : r \in search.runs} = outside
                         /\ \A r \in search.runs : {r[1] - 1, r[2] + 1} \cap outside = {}
    BY DEF RunsAreTheExcess
  <2>1. \A i \in 1 .. Len(search.angles) : search.angles[i] \in Int
    <3>1. search.angles \in Seq(SearchedCommands) /\ SearchedCommands \subseteq Int
      BY RangesAssumption DEF RangesInvariant, SearchBooks, Searches
    <3>2. \A i \in 1 .. Len(search.angles) : search.angles[i] \in SearchedCommands
      BY <3>1
    <3> QED
      BY <3>1, <3>2
  <2>2. LimitLow \in Int /\ LimitHigh \in Int
    BY RangesAssumption
  <2>3. {i \in 1 .. Len(search.angles) : OverAmount(search.angles[i]) > 0} = OutsideOf(search.angles)
    BY <2>1, <2>2 DEF OutsideOf, Over, OverAmount
  <2>4. InRuns(search.runs) = OutsideOf(search.angles)
    BY DEF RangesInvariant, SearchBooks
  <2>5. \A r \in search.runs : {r[1] - 1, r[2] + 1} \cap OutsideOf(search.angles) = {}
    BY DEF RangesInvariant, SearchBooks
  <2> QED
    BY <2>3, <2>4, <2>5 DEF InRuns
<1> QED
  BY <1>1, <1>2 DEF RangesInvariant, FileRight, RangesTrue

-----------------------------------------------------------------------------
(***************************************************************************)
(* The state server: the types, the accounting of polls, and what an answer*)
(* says about the two arms it was put together from one after the other.   *)
(***************************************************************************)
\* While a poll is under way there is room for it in the count.
PollInRange == pc \in {"leader", "follower", "count"} => sequence < MaxPolls

\* Only main() starts the poller.
BeforeStart == {"connectLeader", "connectFollower", "start"}
StartedByMain == main \in BeforeStart => pc = "off"

\* No sample is from the future: not a cached one, not one in a view.
StampsPast ==
    /\ \A a \in Arms : poll[a].lastGood.stamp <= now
    /\ request.leader.sample.stamp <= now

\* The phases of a request after the lock was taken for the one arm, for the other.
AfterLeader == {"ageLeader", "lockFollower", "ageFollower", "assemble"}
AfterFollower == {"ageFollower", "assemble"}

\* What the request has learnt stays true while the poller goes on: the leader's
\* sample is from a finished poll, and a follower without errors was at most one
\* poll behind it when it was looked at.
ViewsOrdered ==
    /\ request.at \in AfterLeader =>
         request.leader.sample.poll + 1 <= Finished("leader")
    /\ request.at \in AfterFollower /\ request.follower.errors = 0 =>
         request.follower.sample.poll >= request.leader.sample.poll - 1
    /\ request.at = "assemble" /\ ~request.follower.stale =>
         request.follower.errors = 0

PollerInvariant ==
    /\ TypeOK
    /\ PollInRange
    /\ StartedByMain
    /\ Accounted
    /\ StampsPast
    /\ ViewsOrdered
    /\ SkewInTime

USE StaleAfterAssumption, PollBoundsAssumption

\* The invariant holds initially: nothing has been polled, nothing answered.
LEMMA InitEstablishes == Init => PollerInvariant
<1> USE DEF Init, PollerInvariant, Arms, NoSample, NoView, NoRequest, AfterLeader, AfterFollower
<1> SUFFICES ASSUME Init PROVE PollerInvariant
  OBVIOUS
<1>1. TypeOK
  <2>1. NoSample \in Samples
    BY DEF Samples
  <2>2. NoView \in ArmViews
    BY <2>1 DEF ArmViews
  <2>3. [lastGood |-> NoSample, errors |-> 0, connected |-> FALSE] \in ArmPollStates
    BY <2>1 DEF ArmPollStates
  <2>4. NoRequest \in [at : RequestPhases, leader : ArmViews, follower : ArmViews]
    BY <2>2 DEF RequestPhases
  <2> HIDE DEF NoSample, NoView, NoRequest
  <2>5. poll \in [Arms -> ArmPollStates] /\ isOpen \in [Arms -> BOOLEAN]
    BY <2>3
  <2>6. request \in [at : RequestPhases, leader : ArmViews, follower : ArmViews]
    BY <2>4
  <2>7. sequence \in 0 .. MaxPolls /\ now \in 0 .. MaxNow
    OBVIOUS
  <2>8. /\ pc \in {"off", "leader", "follower", "count", "wait"}
        /\ stage \in {"read", "store"}
        /\ stopEvent \in BOOLEAN
        /\ main = "connectLeader"
    OBVIOUS
  <2> HIDE DEF Init
  <2> QED
    BY <2>5, <2>6, <2>7, <2>8 DEF TypeOK
<1>2. PollInRange /\ StartedByMain /\ StampsPast /\ ViewsOrdered /\ SkewInTime
  BY DEF PollInRange, StartedByMain, StampsPast, ViewsOrdered, SkewInTime
<1>3. Accounted
  BY DEF Accounted, Finished
<1> QED
  BY <1>1, <1>2, <1>3

\* Every step of the poller keeps the invariant (_run, poll_once, _poll_arm).
LEMMA PollerStepsKeep == PollerInvariant /\ PollerSteps => PollerInvariant'
<1> SUFFICES ASSUME PollerInvariant, PollerSteps PROVE PollerInvariant'
  OBVIOUS
<1> USE DEF PollerInvariant, pollVars
<1>1. CASE PollBegins
  <2>1. TypeOK' /\ PollInRange' /\ StartedByMain'
    BY <1>1 DEF PollBegins, TypeOK, PollInRange, StartedByMain
  <2>2. Accounted' /\ ViewsOrdered'
    BY <1>1 DEF PollBegins, TypeOK, Accounted, ViewsOrdered, Finished, Arms, AfterLeader, AfterFollower
  <2>3. StampsPast' /\ SkewInTime'
    BY <1>1 DEF PollBegins, StampsPast, SkewInTime
  <2> QED
    BY <2>1, <2>2, <2>3
<1>2. CASE PollerExits
  <2>1. TypeOK' /\ PollInRange' /\ StartedByMain'
    BY <1>2 DEF PollerExits, TypeOK, PollInRange, StartedByMain
  <2>2. Accounted' /\ ViewsOrdered'
    BY <1>2 DEF PollerExits, TypeOK, Accounted, ViewsOrdered, Finished, Arms, AfterLeader, AfterFollower
  <2>3. StampsPast' /\ SkewInTime'
    BY <1>2 DEF PollerExits, StampsPast, SkewInTime
  <2> QED
    BY <2>1, <2>2, <2>3
<1>3. CASE PollCounts
  <2>1. TypeOK' /\ PollInRange' /\ StartedByMain'
    BY <1>3 DEF PollCounts, TypeOK, PollInRange, StartedByMain
  <2>2. \A a \in Arms : Finished(a)' = Finished(a)
    BY <1>3 DEF PollCounts, TypeOK, Finished, Arms
  <2>3. Accounted'
    BY <1>3, <2>2 DEF PollCounts, Accounted
  <2>4. ViewsOrdered'
    BY <1>3, <2>2 DEF PollCounts, ViewsOrdered, Arms
  <2>5. StampsPast' /\ SkewInTime'
    BY <1>3 DEF PollCounts, StampsPast, SkewInTime
  <2> QED
    BY <2>1, <2>3, <2>4, <2>5
<1>4. ASSUME NEW a \in Arms, ArmRead(a) PROVE PollerInvariant'
  <2>1. TypeOK' /\ PollInRange' /\ StartedByMain'
    BY <1>4 DEF ArmRead, TypeOK, PollInRange, StartedByMain
  <2>2. Accounted' /\ ViewsOrdered'
    BY <1>4 DEF ArmRead, Accounted, ViewsOrdered, Finished
  <2>3. StampsPast' /\ SkewInTime'
    BY <1>4 DEF ArmRead, StampsPast, SkewInTime
  <2> QED
    BY <2>1, <2>2, <2>3
<1>5. ASSUME NEW a \in Arms, ReadFails(a) PROVE PollerInvariant'
  <2>1. poll[a] \in ArmPollStates
    BY DEF TypeOK
  <2>2. TypeOK' /\ PollInRange' /\ StartedByMain'
    BY <1>5, <2>1 DEF ReadFails, NextArm, TypeOK, PollInRange, StartedByMain, Arms, ArmPollStates
  <2>3. /\ Finished(a)' = Finished(a) + 1
        /\ \A b \in Arms \ {a} : Finished(b)' = Finished(b)
    BY <1>5 DEF ReadFails, NextArm, Finished, TypeOK, Arms
  <2>4. /\ poll'[a].lastGood = poll[a].lastGood
        /\ poll'[a].errors = poll[a].errors + 1
        /\ \A b \in Arms \ {a} : poll'[b] = poll[b]
    BY <1>5, <2>1 DEF ReadFails, TypeOK, ArmPollStates
  <2>5. \A b \in Arms : Finished(b) \in Int /\ Finished(b)' >= Finished(b)
    BY <2>3 DEF Finished, TypeOK
  <2>6. Accounted'
    BY <2>1, <2>3, <2>4, <2>5 DEF Accounted, ArmPollStates, Samples
  <2>7. ViewsOrdered'
    <3>1. request' = request /\ request.leader.sample.poll \in Int
      BY <1>5 DEF ReadFails, TypeOK, ArmViews, Samples
    <3>2. /\ Finished("leader") \in Int /\ Finished("leader")' \in Int
          /\ Finished("leader")' >= Finished("leader")
      BY <2>3, <2>5 DEF Arms
    <3> HIDE DEF PollerInvariant
    <3>3. ViewsOrdered
      BY DEF PollerInvariant
    <3> QED
      BY <3>1, <3>2, <3>3 DEF ViewsOrdered
  <2>8. StampsPast' /\ SkewInTime'
    BY <1>5, <2>4 DEF ReadFails, StampsPast, SkewInTime
  <2> QED
    BY <2>2, <2>6, <2>7, <2>8
<1>6. ASSUME NEW a \in Arms, SampleStored(a) PROVE PollerInvariant'
  <2>1. [poll |-> sequence, stamp |-> now] \in Samples
    BY DEF TypeOK, Samples
  <2>2. TypeOK' /\ PollInRange' /\ StartedByMain'
    BY <1>6, <2>1 DEF SampleStored, NextArm, TypeOK, PollInRange, StartedByMain, Arms, ArmPollStates
  <2>3. /\ Finished(a)' = Finished(a) + 1
        /\ Finished(a) = sequence
        /\ \A b \in Arms \ {a} : Finished(b)' = Finished(b)
    BY <1>6 DEF SampleStored, NextArm, Finished, TypeOK, Arms
  <2>4. /\ poll'[a].lastGood = [poll |-> sequence, stamp |-> now]
        /\ poll'[a].errors = 0
        /\ \A b \in Arms \ {a} : poll'[b] = poll[b]
    BY <1>6 DEF SampleStored, TypeOK
  <2>5. \A b \in Arms : Finished(b) \in Int /\ Finished(b)' >= Finished(b)
    BY <2>3 DEF Finished, TypeOK
  <2>6. Accounted'
    BY <2>3, <2>4, <2>5 DEF Accounted, TypeOK
  <2>7. ViewsOrdered'
    <3>1. request' = request /\ request.leader.sample.poll \in Int
      BY <1>6 DEF SampleStored, TypeOK, ArmViews, Samples
    <3>2. /\ Finished("leader") \in Int /\ Finished("leader")' \in Int
          /\ Finished("leader")' >= Finished("leader")
      BY <2>3, <2>5 DEF Arms
    <3> HIDE DEF PollerInvariant
    <3>3. ViewsOrdered
      BY DEF PollerInvariant
    <3> QED
      BY <3>1, <3>2, <3>3 DEF ViewsOrdered
  <2>8. StampsPast' /\ SkewInTime'
    BY <1>6, <2>4 DEF SampleStored, StampsPast, SkewInTime, TypeOK
  <2> QED
    BY <2>2, <2>6, <2>7, <2>8
<1> QED
  BY <1>1, <1>2, <1>3, <1>4, <1>5, <1>6 DEF PollerSteps

\* Every step of a request keeps the invariant (_arm_view, snapshot, health).
LEMMA RequestStepsKeep == PollerInvariant /\ RequestSteps => PollerInvariant'
<1> SUFFICES ASSUME PollerInvariant, RequestSteps PROVE PollerInvariant'
  OBVIOUS
<1> USE DEF PollerInvariant, AfterLeader, AfterFollower
<1> DEFINE Quiet == UNCHANGED <<isOpen, poll, sequence, pc, stage, stopEvent, main, now>>
<1>0. Quiet
  BY DEF RequestSteps, RequestBegins, RequestTakesViews, Answers, pollVars, threadVars
<1>1. PollInRange' /\ StartedByMain' /\ Accounted' /\ \A a \in Arms : Finished(a)' = Finished(a)
  BY <1>0 DEF PollInRange, StartedByMain, Accounted, Finished, Arms
<1>2. \A a \in Arms : /\ LockedView(a) \in ArmViews
                      /\ LockedView(a).sample = poll[a].lastGood
                      /\ LockedView(a).errors = poll[a].errors
                      /\ LockedView(a).sample.poll + LockedView(a).errors + 1 = Finished(a)
  BY DEF LockedView, ArmViews, TypeOK, ArmPollStates, Accounted
<1>3. request \in [at : RequestPhases, leader : ArmViews, follower : ArmViews]
  BY DEF TypeOK
<1>4. \A a \in Arms : Finished(a) \in Int /\ Finished("follower") >= Finished("leader") - 1
  BY DEF Finished, TypeOK, Arms
<1> HIDE DEF Quiet
<1>5. CASE RequestBegins
  <2>1. request' = [request EXCEPT !.at = "lockLeader"]
    BY <1>5 DEF RequestBegins
  <2> QED
    BY <1>0, <1>1, <1>3, <2>1 DEF Quiet, TypeOK, RequestPhases, StampsPast, ViewsOrdered, SkewInTime, Arms
<1>6. CASE Answers
  <2>1. request' = NoRequest
    BY <1>6 DEF Answers
  <2> QED
    BY <1>0, <1>1, <2>1 DEF Quiet, NoRequest, NoView, NoSample, Samples, ArmViews, TypeOK, RequestPhases, StampsPast, ViewsOrdered, SkewInTime, Arms
<1>7. CASE RequestTakesViews
  <2>1. CASE /\ request.at = "lockLeader"
             /\ request' = [request EXCEPT !.at = "ageLeader", !.leader = LockedView("leader")]
    <3>1. request'.leader = LockedView("leader") /\ request'.at = "ageLeader"
      BY <1>3, <2>1
    <3>2. TypeOK'
      BY <1>0, <1>2, <1>3, <2>1 DEF Quiet, TypeOK, RequestPhases, Arms
    <3>3. StampsPast' /\ SkewInTime'
      BY <1>0, <1>2, <3>1 DEF Quiet, StampsPast, SkewInTime, Arms
    <3>4. ViewsOrdered'
      BY <1>1, <1>2, <1>4, <3>1 DEF ViewsOrdered, ArmViews, Samples, Arms
    <3> QED
      BY <1>1, <3>2, <3>3, <3>4
  <2>2. CASE /\ request.at = "ageLeader"
             /\ request' = [request EXCEPT !.at = "lockFollower",
                                           !.leader.stale = IsStale(request.leader)]
    <3>1. /\ request'.leader.sample = request.leader.sample
          /\ request'.at = "lockFollower"
      BY <1>3, <2>2 DEF ArmViews
    <3>2. IsStale(request.leader) \in BOOLEAN
      BY DEF IsStale
    <3>3. TypeOK'
      BY <1>0, <1>3, <2>2, <3>2 DEF Quiet, TypeOK, RequestPhases, ArmViews
    <3>4. StampsPast' /\ SkewInTime'
      BY <1>0, <3>1 DEF Quiet, StampsPast, SkewInTime
    <3>5. ViewsOrdered'
      BY <1>1, <2>2, <3>1 DEF ViewsOrdered, Arms
    <3> QED
      BY <1>1, <3>3, <3>4, <3>5
  <2>3. CASE /\ request.at = "lockFollower"
             /\ request' = [request EXCEPT !.at = "ageFollower",
                                           !.follower = LockedView("follower")]
    <3>1. /\ request'.leader = request.leader
          /\ request'.follower = LockedView("follower")
          /\ request'.at = "ageFollower"
      BY <1>3, <2>3
    <3>2. TypeOK'
      BY <1>0, <1>2, <1>3, <2>3 DEF Quiet, TypeOK, RequestPhases, Arms
    <3>3. StampsPast' /\ SkewInTime'
      BY <1>0, <3>1 DEF Quiet, StampsPast, SkewInTime
    <3>4. ViewsOrdered'
      BY <1>1, <1>2, <1>3, <1>4, <2>3, <3>1 DEF ViewsOrdered, ArmViews, Samples, Arms
    <3> QED
      BY <1>1, <3>2, <3>3, <3>4
  <2>4. CASE /\ request.at = "ageFollower"
             /\ request' = [request EXCEPT !.at = "assemble",
                                           !.follower.stale = IsStale(request.follower)]
    <3>1. /\ request'.leader = request.leader
          /\ request'.follower.sample = request.follower.sample
          /\ request'.follower.errors = request.follower.errors
          /\ request'.follower.stale = IsStale(request.follower)
          /\ request'.at = "assemble"
      BY <1>3, <2>4 DEF ArmViews
    <3>2. IsStale(request.follower) \in BOOLEAN
      BY DEF IsStale
    <3>3. TypeOK'
      BY <1>0, <1>3, <2>4, <3>2 DEF Quiet, TypeOK, RequestPhases, ArmViews
    <3>4. StampsPast'
      BY <1>0, <3>1 DEF Quiet, StampsPast
    <3>5. ViewsOrdered'
      BY <1>1, <1>3, <2>4, <3>1 DEF ViewsOrdered, IsStale, ArmViews, Arms
    <3>6. SkewInTime'
      BY <1>3, <3>1 DEF SkewInTime, StampsPast, IsStale, ArmViews, Samples, TypeOK
    <3> QED
      BY <1>1, <3>3, <3>4, <3>5, <3>6
  <2> QED
    BY <1>7, <2>1, <2>2, <2>3, <2>4 DEF RequestTakesViews
<1> QED
  BY <1>5, <1>6, <1>7 DEF RequestSteps

\* The main thread changes ports and connected flags only, which the invariant does
\* not speak about, and starts the poller between two polls.
LEMMA MainStepsKeep == PollerInvariant /\ MainSteps => PollerInvariant'
<1> SUFFICES ASSUME PollerInvariant, MainSteps PROVE PollerInvariant'
  OBVIOUS
<1> USE DEF PollerInvariant
<1>1. CASE StartPoller
  <2>1. pc = "off" /\ pc' = "wait"
    BY <1>1 DEF StartPoller, StartedByMain, BeforeStart
  <2>2. TypeOK' /\ PollInRange' /\ StartedByMain'
    BY <1>1, <2>1 DEF StartPoller, TypeOK, PollInRange, StartedByMain, BeforeStart, pollVars
  <2>3. \A a \in Arms : Finished(a)' = Finished(a)
    BY <1>1, <2>1 DEF StartPoller, Finished, pollVars
  <2>4. Accounted' /\ ViewsOrdered'
    BY <1>1, <2>3 DEF StartPoller, Accounted, ViewsOrdered, Arms, pollVars
  <2>5. StampsPast' /\ SkewInTime'
    BY <1>1 DEF StartPoller, StampsPast, SkewInTime, pollVars
  <2> QED
    BY <2>2, <2>4, <2>5
<1>2. ASSUME \/ StopPoller \/ JoinReturns \/ ProcessExits
             \/ \E a \in Arms : ConnectSucceeds(a) \/ ConnectFails(a) \/ Disconnects(a)
      PROVE  PollerInvariant'
  <2>1. /\ UNCHANGED <<sequence, pc, stage, request, now>>
        /\ main' \in BeforeStart => main \in BeforeStart
    BY <1>2 DEF StopPoller, JoinReturns, ProcessExits, ConnectSucceeds, ConnectFails, Disconnects,
                BeforeStart, Connecting, Connected, Disconnecting, Disconnected, Arms,
                pollVars, threadVars
  <2>2. /\ poll' \in [Arms -> ArmPollStates]
        /\ \A b \in Arms : /\ poll'[b].lastGood = poll[b].lastGood
                           /\ poll'[b].errors = poll[b].errors
    <3>1. CASE UNCHANGED poll
      BY <3>1 DEF TypeOK
    <3>2. ASSUME NEW a \in Arms, NEW c \in BOOLEAN,
                 poll' = [poll EXCEPT ![a].connected = c]
          PROVE  <2>2
      BY <3>2 DEF TypeOK, ArmPollStates
    <3> QED
      BY <1>2, <3>1, <3>2 DEF StopPoller, JoinReturns, ProcessExits, pollVars,
                              ConnectSucceeds, ConnectFails, Disconnects
  <2>3. TypeOK'
    <3>1. isOpen' \in [Arms -> BOOLEAN]
      BY <1>2 DEF StopPoller, JoinReturns, ProcessExits, ConnectSucceeds, ConnectFails,
                  Disconnects, TypeOK
    <3>2. /\ stopEvent' \in BOOLEAN
          /\ main' \in {"connectLeader", "connectFollower", "start", "serving", "joining",
                        "disconnectLeader", "disconnectFollower", "exiting", "gone"}
      BY <1>2 DEF StopPoller, JoinReturns, ProcessExits, ConnectSucceeds, ConnectFails,
                  Disconnects, Connected, Disconnected, TypeOK
    <3> QED
      BY <2>1, <2>2, <3>1, <3>2 DEF TypeOK
  <2>4. PollInRange' /\ StartedByMain'
    BY <2>1 DEF PollInRange, StartedByMain
  <2>5. Accounted' /\ ViewsOrdered'
    BY <2>1, <2>2 DEF Accounted, ViewsOrdered, Finished
  <2>6. StampsPast' /\ SkewInTime'
    BY <2>1, <2>2 DEF StampsPast, SkewInTime
  <2> QED
    BY <2>3, <2>4, <2>5, <2>6
<1> QED
  BY <1>1, <1>2 DEF MainSteps

\* Each of the three threads and the clock keep the invariant.
LEMMA PollerKept == PollerInvariant /\ [Next]_vars => PollerInvariant'
<1> SUFFICES ASSUME PollerInvariant, [Next]_vars PROVE PollerInvariant'
  OBVIOUS
<1>1. CASE ClockTicks
  <2>1. TypeOK'
    BY <1>1 DEF PollerInvariant, ClockTicks, TypeOK, pollVars, threadVars
  <2>2. now' >= now /\ UNCHANGED <<pollVars, threadVars, main, request>>
    BY <1>1 DEF PollerInvariant, ClockTicks, TypeOK
  <2>3. StampsPast'
    BY <1>1, <2>1, <2>2 DEF PollerInvariant, StampsPast, TypeOK, pollVars, ArmPollStates,
                            ArmViews, Samples, ClockTicks
  <2> QED
    BY <2>1, <2>2, <2>3 DEF PollerInvariant, PollInRange, StartedByMain, Accounted, Finished,
                            ViewsOrdered, SkewInTime, pollVars, threadVars
<1>2. CASE UNCHANGED vars
  BY <1>2 DEF PollerInvariant, vars, pollVars, threadVars, TypeOK, PollInRange, StartedByMain,
              Accounted, Finished, StampsPast, ViewsOrdered, SkewInTime
<1> QED
  BY <1>1, <1>2, PollerStepsKeep, RequestStepsKeep, MainStepsKeep DEF Next

\* The invariant of the state server (state_service.py).
THEOREM StateServerCorrect == Spec => []PollerInvariant
BY InitEstablishes, PollerKept, PTL DEF Spec

\* The follower of an answer was polled with the leader or just before it.
LEMMA AnswersTogether == PollerInvariant => SkewBounded
<1>1. PollerInvariant => SkewInPolls
  BY DEF PollerInvariant, ViewsOrdered, SkewInPolls, AfterFollower
<1>2. PollerInvariant => SkewInTime
  BY DEF PollerInvariant
<1> QED
  BY <1>1, <1>2 DEF SkewBounded

\* An answer never pairs the leader with an unmarked follower of an earlier poll
\* than the one just before, nor with one read more than StaleAfter before it,
\* although both arms are polled between the two views (snapshot, _arm_view).
THEOREM SkewIsBounded == Spec => []SkewBounded
BY AnswersTogether, StateServerCorrect, PTL

-----------------------------------------------------------------------------
\* Why "degraded" and "stale" agree while the server runs: an arm that has delivered
\* a sample is connected, in the cache and in every view taken of it, and a view
\* that is not stale has a sample and no errors.
Delivers(view) == view.sample # NoSample => view.connected
Fresh(view) == ~view.stale => view.sample # NoSample /\ view.errors = 0

ServingInvariant ==
    /\ main \in BeforeStart =>
         request.at = "idle" /\ \A a \in Arms : poll[a].lastGood = NoSample
    /\ main = "serving" =>
         /\ \A a \in Arms : poll[a].lastGood # NoSample => poll[a].connected
         /\ request.at \in AfterLeader => Delivers(request.leader)
         /\ request.at \in AfterFollower => Delivers(request.follower)
    /\ request.at \in AfterLeader \ {"ageLeader"} => Fresh(request.leader)
    /\ request.at = "assemble" => Fresh(request.follower)

\* Each of the three threads and the clock keep it, given the types and that only
\* main() starts the poller.
LEMMA ServingKept ==
    PollerInvariant /\ ServingInvariant /\ [Next]_vars => ServingInvariant'
<1> SUFFICES ASSUME TypeOK, StartedByMain, ServingInvariant, [Next]_vars
             PROVE  ServingInvariant'
  BY DEF PollerInvariant
<1> USE DEF ServingInvariant, AfterLeader, AfterFollower, BeforeStart, pollVars, threadVars
<1>1. CASE PollBegins \/ PollerExits \/ PollCounts \/ \E a \in Arms : ArmRead(a)
  BY <1>1 DEF PollBegins, PollerExits, PollCounts, ArmRead, Delivers, Fresh
<1>2. ASSUME NEW a \in Arms, ReadFails(a) PROVE ServingInvariant'
  <2>1. \A b \in Arms : /\ poll'[b].lastGood = poll[b].lastGood
                        /\ poll'[b].connected = poll[b].connected
    BY <1>2 DEF ReadFails, TypeOK, ArmPollStates
  <2> QED
    BY <1>2, <2>1 DEF ReadFails, Delivers, Fresh
<1>3. ASSUME NEW a \in Arms, SampleStored(a) PROVE ServingInvariant'
  <2>1. \A b \in Arms : poll'[b] = poll[b] \/ poll'[b].connected
    BY <1>3 DEF SampleStored, TypeOK
  <2>2. main \notin BeforeStart
    BY <1>3 DEF SampleStored, StartedByMain, Arms
  <2> QED
    BY <1>3, <2>1, <2>2 DEF SampleStored, Delivers, Fresh
<1>4. CASE RequestSteps
  <2>1. /\ UNCHANGED <<poll, main>>
        /\ main \in BeforeStart => main = "serving" \/ request.at # "idle"
        /\ request \in [at : RequestPhases, leader : ArmViews, follower : ArmViews]
    BY <1>4 DEF RequestSteps, RequestBegins, RequestTakesViews, Answers, TypeOK
  <2>2. main \notin BeforeStart
    BY <2>1
  <2>3. CASE RequestBegins \/ Answers
    <3>1. request'.at \in {"idle", "lockLeader"}
      BY <2>1, <2>3 DEF RequestBegins, Answers, NoRequest
    <3> QED
      BY <2>1, <2>2, <3>1
  <2>4. CASE request.at = "lockLeader" /\ RequestTakesViews
    <3>1. request'.at = "ageLeader" /\ request'.leader = LockedView("leader")
      BY <2>1, <2>4 DEF RequestTakesViews
    <3> QED
      BY <2>1, <2>2, <3>1 DEF LockedView, Delivers, Arms
  <2>5. CASE request.at = "ageLeader" /\ RequestTakesViews
    <3>1. /\ request'.at = "lockFollower"
          /\ request'.leader = [request.leader EXCEPT !.stale = IsStale(request.leader)]
      BY <2>1, <2>5 DEF RequestTakesViews
    <3>2. /\ request'.leader.sample = request.leader.sample
          /\ request'.leader.errors = request.leader.errors
          /\ request'.leader.connected = request.leader.connected
          /\ request'.leader.stale = IsStale(request.leader)
      BY <2>1, <3>1 DEF ArmViews
    <3>3. Fresh(request.leader)'
      BY <2>1, <3>2 DEF Fresh, IsStale, ArmViews
    <3>4. Delivers(request.leader) => Delivers(request.leader)'
      BY <3>2 DEF Delivers
    <3> QED
      BY <2>1, <2>2, <2>5, <3>1, <3>3, <3>4
  <2>6. CASE request.at = "lockFollower" /\ RequestTakesViews
    <3>1. /\ request'.at = "ageFollower"
          /\ request'.leader = request.leader
          /\ request'.follower = LockedView("follower")
      BY <2>1, <2>6 DEF RequestTakesViews
    <3> QED
      BY <2>1, <2>2, <2>6, <3>1 DEF LockedView, Delivers, Fresh, Arms
  <2>7. CASE request.at = "ageFollower" /\ RequestTakesViews
    <3>1. /\ request'.at = "assemble"
          /\ request'.leader = request.leader
          /\ request'.follower = [request.follower EXCEPT !.stale = IsStale(request.follower)]
      BY <2>1, <2>7 DEF RequestTakesViews
    <3>2. /\ request'.follower.sample = request.follower.sample
          /\ request'.follower.errors = request.follower.errors
          /\ request'.follower.connected = request.follower.connected
          /\ request'.follower.stale = IsStale(request.follower)
      BY <2>1, <3>1 DEF ArmViews
    <3>3. Fresh(request.follower)'
      BY <2>1, <3>2 DEF Fresh, IsStale, ArmViews
    <3>4. Delivers(request.follower) => Delivers(request.follower)'
      BY <3>2 DEF Delivers
    <3>5. /\ Delivers(request.leader)' = Delivers(request.leader)
          /\ Fresh(request.leader)' = Fresh(request.leader)
      BY <3>1 DEF Delivers, Fresh
    <3> QED
      BY <2>1, <2>2, <2>7, <3>1, <3>3, <3>4, <3>5
  <2> QED
    BY <1>4, <2>3, <2>4, <2>5, <2>6, <2>7 DEF RequestSteps, RequestTakesViews
<1>5. CASE StartPoller \/ StopPoller \/ JoinReturns \/ ProcessExits
  BY <1>5 DEF StartPoller, StopPoller, JoinReturns, ProcessExits, Delivers, Fresh
<1>6. ASSUME NEW a \in Arms, ConnectSucceeds(a) \/ ConnectFails(a) \/ Disconnects(a)
      PROVE  ServingInvariant'
  <2>1. \A b \in Arms : poll'[b].lastGood = poll[b].lastGood
    BY <1>6 DEF ConnectSucceeds, ConnectFails, Disconnects, TypeOK, ArmPollStates
  <2>2. /\ request' = request
        /\ main' # "serving"
        /\ main' \in BeforeStart => main \in BeforeStart
    BY <1>6 DEF ConnectSucceeds, ConnectFails, Disconnects, Connecting, Connected,
                Disconnecting, Disconnected, Arms
  <2> QED
    BY <2>1, <2>2 DEF Fresh
<1>7. CASE ClockTicks \/ UNCHANGED vars
  BY <1>7 DEF ClockTicks, vars, Delivers, Fresh
<1> QED
  BY <1>1, <1>2, <1>3, <1>4, <1>5, <1>6, <1>7 DEF Next, PollerSteps, MainSteps

\* Before the poller is started nothing is served.
LEMMA ServingBegins == Init => ServingInvariant
BY DEF Init, ServingInvariant, NoRequest, AfterLeader, AfterFollower, Arms

\* What is served is honest.
LEMMA AnswersHonest == PollerInvariant /\ ServingInvariant => HealthHonest
<1>1. PollerInvariant /\ ServingInvariant => DegradedMeansStale
  BY MaxReadErrorsAssumption
     DEF PollerInvariant, ServingInvariant, DegradedMeansStale, Status, HasError, Delivers, Fresh,
         AfterLeader, AfterFollower
<1> QED
  BY <1>1 DEF PollerInvariant, HealthHonest

\* The error count of an arm is exact at every moment, whatever read fails or port
\* closes; and while the server runs /health says "degraded" only of an arm that
\* /state marks stale: one that delivers is never called disconnected (health,
\* connect_all, _poll_arm).
THEOREM HealthIsHonest == Spec => []HealthHonest
BY ServingBegins, AnswersHonest, ServingKept, StateServerCorrect, PTL DEF Spec

-----------------------------------------------------------------------------
(***************************************************************************)
(* The camera source: what an observation is made of, although threads     *)
(* outlive the session that started them.                                  *)
(***************************************************************************)
Released(t) == t[1] \in released
OpenedPhases == {"clearing", "waiting", "open", "giveUp"}

\* A thread belongs to a session that was opened; one whose capture was not
\* released is of the session that is open, and that session has every camera.
ThreadsOwned ==
  \A t \in CaptureThreads : Running(t) =>
    /\ t[1] <= session
    /\ Released(t) \/ (t[1] = session /\ camMain \in {"waiting", "open", "giveUp"} /\ captures = Cameras)

\* A frame that comes late is the last of its thread.
LateIsLast ==
  \A t \in CaptureThreads :
    late[t] = 0 \/ (late[t] = 1 /\ Released(t) /\ capture[t] \notin {"reading", "frame"})

\* Which captures there are, and what they can have delivered.
FramesOwned ==
  Undisturbed =>
    /\ \A c \in Cameras : latest[c] \in {NoFrame, session}
    /\ camMain \in {"closed", "clearing"} \/ captures # Cameras => \A c \in Cameras : latest[c] = NoFrame

\* While the cameras are open no stop was asked for, and each has its thread or
\* its error.
WatchedWhileOpen ==
  /\ camMain \in OpenedPhases => ~camStop /\ session \notin released
  /\ camMain \in {"waiting", "open"} =>
       captures = Cameras /\ \A c \in Cameras : Running(<<session, c>>) \/ c \in errors

CameraInvariant ==
  /\ CameraTypeOK
  /\ camMain # "closed" => session >= 1
  /\ released \subseteq 1 .. session
  /\ consumer \in [at : {"idle", "checked"}, frames : SUBSET Cameras]
  /\ late \in [CaptureThreads -> Nat]
  /\ ThreadsOwned /\ LateIsLast /\ FramesOwned /\ WatchedWhileOpen
  /\ NeverHalfAnObservation

-----------------------------------------------------------------------------
\* The owner's steps and the consumer's keep the invariant.
LEMMA CameraOwnerKeeps ==
  ASSUME CameraInvariant,
         \/ OpenBegins \/ OpenStartsThreads \/ OpenReturns \/ OpenGivesUp \/ CloseBegins \/ CloseEnds
         \/ CaptureAllBegins \/ CaptureAllEnds \/ UNCHANGED camVars
  PROVE  CameraInvariant'
<1> USE CameraAssumption DEF CameraInvariant, CameraTypeOK, ThreadsOwned, LateIsLast, FramesOwned,
        WatchedWhileOpen, OpenedPhases, Undisturbed, NeverHalfAnObservation, Running, Released, NoFrame
<1>0. /\ MaxSessions \in Nat
      /\ \A t \in CaptureThreads : t[1] \in 1 .. MaxSessions /\ t[2] \in Cameras
      /\ \A s \in 1 .. MaxSessions, c \in Cameras :
           <<s, c>> \in CaptureThreads /\ <<s, c>>[1] = s /\ <<s, c>>[2] = c
  BY DEF CaptureThreads
<1>1. CASE OpenBegins
  <2>1. /\ camMain = "closed" /\ camMain' = "clearing" /\ session < MaxSessions
        /\ session' = session + 1 /\ camStop' = FALSE
        /\ UNCHANGED <<captures, latest, errors, capture, released, consumer, late>>
    BY <1>1 DEF OpenBegins
  <2>2. session' \in 1 .. MaxSessions /\ released \subseteq 1 .. session' /\ session' \notin released
    <3>1. session \in Nat /\ session + 1 \in 1 .. MaxSessions
      BY <1>0, <2>1
    <3>2. \A s \in 1 .. session : s \in 1 .. session + 1 /\ s # session + 1
      BY <3>1
    <3>3. released \subseteq 1 .. session
      OBVIOUS
    <3> HIDE DEF CameraInvariant
    <3> QED BY <2>1, <3>1, <3>2, <3>3
  <2>3. CameraTypeOK'
    <3>1. session' \in 0 .. MaxSessions /\ released \subseteq 1 .. MaxSessions
      BY <1>0, <2>2
    <3> QED BY <2>1, <3>1
  <2>4. NeverHalfAnObservation' /\ LateIsLast'
    BY <2>1
  <2>5. ThreadsOwned'
    BY <1>0, <2>1, <2>2
  <2>6. FramesOwned' /\ WatchedWhileOpen'
    BY <2>1, <2>2
  <2> HIDE DEF CameraTypeOK, NeverHalfAnObservation, LateIsLast, ThreadsOwned, FramesOwned,
               WatchedWhileOpen
  <2> QED BY <2>1, <2>2, <2>3, <2>4, <2>5, <2>6
<1>2. CASE OpenStartsThreads
  BY <1>0, <1>2 DEF OpenStartsThreads
<1>3. CASE OpenReturns \/ OpenGivesUp
  <2>1. /\ camMain = "waiting" /\ camMain' \in {"open", "giveUp"}
        /\ UNCHANGED <<session, captures, latest, errors, camStop, capture, released, consumer, late>>
    BY <1>3 DEF OpenReturns, OpenGivesUp
  <2>2. CameraTypeOK' /\ NeverHalfAnObservation' /\ LateIsLast'
    BY <2>1
  <2>3. ThreadsOwned' /\ FramesOwned' /\ WatchedWhileOpen'
    BY <2>1
  <2> HIDE DEF CameraTypeOK, NeverHalfAnObservation, LateIsLast, ThreadsOwned, FramesOwned,
               WatchedWhileOpen
  <2> QED BY <2>1, <2>2, <2>3
<1>4. CASE CloseBegins
  BY <1>0, <1>4 DEF CloseBegins
<1>5. CASE CloseEnds
  BY <1>0, <1>5 DEF CloseEnds
<1>6. CASE CaptureAllBegins
  BY <1>0, <1>6 DEF CaptureAllBegins
<1>7. CASE CaptureAllEnds
  BY <1>0, <1>7 DEF CaptureAllEnds, Available, Complete
<1>8. CASE UNCHANGED camVars
  BY <1>0, <1>8 DEF camVars
<1> QED BY <1>1, <1>2, <1>3, <1>4, <1>5, <1>6, <1>7, <1>8

\* The steps of a capture thread, of this session or left behind by an earlier
\* one, keep it.
LEMMA CaptureThreadKeeps ==
  ASSUME CameraInvariant, NEW t \in CaptureThreads, CaptureStep(t)
  PROVE  CameraInvariant'
<1> USE CameraAssumption DEF CameraInvariant, CameraTypeOK, ThreadsOwned, LateIsLast, FramesOwned,
        WatchedWhileOpen, OpenedPhases, Undisturbed, NeverHalfAnObservation, Running, Released, NoFrame,
        ThreadStep, CameraRest
<1>0. /\ MaxSessions \in Nat
      /\ \A u \in CaptureThreads : u[1] \in 1 .. MaxSessions /\ u[2] \in Cameras
      /\ \A s \in 1 .. MaxSessions, c \in Cameras :
           <<s, c>> \in CaptureThreads /\ <<s, c>>[1] = s /\ <<s, c>>[2] = c
  BY DEF CaptureThreads
<1>1. CASE ReadsNext(t)
  BY <1>0, <1>1 DEF ReadsNext
<1>2. CASE SeesStop(t)
  BY <1>0, <1>2 DEF SeesStop
<1>3. CASE ReadReturns(t)
  BY <1>0, <1>3 DEF ReadReturns
<1>4. CASE PublishesFrame(t)
  BY <1>0, <1>4 DEF PublishesFrame
<1>5. CASE EndsFailed(t)
  BY <1>0, <1>5 DEF EndsFailed
<1>6. CASE RecordsError(t)
  BY <1>0, <1>6 DEF RecordsError
<1> QED BY <1>1, <1>2, <1>3, <1>4, <1>5, <1>6 DEF CaptureStep

\* A source that was never opened satisfies the invariant.
LEMMA CameraInitialised == CameraInit => CameraInvariant
<1> SUFFICES ASSUME CameraInit PROVE CameraInvariant
  OBVIOUS
<1> USE DEF CameraInit, NoFrame, Running
<1>1. CameraTypeOK
  <2>1. 0 \in 0 .. MaxSessions
    BY CameraAssumption
  <2>2. /\ latest \in [Cameras -> 0 .. MaxSessions]
        /\ capture \in [CaptureThreads -> {"none", "loop", "reading", "frame", "failed", "erring"}]
    BY <2>1
  <2> QED BY <2>1, <2>2 DEF CameraTypeOK
<1>2. ThreadsOwned /\ LateIsLast /\ late \in [CaptureThreads -> Nat]
  BY DEF ThreadsOwned, LateIsLast
<1>3. FramesOwned /\ WatchedWhileOpen /\ NeverHalfAnObservation
  BY DEF FramesOwned, WatchedWhileOpen, OpenedPhases, NeverHalfAnObservation
<1> QED BY <1>1, <1>2, <1>3 DEF CameraInvariant

\* Every step keeps it.
LEMMA CameraStepKeeps == CameraInvariant /\ [CameraNext]_camVars => CameraInvariant'
BY CameraOwnerKeeps, CaptureThreadKeeps DEF CameraNext

\* What the invariant says of the observations.
LEMMA ObservationsOwned == CameraInvariant => CameraTypeOK /\ CamerasCoherent
BY DEF CameraInvariant, CamerasCoherent, AtMostOneLateFrame, FramesOfThisSession, DeadMeansError,
       LateIsLast, FramesOwned, WatchedWhileOpen, NoFrame

\* The policy never sees one camera without the other, a thread that outlived its
\* session delivers one frame at most, without such a frame every frame kept is of
\* this session, and a camera of an open source is watched or reported
\* (capture_all, _capture_loop, open, close of RealCameraObservationSource).
THEOREM CamerasAreCoherent == CameraSpec => [](CameraTypeOK /\ CamerasCoherent)
BY ObservationsOwned, CameraInitialised, CameraStepKeeps, PTL DEF CameraSpec

-----------------------------------------------------------------------------
(***************************************************************************)
(* The viewer: which reading the simulation moves for, how old that was    *)
(* when a frame took it, and how far a mapped command moves.               *)
(***************************************************************************)
Positions == 0 .. Farthest
MaybePositions == Positions \cup {NoPosition}
Readings == [reading : Nat, leader : MaybePositions, recent : BOOLEAN]
ServerState == [sequence : Nat, reading : Nat, mode : Modes, age : 0 .. StaleAge + 1,
                leader : MaybePositions]
Question == [phase : {"asked"}]
Answer == [phase : {"answered"}, sequence : Nat, reading : Nat, mode : Modes,
           age : 0 .. StaleAge + 1, leader : MaybePositions, real : Nat \cup {Unknown},
           way : 0 .. Timeout]
Received == [present : {TRUE}, received : 0 .. StaleAge + 1, sequence : Nat, reading : Nat,
             mode : Modes, age : 0 .. StaleAge + 1, leader : MaybePositions,
             real : Nat \cup {Unknown}]
Waiting == [0 .. Delay -> Readings]

ViewerShape ==
  /\ source \in Sources
  /\ server \in ServerState /\ server.sequence <= server.reading /\ server.reading <= MaxReadings
  /\ call \in {NoCall} \cup Question \cup Answer
  /\ snapshot \in {NoSnapshot} \cup Received
  /\ command \in MaybePositions
  /\ source # "follower-safe" => command \in 0 .. RangeEnd
  /\ sinceStep \in Positions \cup {NoStep}
  /\ fatal \in BOOLEAN /\ violated = fatal
  /\ layer \in [waiting : Waiting, delayed : Readings, out : Int]
  /\ followed \in Readings

\* An age that is computed on the way counts everything but the way itself, and an
\* arm that was not read is stale.
AgesHonest ==
  /\ server.leader = NoPosition => server.age > StaleAge
  /\ call \in Answer =>
       /\ call.age <= StaleAge => call.real <= call.age + call.way
       /\ call.leader = NoPosition => call.age > StaleAge
  /\ snapshot \in Received =>
       /\ snapshot.age <= StaleAge /\ snapshot.received <= StaleAge =>
            snapshot.real <= snapshot.age + Timeout + snapshot.received
       /\ snapshot.leader = NoPosition => snapshot.age > StaleAge

\* The reading in the snapshot.
Shown == IF snapshot \in Received THEN snapshot.reading ELSE 0

\* Readings pass the calls and the snapshot in their order.
CallsInOrder ==
  /\ Shown <= server.reading
  /\ call \in Answer => Shown <= call.reading /\ call.reading <= server.reading

\* They pass the layer in their order too: what waits is no older than what is
\* delayed, the more so the less it has waited, and what is delayed no older than
\* what was followed.  All of them were recent when a frame took them.
QueueInOrder(waiting, delayed, shown) ==
  /\ delayed.recent /\ delayed.reading <= shown
  /\ delayed = NoReading => \A w \in 0 .. Delay : waiting[w] = NoReading
  /\ \A w \in 0 .. Delay : waiting[w] # NoReading =>
       /\ waiting[w].recent
       /\ delayed.reading <= waiting[w].reading /\ waiting[w].reading <= shown
  /\ \A v, w \in 0 .. Delay :
       v < w /\ waiting[v] # NoReading /\ waiting[w] # NoReading =>
         waiting[w].reading <= waiting[v].reading

FollowedInOrder ==
  /\ QueueInOrder(layer.waiting, layer.delayed, Shown)
  /\ followed.recent /\ followed.reading <= Shown
  /\ source = "realistic" => followed.reading <= layer.delayed.reading

ViewerInvariant == ViewerShape /\ AgesHonest /\ CallsInOrder /\ FollowedInOrder

\* The kinds of a call and of a snapshot exclude each other.
LEMMA KindsOfCall ==
  /\ NoCall \notin Question \cup Answer /\ NoSnapshot \notin Received
  /\ \A c \in Question : c.phase = "asked"
  /\ \A c \in Answer : c.phase = "answered"
  /\ \A c \in {NoCall} \cup Question \cup Answer : c.phase = "answered" => c \in Answer
  /\ NoCall.phase = "idle" /\ NoSnapshot.present = FALSE
  /\ \A s \in Received : s.present = TRUE
  /\ \A s \in {NoSnapshot} \cup Received : s.present => s \in Received
<1>1. NoCall.phase = "idle" /\ NoSnapshot.present = FALSE
  BY DEF NoCall, NoSnapshot
<1>2. (\A c \in Question : c.phase = "asked") /\ (\A c \in Answer : c.phase = "answered")
  BY DEF Question, Answer
<1>3. \A s \in Received : s.present = TRUE
  BY DEF Received
<1> QED
  BY <1>1, <1>2, <1>3

LEMMA BoundsOfViewer ==
  /\ {StaleAge, Timeout, StallAfter, Rate, Delay, RangeEnd, Farthest, MaxReadings, Oldest} \subseteq Nat
  /\ RangeEnd <= Farthest /\ LeaderAt \subseteq Positions
  /\ NoPosition = -1 /\ NoStep = -1 /\ Unknown = -1
  /\ NoReading \in Readings /\ NoReading.reading = 0 /\ NoReading.recent
BY ViewerAssumption DEF Oldest, Positions, MaybePositions, NoPosition, NoStep, Unknown, NoReading, Readings

\* The step of the mapper ends between where it was and where it is to go, and no
\* further than the rate allows.
LEMMA LimitedStep ==
  ASSUME NEW from \in Positions, NEW to \in 0 .. RangeEnd, sinceStep \in Positions \cup {NoStep}
  PROVE  /\ Limited(from, to) \in Positions
         /\ from \in 0 .. RangeEnd => Limited(from, to) \in 0 .. RangeEnd
         /\ Limited(from, to) - from <= Rate * Elapsed /\ from - Limited(from, to) <= Rate * Elapsed
<1>1. StepLimit \in Nat
  <2>1. \A a \in Nat, b \in Nat : a * b \in Nat
    OBVIOUS
  <2>2. Elapsed \in Nat
    BY BoundsOfViewer DEF Elapsed, Positions
  <2> QED
    BY <2>1, <2>2, BoundsOfViewer DEF StepLimit
<1>2. RangeEnd \in Nat /\ Farthest \in Nat /\ RangeEnd <= Farthest
  BY BoundsOfViewer
<1>3. StepLimit = Rate * Elapsed
  BY DEF StepLimit
<1> HIDE DEF StepLimit
<1>4. /\ Limited(from, to) \in Positions
      /\ from \in 0 .. RangeEnd => Limited(from, to) \in 0 .. RangeEnd
      /\ Limited(from, to) - from <= StepLimit /\ from - Limited(from, to) <= StepLimit
  BY <1>1, <1>2 DEF Limited, Least, Positions
<1> QED
  BY <1>3, <1>4

\* The viewer begins without a snapshot.
LEMMA ViewerBegins == ViewerInit => ViewerInvariant
<1> SUFFICES ASSUME ViewerInit PROVE ViewerInvariant
  OBVIOUS
<1>1. /\ server \in ServerState /\ server.sequence = 0 /\ server.reading = 0
      /\ server.leader # NoPosition
  BY BoundsOfViewer DEF ViewerInit, ServerState, Modes, MaybePositions, Positions
<1>2. /\ call = NoCall /\ snapshot = NoSnapshot /\ source \in Sources /\ sinceStep = NoStep
      /\ fatal = FALSE /\ violated = FALSE /\ followed = NoReading
      /\ command = IF source = "follower-safe" THEN NoPosition ELSE 0
  BY DEF ViewerInit
<1>3. call \notin Answer /\ snapshot \notin Received
  BY <1>2, KindsOfCall
<1>4. /\ layer \in [waiting : Waiting, delayed : Readings, out : Int]
      /\ layer.delayed = NoReading /\ (\A w \in 0 .. Delay : layer.waiting[w] = NoReading)
  BY BoundsOfViewer DEF ViewerInit, Waiting
<1>5. Shown = 0
  BY <1>3 DEF Shown
<1>6. ViewerShape
  <2>1. command \in MaybePositions /\ (source # "follower-safe" => command \in 0 .. RangeEnd)
    BY <1>2, BoundsOfViewer DEF MaybePositions, Positions
  <2>2. server.sequence <= server.reading /\ server.reading <= MaxReadings
    BY <1>1, BoundsOfViewer
  <2> QED
    BY <1>1, <1>2, <1>4, <2>1, <2>2, BoundsOfViewer DEF ViewerShape
<1>7. AgesHonest /\ CallsInOrder
  BY <1>1, <1>3, <1>5 DEF AgesHonest, CallsInOrder
<1>8. FollowedInOrder
  BY <1>2, <1>4, <1>5, BoundsOfViewer DEF FollowedInOrder, QueueInOrder
<1> QED
  BY <1>6, <1>7, <1>8 DEF ViewerInvariant

\* What is followed and what waits does not change.
LayerRests == UNCHANGED <<layer, followed>>

\* As long as the snapshot shows no earlier reading, they stay in order.
LEMMA LayerAtRest ==
  ASSUME ViewerInvariant, LayerRests, UNCHANGED source, Shown' \in Nat, Shown <= Shown'
  PROVE  FollowedInOrder'
<1>1. Shown \in Nat
  BY DEF ViewerInvariant, ViewerShape, Shown, Received
<1>2. layer.delayed.reading \in Nat /\ followed.reading \in Nat
      /\ (\A w \in 0 .. Delay : layer.waiting[w].reading \in Nat)
  BY DEF ViewerInvariant, ViewerShape, Readings, Waiting
<1>3. layer' = layer /\ followed' = followed /\ source' = source
  BY DEF LayerRests
<1>4. FollowedInOrder
  BY DEF ViewerInvariant
<1> HIDE DEF Shown, ViewerInvariant
<1>5. layer.delayed.reading <= Shown' /\ followed.reading <= Shown'
  BY <1>1, <1>2, <1>4 DEF FollowedInOrder, QueueInOrder
<1>6. \A w \in 0 .. Delay : layer.waiting[w] # NoReading => layer.waiting[w].reading <= Shown'
  BY <1>1, <1>2, <1>4 DEF FollowedInOrder, QueueInOrder
<1> QED
  BY <1>3, <1>4, <1>5, <1>6 DEF FollowedInOrder, QueueInOrder

\* Calls: what the server answers is as old as it says, the way included, and no
\* older than what it answered before.
LEMMA CallKeepsAges ==
  ASSUME ViewerInvariant, Asks \/ ServerAnswers \/ AnswerArrives \/ AskFails
  PROVE  ViewerInvariant'
<1> USE DEF ViewerInvariant
<1>0. StaleAge \in Nat /\ Timeout \in Nat
  BY BoundsOfViewer
<1>1. UNCHANGED <<source, server, watchdog, fatal, layer, command, sinceStep, followed, violated>>
  BY DEF Asks, ServerAnswers, AnswerArrives, AskFails, renderVars
<1>2. Shown \in Nat /\ server.reading \in Nat /\ Shown <= server.reading
  BY DEF ViewerShape, Shown, Received, ServerState, CallsInOrder
<1>3. SUFFICES /\ call' \in {NoCall} \cup Question \cup Answer
               /\ snapshot' \in {NoSnapshot} \cup Received
               /\ AgesHonest' /\ CallsInOrder'
               /\ Shown' \in Nat /\ Shown <= Shown'
  <2>1. FollowedInOrder'
    BY <1>1, <1>3, LayerAtRest DEF LayerRests
  <2> QED
    BY <1>1, <1>3, <2>1 DEF ViewerShape
<1>4. CASE Asks \/ AskFails
  <2>1. call' \in {NoCall} \cup Question /\ snapshot' = snapshot
    BY <1>4 DEF Asks, AskFails, Question
  <2>2. call' \notin Answer
    BY <2>1, KindsOfCall
  <2>3. Shown' = Shown
    BY <2>1 DEF Shown
  <2>4. AgesHonest' /\ CallsInOrder'
    BY <1>1, <2>1, <2>2, <2>3 DEF AgesHonest, CallsInOrder
  <2> QED
    BY <1>2, <2>1, <2>3, <2>4 DEF ViewerShape
<1>5. CASE ServerAnswers
  <2>1. snapshot' = snapshot /\ Shown' = Shown
    BY <1>5 DEF ServerAnswers, Shown
  <2>2. call' = [phase |-> "answered", sequence |-> server.sequence, reading |-> server.reading,
                 mode |-> server.mode, age |-> server.age, leader |-> server.leader,
                 real |-> server.age, way |-> 0]
    BY <1>5 DEF ServerAnswers
  <2>3. /\ server.sequence \in Nat /\ server.reading \in Nat /\ server.mode \in Modes
        /\ server.age \in 0 .. StaleAge + 1 /\ server.leader \in MaybePositions
    BY DEF ViewerShape, ServerState
  <2>4. call' \in Answer
    BY <1>0, <2>2, <2>3 DEF Answer
  <2>5. /\ call'.real = server.age /\ call'.age = server.age /\ call'.way = 0
        /\ call'.leader = server.leader /\ call'.reading = server.reading
    BY <2>2
  <2>6. AgesHonest'
    BY <1>0, <1>1, <2>1, <2>3, <2>5 DEF AgesHonest
  <2>7. CallsInOrder'
    BY <1>1, <1>2, <2>1, <2>3, <2>5 DEF CallsInOrder
  <2> QED
    BY <1>2, <2>1, <2>4, <2>6, <2>7 DEF ViewerShape
<1>6. CASE AnswerArrives
  <2>1. call \in Answer /\ call' = NoCall
    BY <1>6, KindsOfCall DEF AnswerArrives, ViewerShape
  <2>2. snapshot' = [present |-> TRUE, received |-> 0, sequence |-> call.sequence,
                     reading |-> call.reading, mode |-> call.mode, age |-> call.age,
                     leader |-> call.leader, real |-> call.real]
    BY <1>6 DEF AnswerArrives
  <2>3. /\ call.sequence \in Nat /\ call.reading \in Nat /\ call.mode \in Modes
        /\ call.age \in 0 .. StaleAge + 1 /\ call.leader \in MaybePositions
        /\ call.real \in Nat \cup {Unknown} /\ call.way \in 0 .. Timeout
    BY <2>1 DEF Answer
  <2>4. snapshot' \in Received
    BY <1>0, <2>2, <2>3 DEF Received
  <2>5. Shown' = call.reading
    BY <2>2, <2>4 DEF Shown
  <2>6. Shown <= call.reading /\ call.reading <= server.reading
    BY <2>1 DEF CallsInOrder
  <2>7. call' \notin Answer
    BY <2>1, KindsOfCall
  <2>8. AgesHonest'
    <3>1. snapshot'.age = call.age /\ snapshot'.received = 0 /\ snapshot'.real = call.real
          /\ snapshot'.leader = call.leader
      BY <2>2
    <3>2. call.age <= StaleAge => call.real <= call.age + call.way
      BY <2>1 DEF AgesHonest
    <3>3. Unknown = -1
      BY BoundsOfViewer
    <3>4. snapshot'.age <= StaleAge => snapshot'.real <= snapshot'.age + Timeout + snapshot'.received
      BY <1>0, <2>3, <3>1, <3>2, <3>3
    <3> QED
      BY <1>1, <2>1, <2>7, <3>1, <3>4 DEF AgesHonest
  <2>9. CallsInOrder'
    BY <1>1, <2>5, <2>6, <2>7 DEF CallsInOrder
  <2> QED
    BY <2>1, <2>3, <2>4, <2>5, <2>6, <2>8, <2>9
<1> QED
  BY <1>4, <1>5, <1>6

\* The server reads again, or is replaced by one that has read nothing.
LEMMA ServerKeepsAges ==
  ASSUME ViewerInvariant, ServerPolls \/ ServerRestarts
  PROVE  ViewerInvariant'
<1> USE DEF ViewerInvariant
<1>0. StaleAge \in Nat /\ MaxReadings \in Nat /\ LeaderAt \subseteq Positions /\ NoPosition \notin Positions
  BY BoundsOfViewer DEF Positions
<1>1. UNCHANGED <<source, call, snapshot, watchdog, fatal, layer, command, sinceStep, followed, violated>>
  BY DEF ServerPolls, ServerRestarts, renderVars
<1>2. /\ server \in ServerState /\ server.sequence \in Nat /\ server.reading \in Nat
      /\ server.mode \in Modes /\ server.sequence <= server.reading
  BY DEF ViewerShape, ServerState
<1>3. /\ server' \in ServerState /\ server'.sequence <= server'.reading
      /\ server'.reading <= MaxReadings /\ server.reading <= server'.reading
      /\ server'.leader = NoPosition => server'.age > StaleAge
  <2>1. CASE ServerPolls
    <3>1. PICK leader \in LeaderAt :
            server' = [server EXCEPT !.sequence = @ + 1, !.reading = @ + 1, !.age = 0, !.leader = leader]
      BY <2>1 DEF ServerPolls
    <3>2. server.reading < MaxReadings /\ leader \in Positions
      BY <1>0, <2>1 DEF ServerPolls
    <3>3. server' = [sequence |-> server.sequence + 1, reading |-> server.reading + 1,
                     mode |-> server.mode, age |-> 0, leader |-> leader]
      BY <1>2, <3>1 DEF ServerState
    <3> QED
      BY <1>0, <1>2, <3>2, <3>3 DEF ServerState, MaybePositions
  <2>2. CASE ServerRestarts
    <3>1. PICK mode \in Modes :
            server' = [server EXCEPT !.sequence = 0, !.mode = mode, !.age = StaleAge + 1,
                                     !.leader = NoPosition]
      BY <2>2 DEF ServerRestarts
    <3>2. server' = [sequence |-> 0, reading |-> server.reading, mode |-> mode,
                     age |-> StaleAge + 1, leader |-> NoPosition]
      BY <1>2, <3>1 DEF ServerState
    <3>3. server.reading <= MaxReadings
      BY DEF ViewerShape
    <3> QED
      BY <1>0, <1>2, <3>2, <3>3 DEF ServerState, MaybePositions
  <2> QED
    BY <2>1, <2>2
<1>4. Shown' = Shown /\ Shown \in Nat
  BY <1>1 DEF Shown, ViewerShape, Received
<1>5. CallsInOrder'
  <2>1. call \in Answer => call.reading \in Nat
    BY DEF Answer
  <2>2. server'.reading \in Nat
    BY <1>3 DEF ServerState
  <2> QED
    BY <1>1, <1>2, <1>3, <1>4, <2>1, <2>2 DEF CallsInOrder
<1>6. FollowedInOrder'
  BY <1>1, <1>4, LayerAtRest DEF LayerRests
<1> QED
  BY <1>1, <1>3, <1>5, <1>6 DEF ViewerShape, AgesHonest

\* A frame that is not held takes what was recent.
LEMMA WantedIsRecent ==
  ASSUME ViewerInvariant, snapshot.present, ~Stale
  PROVE  /\ snapshot \in Received /\ Wanted \in Readings /\ Wanted.recent
         /\ Wanted.reading = Shown /\ Wanted.leader = snapshot.leader
         /\ snapshot.leader \in Positions
<1>1. snapshot \in Received
  BY KindsOfCall DEF ViewerInvariant, ViewerShape
<1>2. /\ snapshot.reading \in Nat /\ snapshot.leader \in MaybePositions
      /\ snapshot.age \in 0 .. StaleAge + 1 /\ snapshot.received \in 0 .. StaleAge + 1
      /\ snapshot.real \in Nat \cup {Unknown}
  BY <1>1 DEF Received
<1>3. snapshot.age <= StaleAge /\ snapshot.received <= StaleAge
  BY <1>2, BoundsOfViewer DEF Stale
<1>4. snapshot.leader # NoPosition /\ snapshot.real <= snapshot.age + Timeout + snapshot.received
  BY <1>1, <1>2, <1>3, BoundsOfViewer DEF ViewerInvariant, AgesHonest
<1>5. snapshot.real <= Oldest
  BY <1>2, <1>3, <1>4, BoundsOfViewer DEF Oldest
<1> QED
  BY <1>1, <1>2, <1>4, <1>5 DEF Wanted, Readings, Shown, MaybePositions

\* The latency queue: what is newer than all that waits waits behind it.
LEMMA DelayedInOrder ==
  ASSUME NEW shown \in Nat, NEW new \in Readings, new.recent, new.reading = shown,
         layer \in [waiting : Waiting, delayed : Readings, out : Int],
         QueueInOrder(layer.waiting, layer.delayed, shown)
  PROVE  /\ Delayed(new) \in [waiting : Waiting, delayed : Readings, out : Int]
         /\ QueueInOrder(Delayed(new).waiting, Delayed(new).delayed, shown)
         /\ layer.delayed.reading <= Delayed(new).delayed.reading
<1> DEFINE waiting == [layer.waiting EXCEPT ![0] = new]
           Layers == [waiting : Waiting, delayed : Readings, out : Int]
<1>0. Delay \in Nat /\ NoReading \in Readings
  BY BoundsOfViewer
<1>1. /\ layer.waiting \in Waiting /\ layer.delayed \in Readings /\ layer.out \in Int
      /\ (\A w \in 0 .. Delay : layer.waiting[w] \in Readings)
  BY DEF Waiting
<1>2. /\ waiting \in Waiting /\ waiting[0] = new
      /\ \A w \in 0 .. Delay : w # 0 => waiting[w] = layer.waiting[w]
  BY <1>0, <1>1 DEF Waiting
<1>3. \A r \in Readings : r.reading \in Nat
  BY DEF Readings
<1>4. layer.delayed.reading \in Nat /\ layer.delayed.reading <= shown /\ layer.delayed.recent
  BY <1>1, <1>3 DEF QueueInOrder
<1>5. CASE layer.delayed = NoReading
  <2>1. /\ Delayed(new).waiting = layer.waiting /\ Delayed(new).delayed = new
        /\ Delayed(new) = [waiting |-> layer.waiting, delayed |-> new, out |-> layer.out]
    BY <1>1, <1>5 DEF Delayed
  <2>2. \A w \in 0 .. Delay : layer.waiting[w] = NoReading
    BY <1>5 DEF QueueInOrder
  <2>3. QueueInOrder(layer.waiting, new, shown)
    BY <2>2 DEF QueueInOrder
  <2> QED
    BY <1>1, <1>4, <2>1, <2>3
<1>6. CASE layer.delayed # NoReading /\ waiting[Delay] = NoReading
  <2>1. Delayed(new) = [waiting |-> waiting, delayed |-> layer.delayed, out |-> layer.out]
    BY <1>1, <1>6 DEF Delayed
  <2>2. QueueInOrder(waiting, layer.delayed, shown)
    <3> HIDE DEF waiting
    <3>1. \A w \in 0 .. Delay : waiting[w] # NoReading =>
            waiting[w].recent /\ layer.delayed.reading <= waiting[w].reading /\ waiting[w].reading <= shown
      BY <1>1, <1>2, <1>3, <1>4 DEF QueueInOrder
    <3>2. \A v, w \in 0 .. Delay :
            v < w /\ waiting[v] # NoReading /\ waiting[w] # NoReading =>
              waiting[w].reading <= waiting[v].reading
      BY <1>0, <1>1, <1>2, <1>3, <3>1 DEF QueueInOrder
    <3> QED
      BY <1>4, <1>6, <3>1, <3>2 DEF QueueInOrder
  <2> QED
    BY <1>1, <1>2, <1>4, <2>1, <2>2
<1>7. CASE layer.delayed # NoReading /\ waiting[Delay] # NoReading
  <2> DEFINE rest == [waiting EXCEPT ![Delay] = NoReading]
  <2>1. Delayed(new) = [waiting |-> rest, delayed |-> waiting[Delay], out |-> layer.out]
    BY <1>1, <1>7 DEF Delayed
  <2>2. /\ rest \in Waiting /\ waiting[Delay] \in Readings /\ rest[Delay] = NoReading
        /\ \A w \in 0 .. Delay : w # Delay => rest[w] = waiting[w]
    BY <1>0, <1>2 DEF Waiting
  <2>3. /\ waiting[Delay].recent /\ layer.delayed.reading <= waiting[Delay].reading
        /\ waiting[Delay].reading <= shown
    <3> HIDE DEF waiting
    <3> QED
      BY <1>0, <1>1, <1>2, <1>3, <1>4, <1>7 DEF QueueInOrder
  <2>4. QueueInOrder(rest, waiting[Delay], shown)
    <3>1. \A w \in 0 .. Delay : rest[w] # NoReading => w # Delay /\ rest[w] = waiting[w]
      BY <1>0, <2>2
    <3> HIDE DEF waiting, rest
    <3>2. \A w \in 0 .. Delay : rest[w] # NoReading =>
            /\ rest[w].recent /\ rest[w].reading <= shown
            /\ waiting[Delay].reading <= rest[w].reading
      BY <1>0, <1>1, <1>2, <1>3, <1>4, <1>7, <3>1 DEF QueueInOrder
    <3>3. \A v, w \in 0 .. Delay :
            v < w /\ rest[v] # NoReading /\ rest[w] # NoReading => rest[w].reading <= rest[v].reading
      BY <1>0, <1>1, <1>2, <1>3, <3>1, <3>2 DEF QueueInOrder
    <3> QED
      BY <1>7, <2>3, <3>2, <3>3 DEF QueueInOrder
  <2> QED
    BY <1>1, <2>1, <2>2, <2>3, <2>4
<1> QED
  BY <1>5, <1>6, <1>7

\* What a frame that is not held does to the reading that is followed and to the layer.
LEMMA ProcessedInOrder ==
  ASSUME ViewerInvariant, snapshot.present, ~Stale, source = "realistic", Processes,
         UNCHANGED <<snapshot, source>>
  PROVE  /\ layer' \in [waiting : Waiting, delayed : Readings, out : Int]
         /\ followed' \in Readings /\ followed.reading <= followed'.reading
         /\ command' \in 0 .. RangeEnd
         /\ FollowedInOrder'
<1> DEFINE next == Delayed(Wanted)
           Layers == [waiting : Waiting, delayed : Readings, out : Int]
<1>1. /\ Wanted \in Readings /\ Wanted.recent /\ Wanted.reading = Shown /\ Shown \in Nat
  BY WantedIsRecent DEF Readings
<1>2. /\ next \in Layers /\ QueueInOrder(next.waiting, next.delayed, Shown)
      /\ layer.delayed.reading <= next.delayed.reading
  <2>1. layer \in Layers /\ QueueInOrder(layer.waiting, layer.delayed, Shown)
    BY DEF ViewerInvariant, ViewerShape, FollowedInOrder
  <2> QED
    BY <1>1, <2>1, DelayedInOrder
<1>3. PICK out \in Between(IF layer.out = NoPosition THEN next.delayed.leader ELSE layer.out,
                           next.delayed.leader) :
        layer' = [next EXCEPT !.out = out] /\ Follows(out, next.delayed)
  BY DEF Processes
<1> HIDE DEF next
<1>4. next.delayed \in Readings /\ next.delayed.leader \in Int /\ next.delayed.reading \in Nat
      /\ next.waiting \in Waiting /\ layer.out \in Int
  <2>1. layer.out \in Int
    BY DEF ViewerInvariant, ViewerShape
  <2>2. next.delayed \in Readings /\ next.waiting \in Waiting
    BY <1>2
  <2>3. \A r \in Readings : r.leader \in Int /\ r.reading \in Nat
    BY BoundsOfViewer DEF Readings, MaybePositions, Positions
  <2> QED
    BY <2>1, <2>2, <2>3
<1>5. out \in Int
  <2>1. \A a, b \in Int : \A c \in Between(a, b) : c \in Int
    BY DEF Between
  <2> QED
    BY <1>3, <1>4, <2>1
<1>6. layer' = [waiting |-> next.waiting, delayed |-> next.delayed, out |-> out]
  BY <1>2, <1>3
<1>7. \/ command' = out /\ out \in 0 .. RangeEnd /\ followed' = next.delayed
      \/ command' = command /\ followed' = followed
  BY <1>3 DEF Follows
<1>8. /\ command \in 0 .. RangeEnd /\ followed \in Readings /\ followed.recent
      /\ followed.reading <= Shown /\ followed.reading <= layer.delayed.reading
      /\ followed.reading \in Nat /\ layer.delayed.reading \in Nat
  BY DEF ViewerInvariant, ViewerShape, FollowedInOrder, Readings
<1>9. /\ followed' \in Readings /\ followed'.recent /\ followed'.reading <= Shown
      /\ followed.reading <= followed'.reading /\ followed'.reading <= next.delayed.reading
      /\ command' \in 0 .. RangeEnd
  <2>1. next.delayed.recent /\ next.delayed.reading <= Shown
    BY <1>2 DEF QueueInOrder
  <2> QED
    BY <1>1, <1>2, <1>4, <1>7, <1>8, <2>1
<1>10. Shown' = Shown
  BY DEF Shown
<1>11. FollowedInOrder'
  BY <1>2, <1>6, <1>9, <1>10 DEF FollowedInOrder
<1> QED
  BY <1>4, <1>5, <1>6, <1>9, <1>11

\* A step of the mapper, held or not.
LEMMA MapperStepped ==
  ASSUME ViewerInvariant, snapshot.present, MapperSteps
  PROVE  /\ command' \in MaybePositions
         /\ command \in 0 .. RangeEnd => command' \in 0 .. RangeEnd
         /\ \/ followed' = followed
            \/ followed' \in Readings /\ followed'.recent /\ followed'.reading = Shown
         /\ Begun /\ command' # command =>
              /\ followed'.recent /\ followed'.reading = Shown
              /\ command' - command <= Rate * Elapsed
              /\ command - command' <= Rate * Elapsed
<1>0. /\ RangeEnd \in Nat /\ Farthest \in Nat /\ RangeEnd <= Farthest /\ NoPosition = -1
      /\ NoPosition \notin Positions
  BY BoundsOfViewer DEF Positions
<1>1. command \in MaybePositions /\ sinceStep \in Positions \cup {NoStep} /\ snapshot \in Received
  BY KindsOfCall DEF ViewerInvariant, ViewerShape
<1>2. PICK from \in MapperStarts :
        IF MapperHolds THEN command' = from /\ UNCHANGED followed
        ELSE command' = Limited(from, snapshot.leader) /\ followed' = Wanted
  BY DEF MapperSteps
<1>3. from \in MaybePositions /\ (Begun => from = command)
  BY <1>1, <1>2 DEF MapperStarts, MaybePositions, Positions, Begun
<1>4. CASE MapperHolds
  BY <1>0, <1>2, <1>3, <1>4 DEF Begun
<1>5. CASE ~MapperHolds
  <2>1. ~Stale /\ snapshot.leader <= RangeEnd
    <3>1. snapshot.leader \in Int
      BY <1>0, <1>1 DEF Received, MaybePositions, Positions
    <3> QED
      BY <1>0, <1>5, <3>1 DEF MapperHolds
  <2>2. /\ Wanted \in Readings /\ Wanted.recent /\ Wanted.reading = Shown
        /\ snapshot.leader \in 0 .. RangeEnd
    <3>1. snapshot.leader \in Positions
      BY <2>1, WantedIsRecent
    <3> QED
      BY <1>0, <2>1, <3>1, WantedIsRecent DEF Positions
  <2>3. from \in Positions
    BY <1>0, <1>1, <1>2, <1>3, <2>2 DEF MapperStarts, MaybePositions, Positions
  <2>4. /\ command' \in Positions
        /\ from \in 0 .. RangeEnd => command' \in 0 .. RangeEnd
        /\ command' - from <= Rate * Elapsed /\ from - command' <= Rate * Elapsed
    BY <1>1, <1>2, <1>5, <2>2, <2>3, LimitedStep
  <2>5. command \in 0 .. RangeEnd => Begun
    BY <1>0 DEF Begun
  <2> QED
    BY <1>2, <1>3, <1>5, <2>2, <2>4, <2>5 DEF MaybePositions
<1> QED
  BY <1>4, <1>5

\* A frame: what it takes is recent and in order, what was seen of a mode is not
\* forgotten, and the command of the leader stays within the range.
LEMMA FrameKeepsAges ==
  ASSUME ViewerInvariant, Frame
  PROVE  ViewerInvariant'
<1> USE DEF ViewerInvariant
<1>1. UNCHANGED <<source, server, call, snapshot>> /\ snapshot.present
  BY DEF Frame
<1>2. AgesHonest' /\ CallsInOrder' /\ Shown' = Shown /\ Shown \in Nat
  BY <1>1 DEF AgesHonest, CallsInOrder, Shown, ViewerShape, Received
<1>3. fatal' \in BOOLEAN /\ violated' = fatal'
  BY DEF Frame, ViewerShape, Fatal, OtherMode
<1>4. SUFFICES /\ command' \in MaybePositions
               /\ source # "follower-safe" => command' \in 0 .. RangeEnd
               /\ sinceStep' \in Positions \cup {NoStep}
               /\ layer' \in [waiting : Waiting, delayed : Readings, out : Int]
               /\ followed' \in Readings /\ FollowedInOrder'
  BY <1>1, <1>2, <1>3 DEF ViewerShape
<1>5. CASE source = "follower-safe" /\ MapperSteps /\ sinceStep' = 0 /\ UNCHANGED layer
  <2>1. 0 \in Positions
    BY BoundsOfViewer DEF Positions
  <2>2. followed' \in Readings /\ followed'.recent /\ followed'.reading <= Shown
    BY <1>1, <1>2, <1>5, MapperStepped DEF ViewerShape, FollowedInOrder
  <2>3. FollowedInOrder'
    BY <1>1, <1>2, <1>5, <2>2 DEF FollowedInOrder
  <2> QED
    BY <1>1, <1>5, <2>1, <2>2, <2>3, MapperStepped DEF ViewerShape
<1>6. CASE source # "follower-safe" /\ UNCHANGED <<layer, command, followed, sinceStep>>
  BY <1>1, <1>2, <1>6, LayerAtRest DEF LayerRests, ViewerShape
<1>7. CASE /\ ~Held /\ source = "raw-leader" /\ Follows(snapshot.leader, Wanted)
           /\ UNCHANGED <<layer, sinceStep>>
  <2>1. ~Stale
    BY <1>7 DEF Held
  <2>2. /\ followed' \in Readings /\ followed'.recent /\ followed'.reading <= Shown
        /\ command' \in 0 .. RangeEnd
    BY <1>1, <1>2, <1>7, <2>1, WantedIsRecent DEF Follows, ViewerShape, FollowedInOrder
  <2>3. FollowedInOrder'
    BY <1>1, <1>2, <1>7, <2>2 DEF FollowedInOrder
  <2>4. command' \in MaybePositions
    BY <2>2, BoundsOfViewer DEF MaybePositions, Positions
  <2> QED
    BY <1>1, <1>7, <2>2, <2>3, <2>4 DEF ViewerShape
<1>8. CASE ~Held /\ source = "realistic" /\ Processes /\ UNCHANGED sinceStep
  <2>1. ~Stale
    BY <1>8 DEF Held
  <2>2. /\ layer' \in [waiting : Waiting, delayed : Readings, out : Int]
        /\ followed' \in Readings /\ command' \in 0 .. RangeEnd /\ FollowedInOrder'
    BY <1>1, <1>8, <2>1, ProcessedInOrder
  <2>3. command' \in MaybePositions
    BY <2>2, BoundsOfViewer DEF MaybePositions, Positions
  <2> QED
    BY <1>8, <2>2, <2>3 DEF ViewerShape
<1> QED
  BY <1>5, <1>6, <1>7, <1>8 DEF Frame

\* Commands that wait keep their order.
LEMMA LayerAgesInOrder ==
  ASSUME NEW shown \in Nat, layer \in [waiting : Waiting, delayed : Readings, out : Int],
         QueueInOrder(layer.waiting, layer.delayed, shown)
  PROVE  /\ LayerAges \in [waiting : Waiting, delayed : Readings, out : Int]
         /\ LayerAges.delayed = layer.delayed
         /\ QueueInOrder(LayerAges.waiting, LayerAges.delayed, shown)
<1> DEFINE old == layer.waiting
           new == [w \in 0 .. Delay |->
                     IF w > 0 /\ (w < Delay \/ old[w - 1] # NoReading) THEN old[w - 1]
                     ELSE IF w = Delay THEN old[w] ELSE NoReading]
<1>0. Delay \in Nat /\ NoReading \in Readings
  BY BoundsOfViewer
<1>1. /\ old \in Waiting /\ layer.delayed \in Readings /\ layer.out \in Int
      /\ \A w \in 0 .. Delay : old[w] \in Readings
  BY DEF Waiting
<1>2. LayerAges = [waiting |-> new, delayed |-> layer.delayed, out |-> layer.out]
  <2>1. LayerAges = [layer EXCEPT !.waiting = new]
    BY DEF LayerAges
  <2> HIDE DEF new
  <2> QED
    BY <1>1, <2>1
<1>3. \A w \in 0 .. Delay :
        \/ new[w] = NoReading
        \/ w > 0 /\ new[w] = old[w - 1]
        \/ w = Delay /\ new[w] = old[w]
  BY <1>0
<1>4. new \in Waiting
  <2>1. \A w \in 0 .. Delay : new[w] \in Readings
    BY <1>0, <1>1
  <2> QED
    BY <2>1 DEF Waiting
<1> HIDE DEF new, old
<1>5. QueueInOrder(old, layer.delayed, shown)
  BY DEF old
<1>6. \A r \in Readings : r.reading \in Nat
  BY DEF Readings
<1>7. layer.delayed = NoReading => \A w \in 0 .. Delay : new[w] = NoReading
  BY <1>0, <1>3, <1>5 DEF QueueInOrder
<1>8. \A w \in 0 .. Delay : new[w] # NoReading =>
        /\ new[w].recent /\ layer.delayed.reading <= new[w].reading /\ new[w].reading <= shown
  BY <1>0, <1>3, <1>5 DEF QueueInOrder
<1>9. \A v, w \in 0 .. Delay :
        v < w /\ new[v] # NoReading /\ new[w] # NoReading => new[w].reading <= new[v].reading
  <2> SUFFICES ASSUME NEW v \in 0 .. Delay, NEW w \in 0 .. Delay, v < w,
                      new[v] # NoReading, new[w] # NoReading
               PROVE  new[w].reading <= new[v].reading
    OBVIOUS
  <2>1. v > 0 /\ new[v] = old[v - 1] /\ v - 1 \in 0 .. Delay
    BY <1>0, <1>3
  <2>2. PICK u \in 0 .. Delay : new[w] = old[u] /\ v - 1 < u
    BY <1>0, <1>3
  <2> QED
    BY <1>5, <2>1, <2>2 DEF QueueInOrder
<1>10. QueueInOrder(new, layer.delayed, shown)
  <2>1. layer.delayed.recent /\ layer.delayed.reading <= shown
    BY <1>5 DEF QueueInOrder
  <2> QED
    BY <1>7, <1>8, <1>9, <2>1 DEF QueueInOrder
<1> QED
  BY <1>1, <1>2, <1>4, <1>10

\* Time: every age grows with the true one, until it is too old anyway.
LEMMA TimeKeepsAges ==
  ASSUME ViewerInvariant, TimePasses
  PROVE  ViewerInvariant'
<1> USE DEF ViewerInvariant
<1>0. /\ StaleAge \in Nat /\ Timeout \in Nat /\ Farthest \in Nat /\ Oldest \in Nat
      /\ Unknown = -1 /\ NoStep = -1
  BY BoundsOfViewer
<1>1. UNCHANGED <<source, fatal, command, followed, violated>>
  BY DEF TimePasses
<1>2. /\ server' \in ServerState /\ server'.sequence = server.sequence
      /\ server'.reading = server.reading
      /\ server'.leader = NoPosition => server'.age > StaleAge
  <2>1. /\ server \in ServerState /\ server.age \in 0 .. StaleAge + 1
        /\ server.leader = NoPosition => server.age > StaleAge
    BY DEF ViewerShape, AgesHonest, ServerState
  <2>2. server' = [server EXCEPT !.age = Older(@, StaleAge)]
    BY DEF TimePasses
  <2>3. /\ Older(server.age, StaleAge) \in 0 .. StaleAge + 1
        /\ server.age > StaleAge => Older(server.age, StaleAge) > StaleAge
    BY <1>0, <2>1 DEF Older
  <2> QED
    BY <2>1, <2>2, <2>3 DEF ServerState
<1>3. /\ call' \in {NoCall} \cup Question \cup Answer
      /\ call' \in Answer =>
           /\ call \in Answer /\ call'.reading = call.reading
           /\ call'.age <= StaleAge => call'.real <= call'.age + call'.way
           /\ call'.leader = NoPosition => call'.age > StaleAge
  <2>1. CASE call \notin Answer
    BY <2>1, KindsOfCall DEF TimePasses, ViewerShape
  <2>2. CASE call \in Answer
    <3>1. /\ call.real \in Nat \cup {Unknown} /\ call.age \in 0 .. StaleAge + 1
          /\ call.way \in 0 .. Timeout
      BY <2>2 DEF Answer
    <3>2. call' = [call EXCEPT !.way = Least(Timeout, @ + 1),
                               !.real = IF call.way < Timeout THEN RealOlder(@) ELSE Unknown]
      BY <2>2, KindsOfCall DEF TimePasses
    <3> DEFINE way == Least(Timeout, call.way + 1)
               real == IF call.way < Timeout THEN RealOlder(call.real) ELSE Unknown
    <3>3. /\ call'.age = call.age /\ call'.reading = call.reading /\ call'.leader = call.leader
          /\ call'.way = way /\ call'.real = real
      BY <2>2, <3>2 DEF Answer
    <3>4. /\ way \in 0 .. Timeout /\ real \in Nat \cup {Unknown}
          /\ \/ real = Unknown
             \/ way = call.way + 1 /\ real <= call.real + 1
      BY <1>0, <3>1 DEF Least, RealOlder, Older
    <3>5. call' \in Answer
      BY <2>2, <3>2, <3>4 DEF Answer
    <3>6. /\ call.age <= StaleAge => call.real <= call.age + call.way
          /\ call.leader = NoPosition => call.age > StaleAge
      BY <2>2 DEF AgesHonest
    <3> HIDE DEF way, real, ViewerInvariant
    <3>7. call.age <= StaleAge => real <= call.age + way
      BY <1>0, <3>1, <3>4, <3>6
    <3> QED
      BY <2>2, <3>3, <3>5, <3>6, <3>7
  <2> QED
    BY <2>1, <2>2
<1>4. /\ snapshot' \in {NoSnapshot} \cup Received /\ Shown' = Shown
      /\ snapshot' \in Received =>
           /\ snapshot'.age <= StaleAge /\ snapshot'.received <= StaleAge =>
                snapshot'.real <= snapshot'.age + Timeout + snapshot'.received
           /\ snapshot'.leader = NoPosition => snapshot'.age > StaleAge
  <2>1. CASE snapshot = NoSnapshot
    BY <2>1, KindsOfCall DEF TimePasses, Shown
  <2>2. CASE snapshot \in Received
    <3>1. /\ snapshot.present = TRUE /\ snapshot.real \in Nat \cup {Unknown}
          /\ snapshot.age \in 0 .. StaleAge + 1 /\ snapshot.received \in 0 .. StaleAge + 1
      BY <2>2 DEF Received
    <3>2. snapshot' = [snapshot EXCEPT !.received = Older(@, StaleAge), !.real = RealOlder(@)]
      BY <3>1 DEF TimePasses
    <3>3. /\ snapshot'.age = snapshot.age /\ snapshot'.received = Older(snapshot.received, StaleAge)
          /\ snapshot'.real = RealOlder(snapshot.real) /\ snapshot'.leader = snapshot.leader
          /\ snapshot'.reading = snapshot.reading
      BY <2>2, <3>2 DEF Received
    <3>4. /\ RealOlder(snapshot.real) \in Nat \cup {Unknown}
          /\ RealOlder(snapshot.real) = Unknown \/ RealOlder(snapshot.real) <= snapshot.real + 1
      BY <1>0, <3>1 DEF RealOlder, Older
    <3>5. /\ Older(snapshot.received, StaleAge) \in 0 .. StaleAge + 1
          /\ Older(snapshot.received, StaleAge) <= StaleAge =>
               Older(snapshot.received, StaleAge) = snapshot.received + 1
      BY <1>0, <3>1 DEF Older
    <3>6. snapshot' \in Received
      BY <2>2, <3>2, <3>4, <3>5 DEF Received
    <3>7. /\ snapshot.age <= StaleAge /\ snapshot.received <= StaleAge =>
               snapshot.real <= snapshot.age + Timeout + snapshot.received
          /\ snapshot.leader = NoPosition => snapshot.age > StaleAge
      BY <2>2 DEF AgesHonest
    <3> HIDE DEF ViewerInvariant
    <3>8. snapshot.age <= StaleAge /\ Older(snapshot.received, StaleAge) <= StaleAge =>
            RealOlder(snapshot.real) <= snapshot.age + Timeout + Older(snapshot.received, StaleAge)
      BY <1>0, <3>1, <3>4, <3>5, <3>7
    <3> QED
      BY <2>2, <3>3, <3>6, <3>7, <3>8 DEF Shown
  <2> QED
    BY <2>1, <2>2 DEF ViewerShape
<1>5. sinceStep' \in Positions \cup {NoStep}
  BY <1>0 DEF TimePasses, ViewerShape, Least, Positions
<1>6. /\ layer' \in [waiting : Waiting, delayed : Readings, out : Int]
      /\ FollowedInOrder'
  <2>1. Shown \in Nat /\ QueueInOrder(layer.waiting, layer.delayed, Shown)
        /\ layer \in [waiting : Waiting, delayed : Readings, out : Int]
    BY DEF Shown, ViewerShape, Received, FollowedInOrder
  <2>2. layer' = LayerAges
    BY DEF TimePasses
  <2>3. /\ LayerAges \in [waiting : Waiting, delayed : Readings, out : Int]
        /\ LayerAges.delayed = layer.delayed
        /\ QueueInOrder(LayerAges.waiting, LayerAges.delayed, Shown)
    BY <2>1, LayerAgesInOrder
  <2>4. followed.recent /\ followed.reading <= Shown
        /\ (source = "realistic" => followed.reading <= layer.delayed.reading)
    BY DEF FollowedInOrder
  <2> QED
    BY <1>1, <1>4, <2>2, <2>3, <2>4 DEF FollowedInOrder
<1>7. AgesHonest' /\ CallsInOrder'
  BY <1>2, <1>3, <1>4 DEF AgesHonest, CallsInOrder
<1>8. ViewerShape'
  BY <1>1, <1>2, <1>3, <1>4, <1>5, <1>6 DEF ViewerShape
<1> QED
  BY <1>6, <1>7, <1>8

\* A step of the viewer or of the server it follows.
LEMMA ViewerStepKeeps ==
  ASSUME ViewerInvariant, [ViewerNext]_viewerVars
  PROVE  ViewerInvariant'
<1>1. CASE UNCHANGED viewerVars
  <2>1. Shown' = Shown /\ Shown \in Nat
    BY <1>1 DEF viewerVars, Shown, ViewerInvariant, ViewerShape, Received
  <2>2. FollowedInOrder'
    BY <1>1, <2>1, LayerAtRest DEF viewerVars, LayerRests
  <2> QED
    BY <1>1, <2>1, <2>2 DEF ViewerInvariant, ViewerShape, AgesHonest, CallsInOrder, viewerVars
<1>2. CASE FrameWithoutState
  <2>1. Shown' = Shown /\ Shown \in Nat /\ 0 \in Positions
    <3>1. 0 \in Positions
      BY BoundsOfViewer DEF Positions
    <3> QED
      BY <1>2, <3>1 DEF FrameWithoutState, Shown, ViewerInvariant, ViewerShape, Received
  <2>2. FollowedInOrder'
    BY <1>2, <2>1, LayerAtRest DEF FrameWithoutState, LayerRests
  <2> QED
    BY <1>2, <2>1, <2>2
       DEF FrameWithoutState, ViewerInvariant, ViewerShape, AgesHonest, CallsInOrder
<1> QED
  BY <1>1, <1>2, CallKeepsAges, ServerKeepsAges, FrameKeepsAges, TimeKeepsAges DEF ViewerNext

\* What a step may do to the command, from the invariant.
LEMMA CommandSteps ==
  ASSUME ViewerInvariant, [ViewerNext]_viewerVars
  PROVE  /\ Begun /\ command' # command =>
              followed'.recent /\ followed'.reading >= followed.reading
         /\ source # "follower-safe" /\ violated => UNCHANGED command
         /\ source = "follower-safe" /\ Begun /\ command' # command =>
              /\ command' - command <= Rate * Elapsed
              /\ command - command' <= Rate * Elapsed
         /\ InRange => InRange'
<1> USE DEF ViewerInvariant
<1>2. CASE UNCHANGED command
  BY <1>2 DEF InRange
<1>3. CASE Frame
  <2>1. snapshot.present /\ ViewerInvariant' /\ UNCHANGED <<source, snapshot>>
    BY <1>3, FrameKeepsAges DEF Frame
  <2>2. /\ Shown \in Nat /\ followed.reading \in Nat /\ followed.reading <= Shown
        /\ violated = fatal
    BY DEF Shown, ViewerShape, Received, FollowedInOrder, Readings
  <2>3. CASE source = "follower-safe" /\ MapperSteps
    BY <2>1, <2>2, <2>3, MapperStepped DEF InRange
  <2>4. CASE source # "follower-safe" /\ ~Held
    <3>1. ~violated /\ ~Stale
      BY <2>2, <2>4 DEF Held, Fatal
    <3>2. followed'.recent /\ InRange'
      BY <2>1, <2>4 DEF FollowedInOrder, ViewerShape, InRange
    <3>3. followed'.reading >= followed.reading
      <4>1. CASE source = "raw-leader" /\ Follows(snapshot.leader, Wanted)
        BY <2>1, <2>2, <3>1, <4>1, WantedIsRecent DEF Follows
      <4>2. CASE source = "realistic" /\ Processes
        <5>1. followed' \in Readings /\ followed.reading <= followed'.reading
          BY <2>1, <3>1, <4>2, ProcessedInOrder
        <5> QED
          BY <2>2, <5>1 DEF Readings
      <4> QED
        BY <1>3, <2>4, <4>1, <4>2 DEF Frame
    <3> QED
      BY <2>4, <3>1, <3>2, <3>3
  <2> QED
    BY <1>2, <1>3, <2>3, <2>4 DEF Frame
<1> QED
  BY <1>2, <1>3
     DEF ViewerNext, viewerVars, renderVars, ServerPolls, ServerRestarts, Asks, ServerAnswers,
         AnswerArrives, AskFails, FrameWithoutState, TimePasses

\* The viewer's invariant is of its types.
THEOREM ViewerTypes == ViewerInvariant => ViewerTypeOK
<1> SUFFICES ASSUME ViewerInvariant PROVE ViewerTypeOK
  OBVIOUS
<1>1. /\ server.sequence \in 0 .. MaxReadings /\ server.reading \in 0 .. MaxReadings
      /\ server.mode \in Modes /\ server.age \in 0 .. StaleAge + 1
  BY BoundsOfViewer DEF ViewerInvariant, ViewerShape, ServerState
<1>2. call.phase \in {"idle", "asked", "answered"}
  BY KindsOfCall DEF ViewerInvariant, ViewerShape
<1> QED
  BY <1>1, <1>2 DEF ViewerTypeOK, ViewerInvariant, ViewerShape, MaybePositions, Positions


-----------------------------------------------------------------------------
(***************************************************************************)
(* The log of safety events.                                               *)
(***************************************************************************)
Severities == {"WARN", "BLOCKED"}
Event == [key : Keys, samples : SUBSET Nat, blocked : BOOLEAN, clear : Nat]

\* Of one key: its completed events, the one that is going on, what was seen of it
\* in so many frames.
Ongoing(current) == IF current = NoEvent THEN {} ELSE {current}
FramesOf(history) == {s[1] : s \in history}
SamplesOf(past) == UNION {e.samples : e \in past}

Shaped(k, past, current, history, frames) ==
  /\ past \subseteq Event
  /\ \A e \in past : e.key = k /\ e.samples # {} /\ e.samples \subseteq 1 .. frames
  /\ current # NoEvent => /\ current \in Event /\ current.key = k /\ current.clear < ClearAfter
                      /\ frames - current.clear \in current.samples
                      /\ current.samples \subseteq 1 .. (frames - current.clear)
  /\ history \subseteq Nat \X Severities

InOneEvent(past, current, history) ==
  /\ FramesOf(history) = SamplesOf(past) \cup current.samples
  /\ \A e \in past : e.samples \cap current.samples = {}
  /\ \A e, f \in past : e # f => e.samples \cap f.samples = {}

AsSevere(e, history) == e.blocked = \E frame \in e.samples : <<frame, "BLOCKED">> \in history

Dense(samples) ==
  \A i, j \in samples : (i < j /\ \A n \in i + 1 .. j - 1 : n \notin samples) => j - i <= ClearAfter

Apart(past, current, frames) ==
  /\ \A e \in past : \A i \in e.samples : i + ClearAfter <= frames
  /\ \A e \in past : \A i \in e.samples : \A j \in current.samples : i + ClearAfter < j
  /\ \A e, f \in past : e # f => \A i \in e.samples, j \in f.samples : i < j => i + ClearAfter < j

KeyBooks(k, past, current, history, frames, going) ==
  /\ Shaped(k, past, current, history, frames)
  /\ InOneEvent(past, current, history)
  /\ \A e \in past \cup Ongoing(current) : AsSevere(e, history) /\ Dense(e.samples)
  /\ going => Apart(past, current, frames)

Going == stopping # "reported" /\ rendering # "over"

\* What the report lacks is the frame of after it.
ReportBooks ==
  /\ missed \in {0, 1}
  /\ stopping # "reported" => missed = 0
  /\ missed = 1 => rendering # "frames"
  /\ stopping = "reported" =>
       \A k \in Keys : SeenFrames(k) \ SamplesIn(report, k) \subseteq IF missed = 1 THEN {observed} ELSE {}

EventsInvariant ==
  /\ active = [k \in Keys |-> active[k]] /\ seen = [k \in Keys |-> seen[k]]
  /\ completed \subseteq Event
  /\ observed \in 0 .. MaxFrames /\ rendering \in {"frames", "finally", "over"}
  /\ stopping \in {"no", "set", "joined", "reported"}
  /\ \A k \in Keys : KeyBooks(k, EventsOf(completed, k), active[k], seen[k], observed, Going)
  /\ ReportBooks

-----------------------------------------------------------------------------
\* What a frame may do to the books of a key.
Sampled(current, frames, severity) ==
  [current EXCEPT !.samples = @ \cup {frames + 1}, !.blocked = @ \/ severity = "BLOCKED", !.clear = 0]
First(k, frames, severity) ==
  [key |-> k, samples |-> {frames + 1}, blocked |-> severity = "BLOCKED", clear |-> 0]

\* An event of before is as severe as it was: its samples are of earlier frames.
LEMMA SeverityStays ==
  ASSUME NEW e, NEW frames \in Nat, e.samples \subseteq 1 .. frames, NEW history, NEW severity,
         AsSevere(e, history)
  PROVE  AsSevere(e, history \cup {<<frames + 1, severity>>})
<1>1. \A frame \in e.samples : frame # frames + 1
  OBVIOUS
<1>2. \A frame \in e.samples :
        <<frame, "BLOCKED">> \in history \cup {<<frames + 1, severity>>} <=> <<frame, "BLOCKED">> \in history
  BY <1>1
<1> QED
  BY <1>2 DEF AsSevere

\* One more sample is one more frame.
LEMMA FramesGrow ==
  ASSUME NEW history, NEW frame, NEW severity
  PROVE  /\ FramesOf(history \cup {<<frame, severity>>}) = FramesOf(history) \cup {frame}
         /\ \A s \in history : s[1] \in FramesOf(history)
<1>1. <<frame, severity>>[1] = frame
  OBVIOUS
<1>2. ASSUME NEW x \in FramesOf(history \cup {<<frame, severity>>}) PROVE x \in FramesOf(history) \cup {frame}
  BY <1>1 DEF FramesOf
<1>3. ASSUME NEW x \in FramesOf(history) \cup {frame} PROVE x \in FramesOf(history \cup {<<frame, severity>>})
  BY <1>1 DEF FramesOf
<1>4. \A s \in history : s[1] \in FramesOf(history)
  BY DEF FramesOf
<1> QED
  BY <1>2, <1>3, <1>4

\* A frame with the issue, of a key without an event.
LEMMA KeyOpens ==
  ASSUME NEW k \in Keys, NEW past, NEW history, NEW frames \in Nat, NEW going \in BOOLEAN,
         NEW severity \in Severities, KeyBooks(k, past, NoEvent, history, frames, going)
  PROVE  KeyBooks(k, past, First(k, frames, severity), history \cup {<<frames + 1, severity>>}, frames + 1, going)
<1> DEFINE current == First(k, frames, severity)
           later == history \cup {<<frames + 1, severity>>}
<1>0. ClearAfter \in Nat \ {0}
  BY EventsAssumption
<1>1. /\ current \in Event /\ current.key = k /\ current.samples = {frames + 1} /\ current.clear = 0
      /\ current.blocked = (severity = "BLOCKED") /\ current # NoEvent
  <2>1. current \in Event /\ current.key = k /\ current.samples = {frames + 1} /\ current.clear = 0
        /\ current.blocked = (severity = "BLOCKED")
    BY DEF First, Event
  <2>2. NoEvent.samples = {}
    BY DEF NoEvent
  <2> QED
    BY <2>1, <2>2
<1>2. Ongoing(current) = {current} /\ Ongoing(NoEvent) = {}
  BY <1>1 DEF Ongoing
<1>3. FramesOf(later) = FramesOf(history) \cup {frames + 1}
  BY FramesGrow
<1>4. \A e \in past : e.samples \subseteq 1 .. frames
  BY DEF KeyBooks, Shaped
<1> HIDE DEF current, later
<1>5. Shaped(k, past, current, later, frames + 1)
  <2>1. later \subseteq Nat \X Severities
    BY DEF later, KeyBooks, Shaped
  <2>2. \A e \in past : e.samples \subseteq 1 .. (frames + 1)
    BY <1>4
  <2> QED
    BY <1>0, <1>1, <2>1, <2>2 DEF KeyBooks, Shaped
<1>6. InOneEvent(past, current, later)
  <2>1. NoEvent.samples = {}
    BY DEF NoEvent
  <2>2. \A e \in past : frames + 1 \notin e.samples
    BY <1>4
  <2> QED
    BY <1>1, <1>3, <2>1, <2>2 DEF KeyBooks, InOneEvent
<1>7. \A e \in past \cup Ongoing(current) : AsSevere(e, later) /\ Dense(e.samples)
  <2>1. ASSUME NEW e \in past PROVE AsSevere(e, later) /\ Dense(e.samples)
    <3>1. AsSevere(e, history) /\ Dense(e.samples)
      BY <1>2 DEF KeyBooks
    <3> QED
      BY <1>4, <3>1, SeverityStays DEF later
  <2>2. AsSevere(current, later)
    <3>1. ~(\E s \in history : s[1] = frames + 1)
      <4>1. FramesOf(history) \subseteq 1 .. frames
        BY <1>4 DEF KeyBooks, InOneEvent, SamplesOf, NoEvent
      <4>2. frames + 1 \notin 1 .. frames
        OBVIOUS
      <4> QED
        BY <4>1, <4>2, FramesGrow
    <3>2. <<frames + 1, "BLOCKED">> \in later <=> severity = "BLOCKED"
      BY <3>1 DEF later
    <3> QED
      BY <1>1, <3>2 DEF AsSevere
  <2>3. Dense(current.samples)
    BY <1>1 DEF Dense
  <2> QED
    BY <1>2, <2>1, <2>2, <2>3
<1>8. going => Apart(past, current, frames + 1)
  <2> SUFFICES ASSUME going PROVE Apart(past, current, frames + 1)
    OBVIOUS
  <2>1. Apart(past, NoEvent, frames)
    BY DEF KeyBooks
  <2>2. \A e \in past : \A i \in e.samples : i \in Nat /\ i + ClearAfter <= frames
    BY <1>4, <2>1 DEF Apart
  <2> QED
    BY <1>0, <1>1, <2>1, <2>2 DEF Apart
<1> QED
  BY <1>5, <1>6, <1>7, <1>8 DEF KeyBooks, current, later

\* A frame with the issue, of an event that is going on: at most ClearAfter after
\* its last sample.
LEMMA KeyContinues ==
  ASSUME NEW k \in Keys, NEW past, NEW event, NEW history, NEW frames \in Nat, NEW going \in BOOLEAN,
         NEW severity \in Severities, event # NoEvent,
         KeyBooks(k, past, event, history, frames, going)
  PROVE  KeyBooks(k, past, Sampled(event, frames, severity), history \cup {<<frames + 1, severity>>},
                  frames + 1, going)
<1> DEFINE current == Sampled(event, frames, severity)
           later == history \cup {<<frames + 1, severity>>}
<1>0. ClearAfter \in Nat \ {0}
  BY EventsAssumption
<1>1. /\ event \in Event /\ event.key = k /\ event.clear < ClearAfter /\ event.clear \in Nat
      /\ frames - event.clear \in event.samples /\ event.samples \subseteq 1 .. (frames - event.clear)
      /\ event.samples \subseteq Nat /\ event.blocked \in BOOLEAN
  BY DEF KeyBooks, Shaped, Event
<1>2. /\ current \in Event /\ current.key = k /\ current.samples = event.samples \cup {frames + 1} /\ current.clear = 0
      /\ current.blocked = (event.blocked \/ severity = "BLOCKED") /\ current # NoEvent
  <2>1. current \in Event
    <3>1. /\ (event.samples \cup {frames + 1}) \in SUBSET Nat
          /\ (event.blocked \/ severity = "BLOCKED") \in BOOLEAN
      BY <1>1
    <3> QED
      BY <1>1, <3>1 DEF Sampled, Event
  <2>2. current.key = k /\ current.clear = 0
    BY <1>1 DEF Sampled, Event
  <2>3. current.samples = event.samples \cup {frames + 1}
    BY <1>1 DEF Sampled, Event
  <2>4. current.blocked = (event.blocked \/ severity = "BLOCKED")
    BY <1>1 DEF Sampled, Event
  <2>5. NoEvent.samples = {}
    BY DEF NoEvent
  <2> QED
    BY <2>1, <2>2, <2>3, <2>4, <2>5
<1>3. Ongoing(current) = {current} /\ Ongoing(event) = {event}
  BY <1>2 DEF Ongoing
<1>4. FramesOf(later) = FramesOf(history) \cup {frames + 1}
  BY FramesGrow
<1>5. (\A e \in past : e.samples \subseteq 1 .. frames) /\ event.samples \subseteq 1 .. frames
  BY <1>1 DEF KeyBooks, Shaped
<1> HIDE DEF current, later
<1>6. Shaped(k, past, current, later, frames + 1)
  <2>1. later \subseteq Nat \X Severities
    BY DEF later, KeyBooks, Shaped
  <2>2. \A e \in past : e.samples \subseteq 1 .. (frames + 1)
    BY <1>5
  <2>3. frames + 1 \in current.samples /\ current.samples \subseteq 1 .. (frames + 1)
    BY <1>2, <1>5
  <2> QED
    BY <1>0, <1>2, <2>1, <2>2, <2>3 DEF KeyBooks, Shaped
<1>7. InOneEvent(past, current, later)
  <2>1. \A e \in past : frames + 1 \notin e.samples
    BY <1>5
  <2> QED
    BY <1>2, <1>4, <2>1 DEF KeyBooks, InOneEvent
<1>8. \A e \in past \cup Ongoing(current) : AsSevere(e, later) /\ Dense(e.samples)
  <2>1. \A e \in past \cup {event} : AsSevere(e, history) /\ Dense(e.samples)
    BY <1>3 DEF KeyBooks
  <2>2. \A e \in past \cup {event} : AsSevere(e, later)
    BY <1>5, <2>1, SeverityStays DEF later
  <2>3. AsSevere(current, later)
    <3>1. ~(\E s \in history : s[1] = frames + 1)
      <4>1. FramesOf(history) \subseteq 1 .. frames
        BY <1>5 DEF KeyBooks, InOneEvent, SamplesOf
      <4>2. frames + 1 \notin 1 .. frames
        OBVIOUS
      <4> QED
        BY <4>1, <4>2, FramesGrow
    <3>2. <<frames + 1, "BLOCKED">> \in later <=> severity = "BLOCKED"
      BY <3>1 DEF later
    <3>3. event.blocked = \E frame \in event.samples : <<frame, "BLOCKED">> \in later
      BY <2>2 DEF AsSevere
    <3> QED
      BY <1>2, <3>2, <3>3 DEF AsSevere
  <2>4. Dense(current.samples)
    <3>1. SUFFICES ASSUME NEW i \in current.samples, NEW j \in current.samples, i < j,
                          \A n \in i + 1 .. j - 1 : n \notin current.samples
                   PROVE  j - i <= ClearAfter
      BY DEF Dense
    <3>2. CASE j \in event.samples
      <4>1. i \in event.samples
        BY <1>2, <1>5, <3>1, <3>2
      <4>2. Dense(event.samples)
        BY <2>1
      <4> QED
        BY <1>2, <3>1, <3>2, <4>1, <4>2 DEF Dense
    <3>3. CASE j = frames + 1
      <4> DEFINE last == frames - event.clear
      <4>1. i \in event.samples /\ i <= last /\ last \in Nat /\ i \in Nat /\ last <= frames
        BY <1>1, <1>2, <3>1, <3>3
      <4>2. i = last
        BY <1>1, <1>2, <3>1, <3>3, <4>1
      <4> QED
        BY <1>0, <1>1, <3>3, <4>2
    <3> QED
      BY <1>2, <3>2, <3>3
  <2> QED
    BY <1>3, <2>1, <2>2, <2>3, <2>4
<1>9. going => Apart(past, current, frames + 1)
  <2> SUFFICES ASSUME going PROVE Apart(past, current, frames + 1)
    OBVIOUS
  <2>1. Apart(past, event, frames)
    BY DEF KeyBooks
  <2>2. \A e \in past : \A i \in e.samples : i \in Nat /\ i + ClearAfter <= frames
    BY <1>5, <2>1 DEF Apart
  <2> QED
    BY <1>0, <1>2, <2>1, <2>2 DEF Apart
<1> QED
  BY <1>6, <1>7, <1>8, <1>9 DEF KeyBooks, current, later

\* A frame without the issue, of an event that stays open.
LEMMA KeyQuiet ==
  ASSUME NEW k \in Keys, NEW past, NEW event, NEW history, NEW frames \in Nat, NEW going \in BOOLEAN,
         event # NoEvent, event.clear + 1 < ClearAfter,
         KeyBooks(k, past, event, history, frames, going)
  PROVE  KeyBooks(k, past, [event EXCEPT !.clear = @ + 1], history, frames + 1, going)
<1> DEFINE current == [event EXCEPT !.clear = @ + 1]
<1>0. ClearAfter \in Nat \ {0}
  BY EventsAssumption
<1>1. /\ event \in Event /\ event.key = k /\ event.clear < ClearAfter /\ event.clear \in Nat
      /\ frames - event.clear \in event.samples /\ event.samples \subseteq 1 .. (frames - event.clear)
      /\ event.samples \subseteq Nat /\ event.blocked \in BOOLEAN
  BY DEF KeyBooks, Shaped, Event
<1>2. /\ current \in Event /\ current.key = k /\ current.samples = event.samples /\ current.clear = event.clear + 1
      /\ current.blocked = event.blocked /\ current # NoEvent
  <2>1. current \in Event
    BY <1>1 DEF Event
  <2>2. current.key = k /\ current.samples = event.samples /\ current.blocked = event.blocked
    BY <1>1 DEF Event
  <2>3. current.clear = event.clear + 1
    BY <1>1 DEF Event
  <2>4. NoEvent.samples = {}
    BY DEF NoEvent
  <2> QED
    BY <1>1, <2>1, <2>2, <2>3, <2>4
<1>3. Ongoing(current) = {current} /\ Ongoing(event) = {event}
  BY <1>2 DEF Ongoing
<1> HIDE DEF current
<1>4. Shaped(k, past, current, history, frames + 1)
  <2>1. \A e \in past : e.samples \subseteq 1 .. (frames + 1)
    BY DEF KeyBooks, Shaped
  <2>2. (frames + 1) - current.clear = frames - event.clear
    BY <1>1, <1>2
  <2> QED
    BY <1>1, <1>2, <2>1, <2>2 DEF KeyBooks, Shaped
<1>5. InOneEvent(past, current, history)
  BY <1>2 DEF KeyBooks, InOneEvent
<1>6. \A e \in past \cup Ongoing(current) : AsSevere(e, history) /\ Dense(e.samples)
  BY <1>2, <1>3 DEF KeyBooks, AsSevere
<1>7. going => Apart(past, current, frames + 1)
  <2>1. \A e \in past : \A i \in e.samples : i \in Nat
    BY DEF KeyBooks, Shaped
  <2> QED
    BY <1>0, <1>2, <2>1 DEF KeyBooks, Apart
<1> QED
  BY <1>4, <1>5, <1>6, <1>7 DEF KeyBooks, current

\* A frame that completes the event: its last sample is ClearAfter frames ago.
LEMMA KeyClears ==
  ASSUME NEW k \in Keys, NEW past, NEW event, NEW history, NEW frames \in Nat, NEW going \in BOOLEAN,
         event # NoEvent, event.clear + 1 >= ClearAfter,
         KeyBooks(k, past, event, history, frames, going)
  PROVE  KeyBooks(k, past \cup {event}, NoEvent, history, frames + 1, going)
<1>0. ClearAfter \in Nat \ {0}
  BY EventsAssumption
<1>1. /\ event \in Event /\ event.key = k /\ event.clear < ClearAfter /\ event.clear \in Nat
      /\ frames - event.clear \in event.samples /\ event.samples \subseteq 1 .. (frames - event.clear)
  BY DEF KeyBooks, Shaped, Event
<1>2. NoEvent.samples = {} /\ Ongoing(NoEvent) = {} /\ Ongoing(event) = {event}
  BY DEF NoEvent, Ongoing
<1>3. \A e \in past \cup {event} : e.samples # {} /\ e.samples \subseteq 1 .. frames
  BY <1>1 DEF KeyBooks, Shaped
<1>4. Shaped(k, past \cup {event}, NoEvent, history, frames + 1)
  <2>1. \A e \in past \cup {event} : e.samples \subseteq 1 .. (frames + 1)
    BY <1>3
  <2> QED
    BY <1>1, <1>3, <2>1 DEF KeyBooks, Shaped
<1>5. InOneEvent(past \cup {event}, NoEvent, history)
  <2>1. SamplesOf(past \cup {event}) = SamplesOf(past) \cup event.samples
    BY DEF SamplesOf
  <2> QED
    BY <1>2, <2>1 DEF KeyBooks, InOneEvent
<1>6. going => Apart(past \cup {event}, NoEvent, frames + 1)
  <2> SUFFICES ASSUME going PROVE Apart(past \cup {event}, NoEvent, frames + 1)
    OBVIOUS
  <2>1. Apart(past, event, frames)
    BY DEF KeyBooks
  <2>2. \A i \in event.samples : i \in Nat /\ i + ClearAfter <= frames + 1
    BY <1>0, <1>1
  <2>3. \A e \in past : \A i \in e.samples : i \in Nat /\ i + ClearAfter <= frames + 1
    BY <1>0, <1>3, <2>1 DEF Apart
  <2>4. \A e \in past : \A i \in e.samples : \A j \in event.samples : i + ClearAfter < j /\ ~(j < i)
    BY <1>0, <2>1, <2>2, <2>3 DEF Apart
  <2> QED
    BY <1>2, <2>1, <2>2, <2>3, <2>4 DEF Apart
<1> QED
  BY <1>2, <1>4, <1>5, <1>6 DEF KeyBooks

\* A frame without the issue, of a key without an event.
LEMMA KeyIdle ==
  ASSUME NEW k \in Keys, NEW past, NEW history, NEW frames \in Nat, NEW going \in BOOLEAN,
         KeyBooks(k, past, NoEvent, history, frames, going)
  PROVE  KeyBooks(k, past, NoEvent, history, frames + 1, going)
<1>0. ClearAfter \in Nat \ {0}
  BY EventsAssumption
<1>1. \A e \in past : e.samples \subseteq 1 .. frames /\ e.samples \subseteq 1 .. (frames + 1)
  BY DEF KeyBooks, Shaped
<1>2. Shaped(k, past, NoEvent, history, frames + 1)
  BY <1>1 DEF KeyBooks, Shaped
<1>3. going => Apart(past, NoEvent, frames + 1)
  <2>1. \A e \in past : \A i \in e.samples : i \in Nat
    BY <1>1
  <2> QED
    BY <1>0, <2>1 DEF KeyBooks, Apart
<1> QED
  BY <1>2, <1>3 DEF KeyBooks

\* finalize(): what is going on is completed too.
LEMMA KeyFinalized ==
  ASSUME NEW k \in Keys, NEW past, NEW event, NEW history, NEW frames \in Nat, NEW going \in BOOLEAN,
         KeyBooks(k, past, event, history, frames, going)
  PROVE  KeyBooks(k, past \cup Ongoing(event), NoEvent, history, frames, FALSE)
<1>1. NoEvent.samples = {} /\ Ongoing(NoEvent) = {}
  BY DEF NoEvent, Ongoing
<1>2. CASE event = NoEvent
  BY <1>1, <1>2 DEF KeyBooks
<1>3. CASE event # NoEvent
  <2>1. Ongoing(event) = {event}
    BY <1>3 DEF Ongoing
  <2>2. /\ event \in Event /\ event.key = k /\ event.clear \in Nat
        /\ frames - event.clear \in event.samples /\ event.samples \subseteq 1 .. (frames - event.clear)
    BY <1>3 DEF KeyBooks, Shaped, Event
  <2>3. event.samples \subseteq 1 .. frames
    BY <2>2
  <2>4. Shaped(k, past \cup {event}, NoEvent, history, frames)
    BY <2>2, <2>3 DEF KeyBooks, Shaped
  <2>5. InOneEvent(past \cup {event}, NoEvent, history)
    <3>1. SamplesOf(past \cup {event}) = SamplesOf(past) \cup event.samples
      BY DEF SamplesOf
    <3> QED
      BY <1>1, <3>1 DEF KeyBooks, InOneEvent
  <2> QED
    BY <1>1, <2>1, <2>4, <2>5 DEF KeyBooks
<1> QED
  BY <1>2, <1>3

-----------------------------------------------------------------------------
\* No event is no event with samples.
LEMMA EventsExist ==
  ASSUME EventsInvariant, NEW k \in Keys
  PROVE  /\ NoEvent.samples = {} /\ Ongoing(NoEvent) = {}
         /\ Current(k) => /\ active[k] \in Event /\ active[k].key = k /\ active[k].samples # {}
                          /\ Ongoing(active[k]) = {active[k]}
         /\ ~Current(k) => Ongoing(active[k]) = {}
<1>1. NoEvent.samples = {} /\ Ongoing(NoEvent) = {}
  BY DEF NoEvent, Ongoing
<1>2. Shaped(k, EventsOf(completed, k), active[k], seen[k], observed)
  BY DEF EventsInvariant, KeyBooks
<1>3. Current(k) => /\ active[k] \in Event /\ active[k].key = k /\ active[k].samples # {}
  BY <1>2 DEF Shaped, Current
<1> QED
  BY <1>1, <1>3 DEF Current, Ongoing

\* What finalize() would complete of a key.
LEMMA FinalizedOfKey ==
  ASSUME EventsInvariant, NEW k \in Keys
  PROVE  EventsOf(Finalized, k) = EventsOf(completed, k) \cup Ongoing(active[k])
<1>1. \A j \in Keys : Current(j) => active[j].key = j
  BY EventsExist
<1>2. ASSUME NEW e \in EventsOf(Finalized, k) PROVE e \in EventsOf(completed, k) \cup Ongoing(active[k])
  <2>1. CASE e \in completed
    BY <1>2, <2>1 DEF EventsOf
  <2>2. CASE \E j \in Keys : Current(j) /\ e = active[j]
    BY <1>1, <1>2, <2>2, EventsExist DEF EventsOf
  <2> QED
    BY <1>2, <2>1, <2>2 DEF EventsOf, Finalized
<1>3. ASSUME NEW e \in EventsOf(completed, k) \cup Ongoing(active[k]) PROVE e \in EventsOf(Finalized, k)
  <2>1. CASE e \in EventsOf(completed, k)
    BY <2>1 DEF EventsOf, Finalized
  <2>2. CASE e \in Ongoing(active[k])
    <3>1. Current(k) /\ e = active[k]
      BY <2>2, EventsExist
    <3> QED
      BY <1>1, <3>1 DEF EventsOf, Finalized
  <2> QED
    BY <1>3, <2>1, <2>2
<1> QED
  BY <1>2, <1>3

\* A frame, for one key.
LEMMA ObserveKeepsKey ==
  ASSUME EventsInvariant, NEW issues \in Issues, Observe(issues), NEW k \in Keys
  PROVE  KeyBooks(k, EventsOf(completed', k), active'[k], seen'[k], observed', Going)
<1> DEFINE past == EventsOf(completed, k)
<1>0. observed \in Nat /\ ClearAfter \in Nat \ {0}
  BY EventsAssumption DEF EventsInvariant
<1>1. KeyBooks(k, past, active[k], seen[k], observed, Going) /\ Going \in BOOLEAN
  BY DEF EventsInvariant, Going
<1>2. issues[k] # "none" => issues[k] \in Severities
  BY DEF Issues, Severities
<1>3. seen'[k] = IF issues[k] = "none" THEN seen[k] ELSE seen[k] \cup {<<observed + 1, issues[k]>>}
  BY DEF Observe
<1>4. /\ issues[k] # "none" /\ ~Current(k) => active'[k] = Opened(k, issues[k])
      /\ issues[k] # "none" /\ Current(k) => active'[k] = Continued(active[k], issues[k])
      /\ Clears(k, issues) => active'[k] = NoEvent
      /\ issues[k] = "none" /\ ~Current(k) => active'[k] = NoEvent
      /\ issues[k] = "none" /\ Current(k) /\ ~Clears(k, issues) =>
           active'[k] = [active[k] EXCEPT !.clear = @ + 1]
  <2>1. active'[k] = CASE issues[k] # "none" /\ ~Current(k) -> Opened(k, issues[k])
                       [] issues[k] # "none" /\ Current(k) -> Continued(active[k], issues[k])
                       [] Clears(k, issues) \/ (issues[k] = "none" /\ ~Current(k)) -> NoEvent
                       [] OTHER -> [active[k] EXCEPT !.clear = @ + 1]
    BY DEF Observe
  <2>2. Clears(k, issues) => issues[k] = "none" /\ Current(k)
    BY DEF Clears
  <2>3. issues[k] # "none" /\ ~Current(k) => active'[k] = Opened(k, issues[k])
    BY <2>1, <2>2 DEF Clears, Current
  <2>4. issues[k] # "none" /\ Current(k) => active'[k] = Continued(active[k], issues[k])
    BY <2>1, <2>2 DEF Clears, Current
  <2>5. Clears(k, issues) => active'[k] = NoEvent
    BY <2>1, <2>2 DEF Clears, Current
  <2>6. issues[k] = "none" /\ ~Current(k) => active'[k] = NoEvent
    BY <2>1, <2>2 DEF Clears, Current
  <2>7. issues[k] = "none" /\ Current(k) /\ ~Clears(k, issues) =>
          active'[k] = [active[k] EXCEPT !.clear = @ + 1]
    BY <2>1, <2>2 DEF Clears, Current
  <2> QED
    BY <2>3, <2>4, <2>5, <2>6, <2>7
<1>5. observed' = observed + 1
  BY DEF Observe
<1>6. EventsOf(completed', k) = past \cup (IF Clears(k, issues) THEN {active[k]} ELSE {})
  <2>1. \A j \in Keys : Clears(j, issues) => active[j].key = j
    BY EventsExist DEF Clears
  <2>2. completed' = completed \cup {active[j] : j \in {j \in Keys : Clears(j, issues)}}
    BY DEF Observe
  <2>3. ASSUME NEW e \in EventsOf(completed', k)
        PROVE  e \in past \cup (IF Clears(k, issues) THEN {active[k]} ELSE {})
    BY <2>1, <2>2, <2>3 DEF EventsOf
  <2>4. ASSUME NEW e \in past \cup (IF Clears(k, issues) THEN {active[k]} ELSE {})
        PROVE  e \in EventsOf(completed', k)
    BY <2>1, <2>2, <2>4 DEF EventsOf
  <2> QED
    BY <2>3, <2>4
<1>7. Current(k) => /\ active[k] \in Event /\ active[k].clear \in Nat
  BY EventsExist DEF Event
<1> HIDE DEF past
<1>8. CASE issues[k] # "none" /\ ~Current(k)
  <2>1. active[k] = NoEvent
    BY <1>8 DEF Current
  <2>2. active'[k] = First(k, observed, issues[k])
    <3>1. active'[k] = Opened(k, issues[k])
      BY <1>4, <1>8
    <3> QED
      BY <3>1 DEF Opened, First
  <2>3. EventsOf(completed', k) = past
    BY <1>6, <1>8 DEF Clears
  <2> QED
    BY <1>0, <1>1, <1>2, <1>3, <1>5, <1>8, <2>1, <2>2, <2>3, KeyOpens
<1>9. CASE issues[k] # "none" /\ Current(k)
  <2>1. active[k] # NoEvent
    BY <1>9 DEF Current
  <2>2. active'[k] = Sampled(active[k], observed, issues[k])
    <3>1. active'[k] = Continued(active[k], issues[k])
      BY <1>4, <1>9
    <3> QED
      BY <3>1 DEF Continued, Sampled
  <2>3. EventsOf(completed', k) = past
    BY <1>6, <1>9 DEF Clears
  <2> QED
    BY <1>0, <1>1, <1>2, <1>3, <1>5, <1>9, <2>1, <2>2, <2>3, KeyContinues
<1>10. CASE issues[k] = "none" /\ ~Current(k)
  <2>1. active[k] = NoEvent /\ active'[k] = NoEvent
    BY <1>4, <1>10 DEF Current
  <2>2. EventsOf(completed', k) = past
    BY <1>6, <1>10 DEF Clears
  <2> QED
    BY <1>0, <1>1, <1>3, <1>5, <1>10, <2>1, <2>2, KeyIdle
<1>11. CASE issues[k] = "none" /\ Current(k) /\ active[k].clear + 1 >= ClearAfter
  <2>1. active[k] # NoEvent /\ active'[k] = NoEvent
    BY <1>4, <1>11 DEF Current, Clears
  <2>2. EventsOf(completed', k) = past \cup {active[k]}
    BY <1>6, <1>11 DEF Clears
  <2> QED
    BY <1>0, <1>1, <1>3, <1>5, <1>11, <2>1, <2>2, KeyClears
<1>12. CASE issues[k] = "none" /\ Current(k) /\ ~(active[k].clear + 1 >= ClearAfter)
  <2>1. active[k] # NoEvent /\ active'[k] = [active[k] EXCEPT !.clear = @ + 1]
    BY <1>4, <1>12 DEF Current, Clears
  <2>2. EventsOf(completed', k) = past
    BY <1>6, <1>12 DEF Clears
  <2>3. active[k].clear + 1 < ClearAfter
    BY <1>0, <1>7, <1>12
  <2> QED
    BY <1>0, <1>1, <1>3, <1>5, <1>12, <2>1, <2>2, <2>3, KeyQuiet
<1> QED
  BY <1>8, <1>9, <1>10, <1>11, <1>12

\* The books of a key only weaken when the session ends.
LEMMA KeyEnds ==
  ASSUME NEW k, NEW past, NEW event, NEW history, NEW frames, NEW going, NEW later,
         KeyBooks(k, past, event, history, frames, going), later => going
  PROVE  KeyBooks(k, past, event, history, frames, later)
BY DEF KeyBooks

\* What a completed event is.
LEMMA CompletedAreEvents ==
  ASSUME EventsInvariant, NEW issues \in Issues, Observe(issues)
  PROVE  completed' \subseteq Event
<1>1. \A j \in Keys : Clears(j, issues) => active[j] \in Event
  BY EventsExist DEF Clears
<1> QED
  BY <1>1 DEF Observe, EventsInvariant

\* A frame keeps the books, also the one after the report.
LEMMA FrameKeepsEvents ==
  ASSUME EventsInvariant, FrameObserved
  PROVE  EventsInvariant'
<1>1. PICK issues \in Issues : Observe(issues)
  BY DEF FrameObserved
<1>2. Going' => Going
  BY DEF FrameObserved, Going
<1>3. \A k \in Keys : KeyBooks(k, EventsOf(completed', k), active'[k], seen'[k], observed', Going')
  BY <1>1, <1>2, ObserveKeepsKey, KeyEnds
<1>4. observed' = observed + 1 /\ observed \in Nat /\ observed < MaxFrames
  BY <1>1, EventsAssumption DEF Observe, FrameObserved, EventsInvariant
<1>5. ReportBooks'
  <2>1. rendering = "frames" /\ missed = 0 /\ UNCHANGED <<stopping, report>>
    BY DEF FrameObserved, EventsInvariant, ReportBooks
  <2>2. missed' = IF stopping = "reported" THEN 1 ELSE 0
    BY <2>1 DEF FrameObserved
  <2>3. stopping = "reported" => rendering' = "finally"
    BY DEF FrameObserved
  <2>4. ASSUME stopping = "reported", NEW k \in Keys
        PROVE  SeenFrames(k)' \ SamplesIn(report, k) \subseteq {observed'}
    <3>1. SeenFrames(k) \subseteq SamplesIn(report, k)
      BY <2>1, <2>4 DEF EventsInvariant, ReportBooks
    <3>2. seen'[k] = IF issues[k] = "none" THEN seen[k] ELSE seen[k] \cup {<<observed + 1, issues[k]>>}
      BY <1>1 DEF Observe
    <3>3. SeenFrames(k)' \subseteq SeenFrames(k) \cup {observed + 1}
      <4>1. SeenFrames(k)' = FramesOf(seen'[k]) /\ SeenFrames(k) = FramesOf(seen[k])
        BY DEF SeenFrames, FramesOf
      <4>2. FramesOf(seen[k] \cup {<<observed + 1, issues[k]>>}) = FramesOf(seen[k]) \cup {observed + 1}
        BY FramesGrow
      <4> QED
        BY <3>2, <4>1, <4>2
    <3> QED
      BY <1>4, <3>1, <3>3
  <2>5. \A k \in Keys : SamplesIn(report, k)' = SamplesIn(report, k)
    BY <2>1 DEF SamplesIn, EventsOf
  <2> QED
    BY <2>1, <2>2, <2>3, <2>4, <2>5 DEF ReportBooks
<1>6. active' = [k \in Keys |-> active'[k]] /\ seen' = [k \in Keys |-> seen'[k]]
  BY <1>1 DEF Observe
<1>7. completed' \subseteq Event
  BY <1>1, CompletedAreEvents
<1>8. observed' \in 0 .. MaxFrames
  BY <1>4, EventsAssumption
<1>9. rendering' \in {"frames", "finally", "over"} /\ stopping' \in {"no", "set", "joined", "reported"}
  BY DEF FrameObserved, EventsInvariant
<1> QED
  BY <1>3, <1>5, <1>6, <1>7, <1>8, <1>9 DEF EventsInvariant

\* finalize(), for one key and for all.
LEMMA FinalizesKeepsKeys ==
  ASSUME EventsInvariant, Finalizes, UNCHANGED <<observed, seen>>, ~Going'
  PROVE  /\ active' = [k \in Keys |-> active'[k]] /\ seen' = [k \in Keys |-> seen'[k]]
         /\ completed' \subseteq Event
         /\ \A k \in Keys : KeyBooks(k, EventsOf(completed', k), active'[k], seen'[k], observed', Going')
<1>1. completed' \subseteq Event
  <2>1. \A j \in Keys : Current(j) => active[j] \in Event
    BY EventsExist
  <2> QED
    BY <2>1 DEF Finalizes, Finalized, EventsInvariant
<1>2. ASSUME NEW k \in Keys
      PROVE  KeyBooks(k, EventsOf(completed', k), active'[k], seen'[k], observed', Going')
  <2>1. EventsOf(completed', k) = EventsOf(completed, k) \cup Ongoing(active[k])
    BY FinalizedOfKey DEF Finalizes
  <2>2. active'[k] = NoEvent
    BY DEF Finalizes
  <2>3. KeyBooks(k, EventsOf(completed, k), active[k], seen[k], observed, Going) /\ Going \in BOOLEAN /\ observed \in Nat
    BY EventsAssumption DEF EventsInvariant, Going
  <2>4. KeyBooks(k, EventsOf(completed, k) \cup Ongoing(active[k]), NoEvent, seen[k], observed, FALSE)
    BY <2>3, KeyFinalized
  <2> QED
    BY <2>1, <2>2, <2>4, KeyEnds
<1>3. active' = [k \in Keys |-> active'[k]] /\ seen' = [k \in Keys |-> seen'[k]]
  BY DEF Finalizes, EventsInvariant
<1> QED
  BY <1>1, <1>2, <1>3

\* What the report has of a key is all that was seen.
LEMMA FinalizedIsSeen ==
  ASSUME EventsInvariant, NEW k \in Keys
  PROVE  SamplesIn(Finalized, k) = SeenFrames(k)
<1>1. SamplesIn(Finalized, k) = SamplesOf(EventsOf(completed, k) \cup Ongoing(active[k]))
  BY FinalizedOfKey DEF SamplesIn, SamplesOf
<1>2. FramesOf(seen[k]) = SamplesOf(EventsOf(completed, k)) \cup active[k].samples
  BY DEF EventsInvariant, KeyBooks, InOneEvent
<1>3. CASE Current(k)
  <2>1. Ongoing(active[k]) = {active[k]}
    BY <1>3, EventsExist
  <2>2. SamplesOf(EventsOf(completed, k) \cup {active[k]}) = SamplesOf(EventsOf(completed, k)) \cup active[k].samples
    BY DEF SamplesOf
  <2> QED
    BY <1>1, <1>2, <2>1, <2>2 DEF SeenFrames, FramesOf
<1>4. CASE ~Current(k)
  <2>1. Ongoing(active[k]) = {} /\ active[k].samples = {}
    BY <1>4, EventsExist DEF Current
  <2> QED
    BY <1>1, <1>2, <2>1 DEF SeenFrames, FramesOf
<1> QED
  BY <1>3, <1>4

\* The steps of the two threads that end the session.
LEMMA EndsKeepEvents ==
  ASSUME EventsInvariant, LeavesLoop \/ RenderFinally \/ StopSet \/ StopJoins \/ StopReports
  PROVE  EventsInvariant'
<1>1. CASE LeavesLoop \/ StopSet \/ StopJoins
  <2>1. UNCHANGED <<active, completed, observed, report, seen, missed>>
    BY <1>1 DEF LeavesLoop, StopSet, StopJoins
  <2>2. /\ Going' => Going
        /\ rendering' \in {"frames", "finally", "over"} /\ stopping' \in {"no", "set", "joined", "reported"}
        /\ (stopping' = "reported" <=> stopping = "reported") /\ (rendering' = "frames" => rendering = "frames")
    BY <1>1 DEF LeavesLoop, StopSet, StopJoins, Going, EventsInvariant
  <2>3. \A k \in Keys : KeyBooks(k, EventsOf(completed, k), active[k], seen[k], observed, Going')
    BY <2>2, KeyEnds DEF EventsInvariant
  <2>4. ReportBooks'
    <3>1. \A k \in Keys : SeenFrames(k)' = SeenFrames(k) /\ SamplesIn(report, k)' = SamplesIn(report, k)
      BY <2>1 DEF SeenFrames, SamplesIn, EventsOf
    <3> QED
      BY <2>1, <2>2, <3>1 DEF ReportBooks, EventsInvariant
  <2> HIDE DEF Going
  <2> QED
    BY <2>1, <2>2, <2>3, <2>4 DEF EventsInvariant
<1>2. CASE RenderFinally
  <2>1. Finalizes /\ UNCHANGED <<observed, stopping, report, seen, missed>> /\ rendering' = "over"
    BY <1>2 DEF RenderFinally
  <2>2. ~Going'
    BY <2>1 DEF Going
  <2>3. ReportBooks'
    <3>1. \A k \in Keys : SeenFrames(k)' = SeenFrames(k) /\ SamplesIn(report, k)' = SamplesIn(report, k)
      BY <2>1 DEF SeenFrames, SamplesIn, EventsOf
    <3> QED
      BY <2>1, <3>1 DEF ReportBooks, EventsInvariant
  <2> QED
    BY <2>1, <2>2, <2>3, FinalizesKeepsKeys DEF EventsInvariant
<1>3. CASE StopReports
  <2>1. /\ Finalizes /\ report' = Finalized /\ UNCHANGED <<observed, rendering, seen, missed>>
        /\ stopping = "joined" /\ stopping' = "reported"
    BY <1>3 DEF StopReports
  <2>2. ~Going'
    BY <2>1 DEF Going
  <2>3. ReportBooks'
    <3>1. \A k \in Keys : SeenFrames(k)' = SeenFrames(k) /\ SamplesIn(report, k)' = SamplesIn(Finalized, k)
      BY <2>1 DEF SeenFrames, SamplesIn, EventsOf
    <3>2. \A k \in Keys : SeenFrames(k)' \ SamplesIn(report, k)' = {}
      BY <3>1, FinalizedIsSeen
    <3>3. missed = 0
      BY <2>1 DEF EventsInvariant, ReportBooks
    <3> QED
      BY <2>1, <3>2, <3>3 DEF ReportBooks
  <2> QED
    BY <2>1, <2>2, <2>3, FinalizesKeepsKeys DEF EventsInvariant
<1> QED
  BY <1>1, <1>2, <1>3

\* Before the first frame the books are empty.
LEMMA EventsBegin == EventsInit => EventsInvariant
<1> SUFFICES ASSUME EventsInit PROVE EventsInvariant
  OBVIOUS
<1>1. ASSUME NEW k \in Keys PROVE KeyBooks(k, EventsOf(completed, k), active[k], seen[k], observed, Going)
  <2>1. active[k] = NoEvent /\ seen[k] = {} /\ EventsOf(completed, k) = {} /\ NoEvent.samples = {}
    BY DEF EventsInit, EventsOf, NoEvent
  <2>2. KeyBooks(k, {}, NoEvent, {}, observed, Going)
    BY DEF KeyBooks, Shaped, InOneEvent, Apart, Ongoing, FramesOf, SamplesOf, NoEvent
  <2> QED
    BY <2>1, <2>2
<1>2. ReportBooks
  BY DEF EventsInit, ReportBooks
<1> QED
  BY <1>1, <1>2, EventsAssumption DEF EventsInit, EventsInvariant

\* Every step of the component.
LEMMA EventsStep == ASSUME EventsInvariant, [EventsNext]_eventVars PROVE EventsInvariant'
<1>1. CASE UNCHANGED eventVars
  <2>1. Going' = Going /\ ReportBooks' = ReportBooks
    BY <1>1 DEF eventVars, Going, ReportBooks, SeenFrames, SamplesIn, EventsOf
  <2>2. \A k \in Keys : EventsOf(completed', k) = EventsOf(completed, k)
    BY <1>1 DEF eventVars, EventsOf
  <2> QED
    BY <1>1, <2>1, <2>2 DEF eventVars, EventsInvariant
<1> QED
  BY <1>1, FrameKeepsEvents, EndsKeepEvents DEF EventsNext

\* The books are what the events promise.
LEMMA EventsAreTrue == ASSUME EventsInvariant PROVE EventsSafe /\ EventsTypeOK
<1>1. \A k \in Keys : KeyBooks(k, EventsOf(completed, k), active[k], seen[k], observed, Going)
  BY DEF EventsInvariant
<1>2. \A k \in Keys : EventsOf(Finalized, k) = EventsOf(completed, k) \cup Ongoing(active[k])
  BY FinalizedOfKey
<1>3. observed \in Nat /\ ClearAfter \in Nat \ {0}
  BY EventsAssumption DEF EventsInvariant
<1>4. SamplesKept
  <2>1. ASSUME NEW k \in Keys
        PROVE  /\ \A e, f \in EventsOf(Finalized, k) : e # f => e.samples \cap f.samples = {}
               /\ \A e \in EventsOf(Finalized, k) :
                    e.blocked = \E frame \in e.samples : <<frame, "BLOCKED">> \in seen[k]
    <3>1. InOneEvent(EventsOf(completed, k), active[k], seen[k])
      BY <1>1 DEF KeyBooks
    <3>2. \A e \in Ongoing(active[k]) : e = active[k]
      BY DEF Ongoing
    <3>3. \A e, f \in EventsOf(Finalized, k) : e # f => e.samples \cap f.samples = {}
      BY <1>2, <3>1, <3>2 DEF InOneEvent
    <3>4. \A e \in EventsOf(Finalized, k) : AsSevere(e, seen[k])
      BY <1>1, <1>2 DEF KeyBooks
    <3> QED
      BY <3>3, <3>4 DEF AsSevere
  <2> QED
    BY <2>1, FinalizedIsSeen DEF SamplesKept
<1>5. MergedWithinClear
  <2>1. \A k \in Keys : \A e \in EventsOf(Finalized, k) : Dense(e.samples)
    BY <1>1, <1>2 DEF KeyBooks
  <2> QED
    BY <2>1 DEF MergedWithinClear, Dense
<1>6. SplitByClear
  <2>1. SUFFICES ASSUME Going, NEW k \in Keys, NEW e \in EventsOf(Finalized, k), NEW f \in EventsOf(Finalized, k),
                        e # f, NEW i \in e.samples, NEW j \in f.samples, i < j
                 PROVE  j - i > ClearAfter
    BY DEF SplitByClear, Going
  <2>2. /\ Apart(EventsOf(completed, k), active[k], observed)
        /\ Shaped(k, EventsOf(completed, k), active[k], seen[k], observed)
    BY <1>1, <2>1 DEF KeyBooks
  <2>3. \A x \in Ongoing(active[k]) : x = active[k] /\ Current(k)
    BY DEF Ongoing, Current
  <2>4. \A x \in EventsOf(Finalized, k) : x.samples \subseteq Nat
    <3>1. \A x \in EventsOf(completed, k) : x.samples \subseteq Nat
      BY <2>2 DEF Shaped
    <3>2. Current(k) => active[k].samples \subseteq Nat
      BY EventsExist DEF Event
    <3> QED
      BY <1>2, <2>3, <3>1, <3>2
  <2>5. i \in Nat /\ j \in Nat
    BY <2>4
  <2>6. CASE e \in EventsOf(completed, k)
    <3>1. i + ClearAfter < j
      BY <1>2, <2>1, <2>2, <2>3, <2>6 DEF Apart
    <3> QED
      BY <1>3, <2>5, <3>1
  <2>7. CASE e = active[k]
    <3>1. f \in EventsOf(completed, k)
      BY <1>2, <2>1, <2>3, <2>7
    <3>2. j + ClearAfter < i
      BY <2>2, <2>7, <3>1 DEF Apart
    <3> QED
      BY <1>3, <2>1, <2>5, <3>2
  <2> QED
    BY <1>2, <2>3, <2>6, <2>7
<1>7. ReportLacksOneFrame
  <2>1. ReportBooks
    BY DEF EventsInvariant
  <2>2. missed \in {0, 1}
    BY <2>1 DEF ReportBooks
  <2>3. ASSUME stopping = "reported", NEW k \in Keys
        PROVE  Cardinality(SeenFrames(k) \ SamplesIn(report, k)) <= missed
    <3> DEFINE lacks == SeenFrames(k) \ SamplesIn(report, k)
    <3>1. lacks \subseteq IF missed = 1 THEN {observed} ELSE {}
      BY <2>1, <2>3 DEF ReportBooks
    <3>2. lacks = {} \/ (lacks = {observed} /\ missed = 1)
      BY <2>2, <3>1
    <3>3. Cardinality({}) = 0 /\ Cardinality({observed}) = 1
      BY FS_EmptySet, FS_Singleton
    <3> HIDE DEF lacks
    <3>4. Cardinality(lacks) <= missed
      BY <2>2, <3>2, <3>3
    <3> QED
      BY <3>4 DEF lacks
  <2> QED
    BY <2>2, <2>3 DEF ReportLacksOneFrame
<1>8. EventsTypeOK
  <2>1. ASSUME NEW k \in Keys, Current(k) PROVE active[k].key = k /\ active[k].clear \in 0 .. ClearAfter - 1
    <3>1. active[k] \in Event /\ active[k].key = k /\ active[k].clear < ClearAfter
      BY <1>1, <2>1 DEF KeyBooks, Shaped, Current
    <3>2. active[k].clear \in Nat
      BY <3>1 DEF Event
    <3> QED
      BY <1>3, <3>1, <3>2
  <2> QED
    BY <2>1 DEF EventsTypeOK, EventsInvariant
<1> QED
  BY <1>4, <1>5, <1>6, <1>7, <1>8 DEF EventsSafe

-----------------------------------------------------------------------------
(***************************************************************************)
(* The parts together.                                                     *)
(***************************************************************************)
ObserversInvariant ==
  /\ PollerInvariant /\ ServingInvariant
  /\ CameraInvariant
  /\ ViewerInvariant
  /\ EventsInvariant
  /\ DiagnosisInvariant
  /\ RangesInvariant

\* The parts begin as their invariants say.
LEMMA ObserversBegin == ObserversInit => ObserversInvariant
BY InitEstablishes, ServingBegins, CameraInitialised, ViewerBegins, EventsBegin, DiagnosisBegins, RangesBegin
   DEF ObserversInit, ObserversInvariant

\* A step is one of one part; the others stay as they are.
LEMMA PartsStep ==
  [ObserversNext]_observerVars =>
    /\ [Next]_vars /\ [CameraNext]_camVars /\ [ViewerNext]_viewerVars /\ [EventsNext]_eventVars
    /\ [DiagnosisNext]_diagnosisVars /\ [RangesNext]_rangesVars
BY DEF ObserversNext, observerVars, StatePart, CamerasPart, ViewerPart, EventsPart, JointPart, RangesPart

\* So every part keeps its invariant.
LEMMA ObserversStep == ObserversInvariant /\ [ObserversNext]_observerVars => ObserversInvariant'
BY PartsStep, PollerKept, ServingKept, CameraStepKeeps, ViewerStepKeeps, EventsStep, DiagnosisStep, RangesStep
   DEF ObserversInvariant

\* Every part keeps its invariant in every behaviour.
THEOREM ObserversCorrect == ObserversSpec => []ObserversInvariant
BY ObserversBegin, ObserversStep, PTL DEF ObserversSpec

\* The state of the parts stays in its range: the cache and the request of the state
\* server, the tables of the cameras, the call and the command of the viewer, the
\* counters of its events, the phases and the results of the two scripts.
THEOREM ObserversTyped == ObserversSpec => []ObserversTypeOK
<1>1. ObserversInvariant => /\ TypeOK /\ CameraTypeOK /\ ViewerTypeOK /\ EventsTypeOK
                            /\ DiagnosisTypeOK /\ RangesTypeOK
  BY ViewerTypes, EventsAreTrue, DiagnosesAreTrue, RangesAreTrue
     DEF ObserversInvariant, PollerInvariant, CameraInvariant
<1>2. ObserversInvariant /\ part \in PartNames => ObserversTypeOK
  BY <1>1 DEF ObserversTypeOK, PartNames
<1>3. ObserversInit => part \in PartNames
  BY DEF ObserversInit, PartNames
<1>4. part \in PartNames /\ [ObserversNext]_observerVars => (part \in PartNames)'
  BY DEF ObserversNext, observerVars, StatePart, CamerasPart, ViewerPart, EventsPart, JointPart, RangesPart
<1> QED
  BY <1>2, <1>3, <1>4, ObserversCorrect, PTL DEF ObserversSpec

\* What an answer of the state server says of its two arms, and what an observation
\* of the cameras is made of, is right while the threads go on.
THEOREM ObserversServeTruly == ObserversSpec => [](SkewBounded /\ HealthHonest /\ CamerasCoherent)
<1>1. ObserversInvariant => SkewBounded /\ HealthHonest /\ CamerasCoherent
  BY AnswersTogether, AnswersHonest, ObservationsOwned DEF ObserversInvariant
<1> QED
  BY <1>1, ObserversCorrect, PTL

\* Whatever happens to the servos, the recordings and the threads meanwhile: an
\* event of the log has the frames and the severity that were seen, one event per
\* stretch, and the report lacks one frame at most; a diagnosis of servos that did
\* not change tells the truth of them, and a trip is reported; a range that is kept
\* is of frames that were recorded and has the samples it is trusted for
\* (SafetyEventAggregator, run_single_joint_hardware_test.py,
\* teleop_safe_range_analysis.py).
THEOREM ConclusionsAreTrue == ObserversSpec => []ObservedTruly
<1>1. ObserversInvariant => ObservedTruly
  BY EventsAreTrue, DiagnosesAreTrue, RangesAreTrue DEF ObserversInvariant, ObservedTruly
<1> QED
  BY <1>1, ObserversCorrect, PTL

\* However calls are delayed or fail, servers are replaced and frames are held: what
\* is shown moves only for readings that were recent when a frame took them, if their
\* answers were prompt, and never for an earlier one than before, through the latency
\* queue as well; the simulation of the leader not at all after a violation, the mapped
\* command no further than the rate allows and not out of the range (live_web_viewer.py,
\* remote_state_client.py, follower_safe_mapper.py).
THEOREM ViewerMovesSafely == ObserversSpec => ViewerSafe
<1> DEFINE Recent == Begun /\ command' # command =>
                       followed'.recent /\ followed'.reading >= followed.reading
           Latched == source # "follower-safe" /\ violated => UNCHANGED command
           Gentle == source = "follower-safe" /\ Begun /\ command' # command =>
                       command' - command <= Rate * Elapsed /\ command - command' <= Rate * Elapsed
           Inside == InRange => InRange'
<1>1. ObserversInvariant /\ [ObserversNext]_observerVars => Recent /\ Latched /\ Gentle /\ Inside
  BY PartsStep, CommandSteps DEF ObserversInvariant
<1>2. ObserversInvariant /\ [ObserversNext]_observerVars =>
        [Recent]_viewerVars /\ [Latched]_viewerVars /\ [Gentle]_viewerVars /\ [Inside]_viewerVars
  BY <1>1
<1> HIDE DEF Recent, Latched, Gentle, Inside
<1>3. ObserversSpec =>
        /\ [][Recent]_viewerVars /\ [][Latched]_viewerVars
        /\ [][Gentle]_viewerVars /\ [][Inside]_viewerVars
  BY <1>2, ObserversCorrect, PTL DEF ObserversSpec
<1> QED
  <2>1. ObserversSpec => MovesOnRecentState
    BY <1>3 DEF MovesOnRecentState, Recent
  <2>2. ObserversSpec => NeverMovesAfterViolation
    BY <1>3 DEF NeverMovesAfterViolation, Latched
  <2>3. ObserversSpec => NoJumpAfterHold
    BY <1>3 DEF NoJumpAfterHold, Gentle
  <2>4. ObserversSpec => StaysInRange
    BY <1>3 DEF StaysInRange, Inside
  <2> QED
    BY <2>1, <2>2, <2>3, <2>4 DEF ViewerSafe
=============================================================================
