----------------------------- MODULE ShadowMode -----------------------------
(***************************************************************************)
(* One step in shadow (run_shadow_mode.py, shadow_mode_runner.py): what    *)
(* the cameras and the follower show goes to the policy, its answer        *)
(* through the adapter and the safety gate to MuJoCo behind the realistic  *)
(* layer, and a verdict is given.  The follower is only read.              *)
(***************************************************************************)
EXTENDS RealisticControl

CONSTANTS
  ShadowJoints, Wrist, Gripper,
  Lo, Hi,               \* joint_range_deg
  MaxStep,              \* max_step_deg
  GrossRange, GrossStep, \* GROSS_RANGE_MULTIPLIER, GROSS_STEP_MULTIPLIER
  Shut, Tiny,           \* the gripper's nought, GRIPPER_TINY_NEGATIVE_EPSILON
  States, Answers       \* angles the follower reports, angles the policy asks for

ASSUME ShadowAssumption ==
  {Lo, Hi, MaxStep, GrossRange, GrossStep, Shut, Tiny} \subseteq Int /\ Lo < Hi /\ MaxStep >= 0
  /\ States \union Answers \subseteq Int /\ Gripper \in ShadowJoints

VARIABLES
  shadowAt,    \* how far the run is
  opened,        \* what is open: "camera", "reader", "client"
  sight,       \* what was observed: cameras, state, and whether it was stale
  here,        \* the follower's state
  raw,         \* the policy's action
  decision,    \* the gate's, with the safe action
  told,        \* what action_ack said to the server, if it arrived
  commanded,   \* what the layer made of the safe action
  simulated,     \* what MuJoCo came to
  verdict,     \* the report's result
  exitCode

shadowVars ==
  <<shadowAt, opened, sight, here, raw, decision, told, commanded, simulated, verdict, exitCode>>

Unseen == [workspace |-> FALSE, wrist |-> FALSE, state |-> FALSE, stale |-> FALSE]
Undecided == [kind |-> "none", safe |-> <<>>]
Unran == [finite |-> FALSE, inRange |-> FALSE, calm |-> FALSE]

ShadowInit ==
  /\ shadowAt = "camera" /\ opened = {} /\ sight = Unseen /\ here = <<>> /\ raw = <<>>
  /\ decision = Undecided /\ told = "nothing" /\ commanded = <<>> /\ simulated = Unran
  /\ verdict = "none" /\ exitCode = "none"

-----------------------------------------------------------------------------
(* main(): everything is opened before the run and closed after it.        *)

\* The name is bound before open() or connect() is called: what fails to open is
\* closed all the same.  A client comes with its constructor or not at all.
Opens(at, what, next) ==
  /\ shadowAt = at
  /\ \E works \in BOOLEAN :
       /\ opened' = IF works \/ what # "client" THEN opened \union {what} ELSE opened
       /\ shadowAt' = IF works THEN next ELSE "closing"
       /\ exitCode' = IF works THEN exitCode ELSE "preflight"
  /\ UNCHANGED <<sight, here, raw, decision, told, commanded, simulated, verdict>>

OpenCamera == Opens("camera", "camera", "reader")
ConnectReader == Opens("reader", "reader", "client")
MakeClient == Opens("client", "client", "preflight")

\* The ranges of the gate, and the model and profile of MuJoCo.
Preflight ==
  /\ shadowAt = "preflight"
  /\ \E works \in BOOLEAN :
       /\ shadowAt' = IF works THEN "observe" ELSE "closing"
       /\ exitCode' = IF works THEN exitCode ELSE "preflight"
  /\ UNCHANGED <<opened, sight, here, raw, decision, told, commanded, simulated, verdict>>

\* disconnect() comes first; if it raises, what is after it stays open.
CloseAll ==
  /\ shadowAt = "closing" /\ shadowAt' = "over"
  /\ \/ opened' = {} /\ UNCHANGED exitCode
     \/ "reader" \in opened /\ opened' = opened \ {"reader"} /\ exitCode' = "raised"
  /\ UNCHANGED <<sight, here, raw, decision, told, commanded, simulated, verdict>>

-----------------------------------------------------------------------------
(* run_once().                                                             *)

\* The report is written and the run is over; it may fail to be written.
Concluded(result) ==
  /\ shadowAt' = "closing"
  /\ \/ /\ verdict' = result
        /\ exitCode' = IF result = "SHADOW_FAIL" THEN "failed" ELSE "passed"
     \/ verdict' = "none" /\ exitCode' = "raised"

Goes(next) == shadowAt' = next /\ UNCHANGED <<verdict, exitCode>>

\* A capture that fails leaves no frame; the state's age is looked at here only.
Observe ==
  /\ shadowAt = "observe"
  /\ \E seen \in [workspace : BOOLEAN, wrist : BOOLEAN, state : BOOLEAN, stale : BOOLEAN] :
       /\ sight' = seen
       /\ IF seen.workspace /\ seen.wrist /\ seen.state
          THEN here' \in [ShadowJoints -> States] /\ Goes("health")
          ELSE UNCHANGED here /\ Concluded("SHADOW_FAIL")
  /\ UNCHANGED <<opened, raw, decision, told, commanded, simulated>>

\* check_health(), session_reset() whose failure is noted only, predict().
AskPolicy ==
  /\ shadowAt = "health"
  /\ \/ raw' \in [ShadowJoints -> Answers] /\ Goes("gate")
     \/ UNCHANGED raw /\ Concluded("SHADOW_FAIL")
  /\ UNCHANGED <<opened, sight, here, decision, told, commanded, simulated>>

\* adapt_vla_action(): a gripper a little below nought is shut.
Adapted(action) ==
  [j \in DOMAIN action |->
     IF j = Gripper /\ Shut - Tiny <= action[j] /\ action[j] < Shut THEN Shut ELSE action[j]]

Clamped(value, low, high) == Min({high, Max({value, low})})

\* The step is looked at before the range: a clamped step may be cut again.
JointSafetySwapped(value, now) ==
  LET span == (Hi - Lo) * GrossRange
      stepped == Clamped(value, now - MaxStep, now + MaxStep)
  IN  [rejected |-> value < Lo - span \/ value > Hi + span \/ Distance(value, now) > MaxStep * GrossStep,
       safe |-> stepped]

\* The range first, then the step from where the joint is.
JointSafety(value, now) ==
  LET span == (Hi - Lo) * GrossRange
      inRange == Clamped(value, Lo, Hi)
  IN  [rejected |-> \/ value < Lo - span \/ value > Hi + span
                    \/ Distance(inRange, now) > MaxStep * GrossStep,
       safe |-> Clamped(inRange, now - MaxStep, now + MaxStep)]

\* evaluate(): one joint that is rejected rejects the action.
Decided(action, now, stale) ==
  LET reports == [j \in ShadowJoints |-> JointSafety(action[j], now[j])]
      safe == [j \in ShadowJoints |-> reports[j].safe]
  IN  IF stale \/ \E j \in ShadowJoints : reports[j].rejected
      THEN [kind |-> "REJECT", safe |-> <<>>]
      ELSE [kind |-> IF safe = action THEN "ACCEPT" ELSE "WOULD_CLAMP", safe |-> safe]

\* The server hears that the action was executed before it is.
PassGate ==
  /\ shadowAt = "gate"
  /\ decision' = Decided(Adapted(raw), here, sight.stale)
  /\ told' \in {"nothing", IF decision'.kind = "REJECT" THEN "not executed" ELSE "executed"}
  /\ IF decision'.kind = "REJECT" THEN Concluded("SHADOW_FAIL") ELSE Goes("mujoco")
  /\ UNCHANGED <<opened, sight, here, raw, commanded, simulated>>

\* sync_initial_state() empties the layer at the follower's state and the action is
\* processed once, at one time.
Commanded(safe, now) ==
  [j \in ShadowJoints |-> Processed(Emptied(j = Wrist, now[j]), safe[j], 0, now[j]).out]

ExecuteInMuJoCo ==
  /\ shadowAt = "mujoco"
  /\ \/ /\ commanded' = Commanded(decision.safe, here)
        /\ simulated' \in [finite : BOOLEAN, inRange : BOOLEAN, calm : BOOLEAN]
        /\ Goes("validate")
     \/ UNCHANGED <<commanded, simulated>> /\ Concluded("SHADOW_FAIL")
  /\ UNCHANGED <<opened, sight, here, raw, decision, told>>

\* validate_mujoco_step(): rate limits, errors and directions are warnings.
Validate ==
  /\ shadowAt = "validate"
  /\ Concluded(IF ~(simulated.finite /\ simulated.inRange /\ simulated.calm) THEN "SHADOW_FAIL"
               ELSE IF decision.kind = "WOULD_CLAMP" THEN "SHADOW_PASS_WITH_CLAMP"
               ELSE "SHADOW_PASS")
  /\ UNCHANGED <<opened, sight, here, raw, decision, told, commanded, simulated>>

ShadowNext ==
  \/ OpenCamera \/ ConnectReader \/ MakeClient \/ Preflight
  \/ Observe \/ AskPolicy \/ PassGate \/ ExecuteInMuJoCo \/ Validate \/ CloseAll

\* The layer's own behaviour (CtlNext) is another part: here it is used in a step.
ShadowSpec == ShadowInit /\ CtlInit /\ [][ShadowNext /\ UNCHANGED ctlVars]_<<shadowVars, ctlVars>>

-----------------------------------------------------------------------------
(* The types of the run's state: phases, what is open, and results.        *)
ShadowTypeOK ==
  /\ shadowAt \in {"camera", "reader", "client", "preflight", "observe", "health", "gate",
                   "mujoco", "validate", "closing", "over"}
  /\ opened \subseteq {"camera", "reader", "client"}
  /\ decision.kind \in {"none", "ACCEPT", "WOULD_CLAMP", "REJECT"}
  /\ told \in {"nothing", "executed", "not executed"}
  /\ verdict \in {"none", "SHADOW_FAIL", "SHADOW_PASS", "SHADOW_PASS_WITH_CLAMP"}
  /\ exitCode \in {"none", "passed", "failed", "preflight", "raised"}

Passed == {"SHADOW_PASS", "SHADOW_PASS_WITH_CLAMP"}

\* A verdict of PASS has every earlier stage behind it: whole and fresh when it was
\* observed, through the gate, and never acknowledged as not executed; and the exit
\* code says the same unless closing raised.
PassIsEarned ==
  /\ verdict \in Passed =>
       /\ sight.workspace /\ sight.wrist /\ sight.state /\ ~sight.stale
       /\ decision.kind # "REJECT" /\ told # "not executed" /\ commanded # <<>>
       /\ simulated.finite /\ simulated.inRange /\ simulated.calm
       /\ verdict = "SHADOW_PASS" <=> decision.safe = Adapted(raw)
  /\ exitCode = "passed" => verdict \in Passed
  /\ told = "executed" => decision.kind \in {"ACCEPT", "WOULD_CLAMP"}

\* What the gate lets through is a step from where the joint is, never leaves the range
\* for a joint that is in it, and is on the side of the joint the policy asked for.
SafeIsWithinReach ==
  decision.kind \in {"ACCEPT", "WOULD_CLAMP"} =>
    \A j \in ShadowJoints :
      LET safe == decision.safe[j]
          asked == Adapted(raw)[j]
      IN  /\ Distance(safe, here[j]) <= MaxStep
          /\ here[j] \in Lo .. Hi => /\ safe \in Lo .. Hi
                                     /\ (safe - here[j]) * (asked - here[j]) >= 0

\* However it ends, all that was opened is closed, unless disconnect() raised.
ShadowCleansUp ==
  shadowAt = "over" => opened = {} \/ exitCode = "raised"

ShadowSafe == PassIsEarned /\ SafeIsWithinReach /\ ShadowCleansUp

\* An action that passes and asks for movement is commanded to MuJoCo
\* (mujoco_shadow_backend.py:1, "safe_action -> ... -> MuJoCo executor").
ActionIsExecuted ==
  verdict \in Passed => (decision.safe # here => commanded # here)
=============================================================================
