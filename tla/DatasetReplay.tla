--------------------------- MODULE DatasetReplay ---------------------------
(***************************************************************************)
(* A recorded episode played back in MuJoCo (dataset_action_replay.py,     *)
(* safety_checks.py): the checks before, the checks of every frame before  *)
(* and after the physics, what stops the replay and what its report says.  *)
(* Joints are checked one like the other, so a target is one angle.  The   *)
(* actions of the episode are chosen as they are played, true to what the  *)
(* checks before have seen of them.                                         *)
(***************************************************************************)
EXTENDS Integers, FiniteSets

CONSTANTS
  EpisodeLength,   \* frames of the recorded episode
  Targets,         \* angles of actions and of the state recorded with the first
  RangeLo, RangeHi, \* the joint's and the actuator's range
  Tolerance,       \* joint_limit_tolerance_rad
  FrameDelta       \* max_joint_delta_per_frame

ASSUME ReplayAssumption ==
  /\ EpisodeLength \in Nat \ {0} /\ Targets \subseteq Int
  /\ {RangeLo, RangeHi, FrameDelta} \subseteq Int /\ Tolerance \in Nat

VARIABLES
  wanted,     \* the arguments and the configuration
  replayAt,  \* how far the replay is
  toPlay,      \* frames to play
  over,      \* the prescan saw an action out of range
  frame,     \* processed_frames
  previous,  \* previous_target_rad
  ctrl,      \* what the actuators were last given
  kinds,      \* kinds of events recorded
  warnings,  \* frames played with a warning
  jumped,    \* history: the actuators were given a jump
  replayed   \* final_result and the exit code

replayVars == <<wanted, replayAt, toPlay, over, frame, previous, ctrl, kinds, warnings, jumped,
                replayed>>

Everything == EpisodeLength + 1   \* no --max-frames

ReplayInit ==
  /\ wanted \in [start : {0, 1, EpisodeLength + 1}, max : {0, 1, Everything}, dry : BOOLEAN,
                goOn : BOOLEAN, stopLimit : BOOLEAN, stopNan : BOOLEAN, stopContact : BOOLEAN]
  /\ replayAt = "load" /\ toPlay = 0 /\ over = FALSE /\ frame = 0
  /\ previous \in Targets /\ ctrl = previous
  /\ kinds = {} /\ warnings = 0 /\ jumped = FALSE /\ replayed = [result |-> "none", exit |-> 0]

Ends(result, exit) ==
  replayAt' = "done" /\ replayed' = [result |-> result, exit |-> exit]

\* Configuration and dataset end with 2, the mapping and the model with 1; otherwise
\* the frames asked for are cut out.
Load ==
  /\ replayAt = "load"
  /\ \/ \E exit \in {1, 2} : Ends("BLOCKED", exit) /\ UNCHANGED toPlay
     \/ /\ toPlay' = (IF wanted.max = Everything \/ wanted.start + wanted.max > EpisodeLength
                    THEN EpisodeLength ELSE wanted.start + wanted.max) - wanted.start
        /\ replayAt' = "static" /\ UNCHANGED replayed
  /\ UNCHANGED <<wanted, over, frame, previous, ctrl, kinds, warnings, jumped>>

\* _build_report(): what was downgraded is not among the warnings, unless it is a
\* contact.
FinalResult(blocked, warned, found) ==
  IF blocked THEN "BLOCKED"
  ELSE IF warned \/ found \intersect {"prescan", "delta", "velocity", "contact"} # {} THEN "WARN"
  ELSE "PASS"

ExitOf(result) == IF result = "BLOCKED" THEN 1 ELSE 0

Reports(blocked, warned, found) ==
  LET result == FinalResult(blocked, warned, found) IN Ends(result, ExitOf(result))

\* The frame indices of the cut must begin with 0: a start frame after the first is
\* never played.  An episode may be damaged (NaN, order of time).
StaticChecks ==
  /\ replayAt = "static"
  /\ \E sound \in BOOLEAN, out \in BOOLEAN :
       /\ over' = (sound /\ out)
       /\ kinds' = IF sound /\ out THEN {"prescan"} ELSE {}
       /\ IF toPlay <= 0 \/ wanted.start > 0 \/ ~sound THEN Reports(TRUE, FALSE, kinds')
          ELSE IF wanted.dry THEN Reports(FALSE, FALSE, kinds')
          ELSE replayAt' = "frames" /\ UNCHANGED replayed
  /\ UNCHANGED <<wanted, toPlay, frame, previous, ctrl, warnings, jumped>>

BeyondRange(t) == t < RangeLo \/ t > RangeHi
BeyondLimit(t) == t < RangeLo - Tolerance \/ t > RangeHi + Tolerance
Jump(a, b) == IF a > b THEN a - b ELSE b - a

\* What the prescan saw comes at the latest with the last frame.
NextTarget(t) ==
  IF ~over THEN ~BeyondRange(t)
  ELSE frame + 1 < toPlay \/ "tolerated" \in kinds \/ BeyondRange(t)

\* Compared with where the replay began instead of the frame before.
TargetEventsFromStart(t) ==
  (IF BeyondLimit(t) THEN {"limit"} ELSE {}) \union
  (IF frame = 0 /\ Jump(t, previous) > FrameDelta THEN {"delta"} ELSE {})

\* check_frame_targets(), to which a rejected target is the previous one as well.
TargetEvents(t) ==
  (IF BeyondLimit(t) THEN {"limit"} ELSE {}) \union
  (IF Jump(t, previous) > FrameDelta THEN {"delta"} ELSE {})

\* check_simulation_state(): after a NaN nothing else is looked at.
SimulationEvents ==
  {{"nan"}} \union
  {e \in SUBSET {"velocity", "diverged", "contact", "spike"} : "spike" \in e => "contact" \in e}

\* The flags of the configuration are not asked for a NaN.
BlockingUnlessNan(found) ==
  \/ "limit" \in found /\ wanted.stopLimit
  \/ "diverged" \in found /\ wanted.stopNan
  \/ "spike" \in found /\ wanted.stopContact

\* filter_active_blocking(); a spike is a warning from the start when it does not stop.
Blocking(found) ==
  \/ "limit" \in found /\ wanted.stopLimit
  \/ found \intersect {"nan", "diverged"} # {} /\ wanted.stopNan
  \/ "spike" \in found /\ wanted.stopContact

Noted(t) == IF BeyondRange(t) THEN {"tolerated"} ELSE {}

RejectTarget ==
  /\ replayAt = "frames" /\ frame < toPlay
  /\ \E t \in Targets :
       /\ NextTarget(t) /\ Blocking(TargetEvents(t))
       /\ previous' = t /\ kinds' = kinds \union TargetEvents(t) \union Noted(t)
  /\ Reports(TRUE, FALSE, kinds')
  /\ UNCHANGED <<wanted, toPlay, over, frame, ctrl, warnings, jumped>>

\* The target reaches the actuators, the physics runs, its state is checked.
PlayFrame ==
  /\ replayAt = "frames" /\ frame < toPlay
  /\ \E t \in Targets, after \in SimulationEvents :
       LET found == TargetEvents(t) \union after
       IN  /\ NextTarget(t) /\ ~Blocking(TargetEvents(t))
           /\ previous' = t /\ ctrl' = t /\ frame' = frame + 1
           /\ kinds' = kinds \union found \union Noted(t)
           /\ jumped' = (jumped \/ Jump(t, ctrl) > FrameDelta)
           /\ warnings' = IF found = {} THEN warnings ELSE warnings + 1
           /\ IF Blocking(after) THEN Reports(TRUE, FALSE, kinds')
              ELSE IF found # {} /\ ~wanted.goOn THEN Reports(FALSE, TRUE, kinds')
              ELSE IF frame' = toPlay THEN Reports(FALSE, FALSE, kinds')
              ELSE UNCHANGED <<replayAt, replayed>>
  /\ UNCHANGED <<wanted, toPlay, over>>

\* Without a display a replay that is to be seen does not run.
ViewerFails ==
  /\ replayAt = "frames" /\ frame = 0 /\ Ends("BLOCKED", 1)
  /\ UNCHANGED <<wanted, toPlay, over, frame, previous, ctrl, kinds, warnings, jumped>>

ReplayNext == Load \/ StaticChecks \/ RejectTarget \/ PlayFrame \/ ViewerFails
ReplaySpec == ReplayInit /\ [][ReplayNext]_replayVars

-----------------------------------------------------------------------------
(* The types of the replay's state.                                        *)
ReplayTypeOK ==
  /\ replayAt \in {"load", "static", "frames", "done"} /\ over \in BOOLEAN
  /\ frame \in 0 .. EpisodeLength /\ warnings \in 0 .. frame
  /\ {previous, ctrl} \subseteq Targets
  /\ replayed.result \in {"none", "PASS", "WARN", "BLOCKED"} /\ replayed.exit \in 0 .. 2

\* The frame that is refused is never given to the actuators, and jumps are measured
\* from what they were last given.
ActuatorsAreGuarded ==
  /\ wanted.stopLimit /\ frame > 0 => ~BeyondLimit(ctrl)
  /\ replayed.result # "BLOCKED" => previous = ctrl
  /\ ~wanted.goOn => warnings <= 1

\* PASS: every frame was played and none had anything to say, except for a
\* divergence that was configured not to count.
ReplayPassMeans ==
  /\ replayed.result = "PASS" =>
       /\ wanted.dry \/ frame = toPlay
       /\ kinds \subseteq {"nan", "diverged"}
       /\ ~jumped
       /\ kinds # {} => ~wanted.stopNan /\ wanted.goOn
  /\ replayed.exit = 0 /\ replayAt = "done" => replayed.result \in {"PASS", "WARN"}
  /\ replayed.result = "WARN" => kinds # {}

ReplaySafe == ActuatorsAreGuarded /\ ReplayPassMeans
=============================================================================
