------------------------------- MODULE Tools -------------------------------
(***************************************************************************)
(* What is used around the runtime, for one run of TLC: the diagnosis over *)
(* the network with its analysis of differences, teleoperation that is     *)
(* measured and teleoperation that is only watched, the recording of       *)
(* episodes, the building of datasets and their replay, the tick log of a  *)
(* session, the judgement of a rollout, the layer before MuJoCo, a step in *)
(* shadow and the comparison of policies.  They share no variable; a       *)
(* behaviour is one of `part`, the others stay as they are at the start.   *)
(***************************************************************************)
EXTENDS RemoteDiagnostic, DifferenceAnalyzer, InstrumentedTeleop, EpisodeRecording,
        TickDiagnostics, PickDropEval, DatasetReplay, RolloutBenchmark, ShadowTeleop,
        DatasetBuild

VARIABLE part

measured == <<diagVars, analyzerVars, teleopVars, recordingVars, tickLogVars, evalVars>>
toolVars == <<part, measured, replayVars, shtVars, rollVars, shadowVars, ctlVars, buildVars>>

SomePolicy == CHOOSE p \in Policies : TRUE
EndsAtOnce == [start |-> 0, max |-> 0, dry |-> FALSE, goOn |-> FALSE,
               stopLimit |-> FALSE, stopNan |-> FALSE, stopContact |-> FALSE]

\* A part that is not the behaviour's begins in one way only.
ToolsInit ==
  /\ part \in {"diagnosis", "differences", "teleop", "recording", "ticks", "rollout",
               "layer", "shadow", "replay", "benchmark", "watching", "datasets"}
  /\ DiagInit /\ (part # "diagnosis" => policy = SomePolicy)
  /\ AnalyzerInit /\ TeleopInit /\ RecordingInit /\ TickLogInit /\ ShadowInit /\ BuildInit
  /\ EvalInit
  /\ part # "rollout" => kinematic[1].grip = "open" /\ kinematic[1].cube = 2 /\ ~physics[1].contact
  /\ CtlInit /\ (part # "layer" => channel = Emptied(FALSE, NoPosition))
  /\ RollInit /\ (part # "benchmark" => joint = Min(Poses))
  /\ ShtInit /\ (part # "watching" => ~guarded)
  /\ ReplayInit /\ (part # "replay" => wanted = EndsAtOnce /\ previous = Min(Targets))

Simulated == <<replayVars, shtVars, rollVars, shadowVars, ctlVars, buildVars>>

DiagnosisPart ==
  /\ part = "diagnosis" /\ DiagNext
  /\ UNCHANGED <<part, analyzerVars, teleopVars, recordingVars, tickLogVars, evalVars, Simulated>>
DifferencesPart ==
  /\ part = "differences" /\ AnalyzerNext
  /\ UNCHANGED <<part, diagVars, teleopVars, recordingVars, tickLogVars, evalVars, Simulated>>
TeleopPart ==
  /\ part = "teleop" /\ TeleopNext
  /\ UNCHANGED <<part, diagVars, analyzerVars, recordingVars, tickLogVars, evalVars, Simulated>>
RecordingPart ==
  /\ part = "recording" /\ RecordingNext
  /\ UNCHANGED <<part, diagVars, analyzerVars, teleopVars, tickLogVars, evalVars, Simulated>>
TicksPart ==
  /\ part = "ticks" /\ TickLogNext
  /\ UNCHANGED <<part, diagVars, analyzerVars, teleopVars, recordingVars, evalVars, Simulated>>
RolloutPart ==
  /\ part = "rollout" /\ EvalNext
  /\ UNCHANGED <<part, diagVars, analyzerVars, teleopVars, recordingVars, tickLogVars, Simulated>>
LayerPart ==
  /\ part = "layer" /\ CtlNext
  /\ UNCHANGED <<part, measured, replayVars, shtVars, rollVars, shadowVars, buildVars>>
ShadowPart ==
  /\ part = "shadow" /\ ShadowNext
  /\ UNCHANGED <<part, measured, replayVars, shtVars, rollVars, ctlVars, buildVars>>
ReplayPart ==
  /\ part = "replay" /\ ReplayNext
  /\ UNCHANGED <<part, measured, shtVars, rollVars, shadowVars, ctlVars, buildVars>>
BenchmarkPart ==
  /\ part = "benchmark" /\ RollNext
  /\ UNCHANGED <<part, measured, replayVars, shtVars, shadowVars, ctlVars, buildVars>>
WatchingPart ==
  /\ part = "watching" /\ ShtNext
  /\ UNCHANGED <<part, measured, replayVars, rollVars, shadowVars, ctlVars, buildVars>>

DatasetsPart ==
  /\ part = "datasets" /\ BuildNext
  /\ UNCHANGED <<part, measured, replayVars, shtVars, rollVars, shadowVars, ctlVars>>

ToolsNext ==
  \/ DiagnosisPart \/ DifferencesPart \/ TeleopPart \/ RecordingPart \/ TicksPart \/ RolloutPart
  \/ LayerPart \/ ShadowPart \/ ReplayPart \/ BenchmarkPart \/ WatchingPart
  \/ DatasetsPart

ToolsSpec == ToolsInit /\ [][ToolsNext]_toolVars

-----------------------------------------------------------------------------
ToolsTypeOK ==
  CASE part = "diagnosis" -> DiagTypeOK
    [] part = "differences" -> AnalyzerTypeOK
    [] part = "teleop" -> TeleopTypeOK
    [] part = "recording" -> RecordingTypeOK
    [] part = "ticks" -> TickLogTypeOK
    [] part = "rollout" -> EvalTypeOK
    [] part = "layer" -> CtlTypeOK
    [] part = "shadow" -> ShadowTypeOK
    [] part = "replay" -> ReplayTypeOK
    [] part = "benchmark" -> RollTypeOK
    [] part = "watching" -> ShtTypeOK
    [] part = "datasets" -> BuildTypeOK

\* A diagnosis over the network says PASS only of a run that followed (DiagnosisSafe),
\* and its analysis names a difference that is there.
Diagnosed ==
  /\ part = "diagnosis" => DiagnosisSafe
  /\ part = "differences" => AnalyzerHonest

\* What was recorded is what happened: data and labels stay in step over discarded
\* takes and crashes, the log has each tick at most once, in order and whole, and the
\* report of a dataset speaks of what is there.
RecordsTrue ==
  /\ part = "recording" => RecordingSafe
  /\ part = "ticks" => TickLogSafe
  /\ part = "datasets" => DatasetsSafe

\* A follower that must not move is not sampled on after it did, and a teleoperation
\* that is measured keeps its limits.
TeleopsSafe ==
  /\ part = "teleop" => TeleopSafe
  /\ part = "watching" => ShadowTeleopSafe

\* What a simulation is said to have shown, it has shown: success of a rollout, PASS of
\* a replay or of a step in shadow, the row of a policy; and commands reach MuJoCo
\* delayed and limited and not otherwise changed.
SimulationsTrue ==
  /\ part = "rollout" => JudgedRightly
  /\ part = "replay" => ReplaySafe
  /\ part = "shadow" => ShadowSafe
  /\ part = "benchmark" => RolloutSafe
  /\ part = "layer" => LayerHonest
=============================================================================
