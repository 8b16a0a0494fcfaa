----------------------------- MODULE Observers -----------------------------
(***************************************************************************)
(* What observes the arms, for one run of TLC: the hardware state server   *)
(* on the laptop, the camera source with several sessions, the viewer on   *)
(* the desktop that follows a state server, the viewer's log of safety     *)
(* events, the diagnosis of a joint from its registers, and the ranges a   *)
(* joint was seen in.  They share no variable; a behaviour is one of       *)
(* `part`, the others stay as they are at the start.                       *)
(***************************************************************************)
EXTENDS StatePoller, CameraSource, RemoteViewer, SafetyEvents, JointDiagnosis, SafeRanges

VARIABLE part

\* Two recordings: one that sweeps the joint, one that holds it and misses a frame.
SomeAngle(recording, i) ==
  CASE recording = "sweep" -> 4 * (i - 1) + i \div 2
    [] recording = "hold" /\ i = 2 -> NotFinite
    [] OTHER -> (3 + i) \div 2

PartNames == {"state", "cameras", "viewer", "events", "joint", "ranges"}

observerVars == <<part, vars, camVars, viewerVars, eventVars, diagnosisVars, rangesVars>>

ObserversInit ==
  /\ part \in PartNames
  /\ Init /\ CameraInit /\ ViewerInit /\ EventsInit /\ DiagnosisInit /\ RangesInit
  /\ part # "viewer" => source = "raw-leader"
  /\ part # "joint" =>
       /\ diag.mode = "dry-run" /\ diag.direction = "positive" /\ diag.steps = 1 /\ diag.override = "none"
       /\ Wrist = AtRest
  /\ part # "ranges" => search.angles = <<LimitLow>>

StatePart ==
  part = "state" /\ Next /\ UNCHANGED <<part, camVars, viewerVars, eventVars, diagnosisVars, rangesVars>>
CamerasPart ==
  part = "cameras" /\ CameraNext /\ UNCHANGED <<part, vars, viewerVars, eventVars, diagnosisVars, rangesVars>>
ViewerPart ==
  part = "viewer" /\ ViewerNext /\ UNCHANGED <<part, vars, camVars, eventVars, diagnosisVars, rangesVars>>
EventsPart ==
  part = "events" /\ EventsNext /\ UNCHANGED <<part, vars, camVars, viewerVars, diagnosisVars, rangesVars>>
JointPart ==
  part = "joint" /\ DiagnosisNext /\ UNCHANGED <<part, vars, camVars, viewerVars, eventVars, rangesVars>>
RangesPart ==
  part = "ranges" /\ RangesNext /\ UNCHANGED <<part, vars, camVars, viewerVars, eventVars, diagnosisVars>>

ObserversNext == StatePart \/ CamerasPart \/ ViewerPart \/ EventsPart \/ JointPart \/ RangesPart

ObserversSpec == ObserversInit /\ [][ObserversNext]_observerVars

-----------------------------------------------------------------------------
ObserversTypeOK ==
  CASE part = "state" -> TypeOK
    [] part = "cameras" -> CameraTypeOK
    [] part = "viewer" -> ViewerTypeOK
    [] part = "events" -> EventsTypeOK
    [] part = "joint" -> DiagnosisTypeOK
    [] part = "ranges" -> RangesTypeOK

\* What is concluded from what was observed: an event of the viewer's log speaks of
\* a violation that was there, a diagnosis of servos as they are, a range of frames
\* that were recorded.
ObservedTruly ==
  /\ part = "events" => EventsSafe
  /\ part = "joint" => DiagnosesTrue
  /\ part = "ranges" => RangesTrue
=============================================================================
