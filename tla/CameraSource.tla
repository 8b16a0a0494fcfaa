---------------------------- MODULE CameraSource ----------------------------
(***************************************************************************)
(* RealCameraObservationSource (runtime/laptop/camera_source.py): a thread *)
(* per camera keeps the latest frame only, the inference thread takes one  *)
(* frame of every camera, and the main thread opens and closes.  A frame   *)
(* is known by the session (the call of open) whose capture delivered it.  *)
(*                                                                         *)
(* A read of a camera takes as long as it likes, so that the second that   *)
(* close() waits for a thread may be over first, and the thread lives on.  *)
(***************************************************************************)
EXTENDS Naturals, FiniteSets

CONSTANTS
  Cameras,
  MaxSessions     \* bound: calls of open()

ASSUME CameraAssumption == IsFiniteSet(Cameras) /\ MaxSessions \in Nat

VARIABLES
  camMain,        \* where the owner is: "closed", "clearing", "waiting", "open", "giveUp", "joining"
  session,        \* calls of open() so far
  captures,       \* the keys of _captures
  latest,         \* _latest: the session of each camera's frame, or NoFrame
  errors,         \* _errors
  camStop,        \* _stop_event
  capture,        \* the capture thread of each session and camera
  released,       \* sessions whose captures were released
  consumer,       \* capture_all(): where it is and what it returned
  late            \* history: frames a thread published after its capture was released

camVars == <<camMain, session, captures, latest, errors, camStop, capture, released, consumer, late>>

NoFrame == 0
CaptureThreads == (1 .. MaxSessions) \X Cameras
Running(t) == capture[t] # "none"

CameraInit ==
  /\ camMain = "closed" /\ session = 0 /\ captures = {}
  /\ latest = [c \in Cameras |-> NoFrame] /\ errors = {}
  /\ camStop = FALSE
  /\ capture = [t \in CaptureThreads |-> "none"]
  /\ released = {}
  /\ consumer = [at |-> "idle", frames |-> {}]
  /\ late = [t \in CaptureThreads |-> 0]

-----------------------------------------------------------------------------
(***************************************************************************)
(* The owner.                                                              *)
(***************************************************************************)
OpenBegins ==
  /\ camMain = "closed" /\ session < MaxSessions
  /\ camMain' = "clearing"
  /\ session' = session + 1
  /\ camStop' = FALSE
  /\ UNCHANGED <<captures, latest, errors, capture, released, consumer, late>>

\* The tables are cleared and the cameras opened one by one; the threads are
\* started once all are open.
OpenStartsThreads ==
  /\ camMain = "clearing"
  /\ latest' = [c \in Cameras |-> NoFrame] /\ errors' = {}
  /\ \/ /\ camMain' = "waiting"
        /\ captures' = Cameras
        /\ capture' = [t \in CaptureThreads |-> IF t[1] = session THEN "loop" ELSE capture[t]]
     \/ /\ camMain' = "giveUp"
        /\ captures' \in (SUBSET Cameras) \ {Cameras}
        /\ UNCHANGED capture
  /\ UNCHANGED <<session, camStop, released, consumer, late>>

Complete == \A c \in captures : latest[c] # NoFrame

OpenReturns ==
  /\ camMain = "waiting" /\ Complete /\ errors = {}
  /\ camMain' = "open"
  /\ UNCHANGED <<session, captures, latest, errors, camStop, capture, released, consumer, late>>

\* Mutant of OpenGivesUp: only an error ends the wait.
OpenWaitsForError ==
  /\ camMain = "waiting" /\ errors # {}
  /\ camMain' = "giveUp"
  /\ UNCHANGED <<session, captures, latest, errors, camStop, capture, released, consumer, late>>

\* A camera has failed, or the three seconds are over: open() closes and raises.
OpenGivesUp ==
  /\ camMain = "waiting" /\ (~Complete \/ errors # {})
  /\ camMain' = "giveUp"
  /\ UNCHANGED <<session, captures, latest, errors, camStop, capture, released, consumer, late>>

CloseBegins ==
  /\ camMain \in {"open", "giveUp"}
  /\ camMain' = "joining"
  /\ camStop' = TRUE
  /\ released' = released \cup {session}
  /\ UNCHANGED <<session, captures, latest, errors, capture, consumer, late>>

\* Mutant of CloseEnds: the joins have no timeout.
CloseEndsJoined ==
  /\ camMain = "joining" /\ \A c \in Cameras : ~Running(<<session, c>>)
  /\ camMain' = "closed"
  /\ captures' = {} /\ latest' = [c \in Cameras |-> NoFrame] /\ errors' = {}
  /\ UNCHANGED <<session, camStop, capture, released, consumer, late>>

\* Mutants of CloseEnds: the frames, or the captures, stay.
CloseEndsKeepingFrames ==
  /\ camMain = "joining"
  /\ camMain' = "closed"
  /\ captures' = {} /\ errors' = {}
  /\ UNCHANGED <<session, latest, camStop, capture, released, consumer, late>>

CloseEndsKeepingCaptures ==
  /\ camMain = "joining"
  /\ camMain' = "closed"
  /\ latest' = [c \in Cameras |-> NoFrame] /\ errors' = {}
  /\ UNCHANGED <<session, captures, camStop, capture, released, consumer, late>>

\* Each thread has ended or was waited for one second.
CloseEnds ==
  /\ camMain = "joining"
  /\ camMain' = "closed"
  /\ captures' = {} /\ latest' = [c \in Cameras |-> NoFrame] /\ errors' = {}
  /\ UNCHANGED <<session, camStop, capture, released, consumer, late>>

-----------------------------------------------------------------------------
(***************************************************************************)
(* _capture_loop of thread t = <<session, camera>>.                        *)
(***************************************************************************)
ThreadStep(t, from, to) == capture[t] = from /\ capture' = [capture EXCEPT ![t] = to]
CameraRest == UNCHANGED <<camMain, session, captures, camStop, released, consumer>>

\* Mutant of ReadsNext: a released capture can still be read.
ReadsNextAlways(t) ==
  /\ ThreadStep(t, "loop", "reading")
  /\ ~camStop
  /\ CameraRest /\ UNCHANGED <<latest, errors, late>>

\* The stop event is looked at, then the next read begins.  The read of a
\* capture that was released returns at once, without a frame.
ReadsNext(t) ==
  /\ ThreadStep(t, "loop", IF t[1] \in released THEN "failed" ELSE "reading")
  /\ ~camStop
  /\ CameraRest /\ UNCHANGED <<latest, errors, late>>

SeesStop(t) ==
  /\ ThreadStep(t, "loop", "none")
  /\ camStop
  /\ CameraRest /\ UNCHANGED <<latest, errors, late>>

ReadReturns(t) ==
  /\ \E result \in {"frame", "failed"} : ThreadStep(t, "reading", result)
  /\ CameraRest /\ UNCHANGED <<latest, errors, late>>

PublishesFrame(t) ==
  /\ ThreadStep(t, "frame", "loop")
  /\ latest' = [latest EXCEPT ![t[2]] = t[1]]
  /\ late' = [late EXCEPT ![t] = IF t[1] \in released THEN @ + 1 ELSE @]
  /\ CameraRest /\ UNCHANGED errors

\* A failed read ends the thread; it is an error unless a stop was asked for.
EndsFailed(t) ==
  /\ ThreadStep(t, "failed", IF camStop THEN "none" ELSE "erring")
  /\ CameraRest /\ UNCHANGED <<latest, errors, late>>

\* Mutant of RecordsError: the thread ends without a word.
EndsSilently(t) ==
  /\ ThreadStep(t, "erring", "none")
  /\ CameraRest /\ UNCHANGED <<errors, latest, late>>

RecordsError(t) ==
  /\ ThreadStep(t, "erring", "none")
  /\ errors' = errors \cup {t[2]}
  /\ CameraRest /\ UNCHANGED <<latest, late>>

CaptureStep(t) ==
  \/ ReadsNext(t) \/ SeesStop(t) \/ ReadReturns(t) \/ PublishesFrame(t)
  \/ EndsFailed(t) \/ RecordsError(t)

-----------------------------------------------------------------------------
(***************************************************************************)
(* capture_all(), on the inference thread: it looks whether the source is  *)
(* open, and then takes the lock.  What it returns is the cameras in it.   *)
(***************************************************************************)
CaptureAllBegins ==
  /\ consumer.at = "idle" /\ captures # {}
  /\ consumer' = [at |-> "checked", frames |-> {}]
  /\ UNCHANGED <<camMain, session, captures, latest, errors, camStop, capture, released, late>>

\* Mutant of Available: whatever frames there are will do.
AvailableIfAny == errors = {}

Available == errors = {} /\ Complete

CaptureAllEnds ==
  /\ consumer.at = "checked"
  /\ consumer' = IF Available
                 THEN [at |-> "idle", frames |-> {c \in captures : latest[c] # NoFrame}]
                 ELSE [at |-> "idle", frames |-> {}]
  /\ UNCHANGED <<camMain, session, captures, latest, errors, camStop, capture, released, late>>

CameraNext ==
  \/ OpenBegins \/ OpenStartsThreads \/ OpenReturns \/ OpenGivesUp \/ CloseBegins \/ CloseEnds
  \/ \E t \in CaptureThreads : CaptureStep(t)
  \/ CaptureAllBegins \/ CaptureAllEnds

\* The owner's own steps: their waits have timeouts.  A read may hang for ever.
OwnerStep ==
  \/ OpenStartsThreads \/ OpenReturns \/ OpenGivesUp
  \/ (camMain = "giveUp" /\ CloseBegins) \/ CloseEnds

CameraSpec == CameraInit /\ [][CameraNext]_camVars /\ WF_camVars(OwnerStep)

-----------------------------------------------------------------------------
CameraTypeOK ==
  /\ camMain \in {"closed", "clearing", "waiting", "open", "giveUp", "joining"}
  /\ session \in 0 .. MaxSessions
  /\ captures \subseteq Cameras /\ errors \subseteq Cameras
  /\ latest \in [Cameras -> 0 .. MaxSessions]
  /\ camStop \in BOOLEAN
  /\ capture \in [CaptureThreads -> {"none", "loop", "reading", "frame", "failed", "erring"}]
  /\ released \subseteq 1 .. MaxSessions
  /\ camMain \in {"closed", "clearing"} => captures = {}
  /\ consumer.at \in {"idle", "checked"}

Undisturbed == \A t \in CaptureThreads : late[t] = 0

\* The policy never sees one camera without the other: while a source is being
\* opened or closed an observation has every frame or none.  (A thread left
\* behind by a close() can break this while a later open() fails half way.)
NeverHalfAnObservation ==
  Undisturbed => consumer.frames \in {{}, Cameras}

\* A camera whose thread has died is reported: an open source never goes on
\* handing out the last frame of a thread that is gone.
DeadMeansError ==
  camMain = "open" => \A c \in Cameras : Running(<<session, c>>) \/ c \in errors

\* A thread that close() gave up on, and that a later open() lets run again,
\* delivers at most one more frame: its capture was released.
AtMostOneLateFrame == \A t \in CaptureThreads : late[t] <= 1

\* Without such a frame every frame kept is of the capture that is open, and a
\* closed source keeps none.
FramesOfThisSession ==
  Undisturbed =>
    \A c \in Cameras : latest[c] \in IF camMain = "closed" THEN {NoFrame} ELSE {NoFrame, session}

\* An observation is of all cameras and of this session, and a camera whose
\* thread died says so, whatever is opened and closed meanwhile.
CamerasCoherent ==
  NeverHalfAnObservation /\ AtMostOneLateFrame /\ FramesOfThisSession /\ DeadMeansError

\* open() and close() return although every read hangs.
OpenEnds == (camMain = "waiting") ~> (camMain \in {"open", "closed"})
CloseReturns == (camMain = "joining") ~> (camMain = "closed")
=============================================================================
