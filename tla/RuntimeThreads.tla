--------------------------- MODULE RuntimeThreads ---------------------------
(***************************************************************************)
(* The parts of the runtime that share no variable, for one run of TLC:    *)
(* the schedule of the control loop, the camera threads, the monitor of    *)
(* the session, its sequential cycles, the trajectory buffer alone, the    *)
(* staged test on the real follower, and the threads of the hardware state *)
(* server.  A behaviour is one of `part`; the others stay as they are at   *)
(* the start.                                                              *)
(***************************************************************************)
EXTENDS TickScheduler, CameraSource, SessionMonitor, SequentialChunks, TrajectoryBuffer,
        StagedRollout

VARIABLE part

\* The variables of StatePoller.
VARIABLES isOpen, poll, sequence, pc, stage, stopEvent, main, request, now

CONSTANTS MaxServerPolls, StaleAfter, MaxReadErrors

\* The state server, in one instant of the clock: MaxNow is for its safety only.
Server == INSTANCE StatePoller WITH MaxPolls <- MaxServerPolls, MaxNow <- 0

serverVars == <<isOpen, poll, sequence, pc, stage, stopEvent, main, request, now>>
partVars == <<part, tickVars, camVars, monitorVars, seqVars, bufferVars, stagedVars, serverVars>>

ThreadsInit ==
  /\ part \in {"ticks", "cameras", "monitor", "sequential", "buffer", "staged", "server"}
  /\ TicksInit /\ CameraInit /\ MonitorInit /\ SeqInit /\ BufferInit
  /\ StagedInit /\ Server!Init
  /\ part # "monitor" => single = FALSE

Ticks ==
  /\ part = "ticks" /\ TicksNext
  /\ UNCHANGED <<part, camVars, monitorVars, seqVars, bufferVars, stagedVars, serverVars>>
CamerasStep ==
  /\ part = "cameras" /\ CameraNext
  /\ UNCHANGED <<part, tickVars, monitorVars, seqVars, bufferVars, stagedVars, serverVars>>
MonitorStep ==
  /\ part = "monitor" /\ MonitorNext
  /\ UNCHANGED <<part, tickVars, camVars, seqVars, bufferVars, stagedVars, serverVars>>
SequentialStep ==
  /\ part = "sequential" /\ SeqNext
  /\ UNCHANGED <<part, tickVars, camVars, monitorVars, bufferVars, stagedVars, serverVars>>
BufferStep ==
  /\ part = "buffer" /\ BufferNext
  /\ UNCHANGED <<part, tickVars, camVars, monitorVars, seqVars, stagedVars, serverVars>>
StagedStep ==
  /\ part = "staged" /\ StagedNext
  /\ UNCHANGED <<part, tickVars, camVars, monitorVars, seqVars, bufferVars, serverVars>>
ServerStep ==
  /\ part = "server" /\ Server!Next
  /\ UNCHANGED <<part, tickVars, camVars, monitorVars, seqVars, bufferVars, stagedVars>>

ThreadsNext ==
  Ticks \/ CamerasStep \/ MonitorStep \/ SequentialStep \/ BufferStep \/ StagedStep \/ ServerStep

\* The fairness of each module, for the behaviours that are of its part.
ThreadsFairness ==
  /\ WF_tickVars(part = "ticks" /\ TickIsOver)
  /\ WF_tickVars(part = "ticks" /\ Wakes)
  /\ WF_tickVars(part = "ticks" /\ LastTickDone)
  /\ WF_camVars(part = "cameras" /\ OwnerStep)
  /\ WF_monitorVars(part = "monitor" /\ Poll)
  /\ WF_seqVars(part = "sequential" /\ SeqMain)
  /\ WF_serverVars(part = "server" /\ Server!PollerSteps)
  /\ WF_serverVars(part = "server" /\ Server!MainSteps /\ ~Server!StopPoller)

ThreadsSpec == ThreadsInit /\ [][ThreadsNext]_partVars /\ ThreadsFairness

-----------------------------------------------------------------------------
\* The cameras and the state server are here for their liveness; Observers checks
\* their safety.
ThreadsTypeOK == TickTypeOK /\ MonitorTypeOK /\ SeqTypeOK /\ StagedTypeOK

\* Every wait of the script for one of its threads ends: opening and closing the
\* cameras, stop() of the loop, a run of the monitor, a sequence of chunks unless a
\* thread of a child keeps the lock of the state for ever, and the shutdown of the
\* state server, whose arms also come back from their read errors.
ThreadsLive ==
  /\ StopNeedsNoTime /\ OpenEnds /\ CloseReturns
  /\ SequentialEnds /\ (part = "monitor" => MonitorEnds)
  /\ Server!ArmsServed /\ Server!ShutdownEnds

\* Ticks keep their rate: never faster than the period after a resync, and never
\* asleep past the next deadline.
PaceKept == RateBounded /\ NeverOversleeps

\* The monitor stops a session that produces nothing or whose one fault persists,
\* and ends a chunk that was executed as a success.
MonitorJudges == BarrenSessionStops /\ OneFaultPersistingStops /\ ChunkEndIsNormal

\* A loop beside the one of the current cycle is one whose stop() timed out, and the
\* arm is returned for Ctrl-C only.
CyclesInOrder == OthersWereGivenUp /\ ReturnsForCtrlCOnly
=============================================================================
