---------------------------- MODULE RealtimeModes ----------------------------
(***************************************************************************)
(* The modes of scripts/run_real_pick_drop_realtime.py side by side: a     *)
(* behaviour is a session in continuous mode or a cycle in sequential      *)
(* mode, each with the settings the script gives its worker in that mode.  *)
(* What is proved of a session (RealtimeControlProofs) comes with each     *)
(* instance; ModesProofs puts the two together.                            *)
(***************************************************************************)
EXTENDS Naturals

CONSTANTS
  ChunkSize, Spacing, MaxChunkAge, MaxSequence, MaxChunks,
  MaxContributors, Lookahead, HoldPolicy, HoldTimeout, DegradedThreshold,
  ContinuousTime, SequentialTime,   \* bounds: the last instant of either mode
  Unlimited                         \* max_requests = None

VARIABLES
  chunks, latestSequence, published,
  now, workerThread, workerStop, workerRunning, workerPC, nextSequence, inflight, health, stateLock,
  loopThread, loopStop, loopState, loopPC, actualStart, quarantine, outcome, lastValid, command,
  rejected, lastPrimary, writesAfterStop,
  mainPC, reason, abandoned, returning,
  mode                              \* the mode of this session

Continuous == INSTANCE RealtimeControlProofs WITH
  Mode <- "continuous", MaxRequests <- Unlimited, InitialSequence <- 0,
  RebaseToPublication <- FALSE, MaxTime <- ContinuousTime

\* initial_sequence of the second cycle.
Sequential == INSTANCE RealtimeControlProofs WITH
  Mode <- "sequential", MaxRequests <- 1, InitialSequence <- 1,
  RebaseToPublication <- TRUE, MaxTime <- SequentialTime

\* What the modules of a session assume of their constants, in either mode.
ASSUME ModesAssumption ==
  /\ Continuous!SessionAssumption /\ Sequential!SessionAssumption
  /\ Continuous!ChunkAssumption /\ Sequential!ChunkAssumption
  /\ Continuous!BufferAssumption
  /\ Continuous!WorkerAssumption /\ Sequential!WorkerAssumption
  /\ Continuous!LoopAssumption

IsContinuous == mode = "continuous"
IsSequential == mode = "sequential"

ModesInit ==
  \/ mode = "continuous" /\ Continuous!SessionInit
  \/ mode = "sequential" /\ Sequential!SessionInit

ModesNext ==
  /\ UNCHANGED mode
  /\ \/ IsContinuous /\ Continuous!SessionNext
     \/ IsSequential /\ Sequential!SessionNext

controlVars == Continuous!vars
modesVars == <<mode, Continuous!svars>>

\* A step of the runtime with the settings of the mode.
ControlOfMode ==
  \/ IsContinuous /\ Continuous!ControlNext
  \/ IsSequential /\ Sequential!ControlNext

\* MainFairness of RealtimeSession, for either mode.
ModesSpec ==
  /\ ModesInit /\ [][ModesNext]_modesVars
  /\ WF_modesVars(UNCHANGED mode /\ Continuous!ShutdownSignalsLoop)
  /\ WF_modesVars(UNCHANGED mode /\ IF IsContinuous THEN Continuous!ShutdownJoinsLoop ELSE Sequential!ShutdownJoinsLoop)
  /\ WF_modesVars(UNCHANGED mode /\ Continuous!ShutdownSignalsWorker)
  /\ WF_modesVars(UNCHANGED mode /\ IF IsContinuous THEN Continuous!ShutdownJoinsWorker ELSE Sequential!ShutdownJoinsWorker)

-----------------------------------------------------------------------------
\* The loop never runs before a usable trajectory was seen, nor after the main
\* thread has finished, unless its stop() timed out or was interrupted or the monitor
\* raised.
LoopWithinSession == Continuous!LoopWithinSession

\* The session is one way to own the two threads, whatever the mode: what holds of
\* RealtimeControl under an arbitrary owner holds of every session.
SessionUsesControl == [][ControlOfMode]_controlVars

\* Single-chunk runs execute exactly the chunk that was admitted.
OnlyTheAdmittedChunk == IsSequential => Sequential!OnlyTheAdmittedChunk

\* The return to start is alone with the arm when every stop() returned; when
\* the loop's timed out, one more write of it at most may run in parallel.
ReturnsUndisturbed == Sequential!ReturnsUndisturbed

\* Shutdown ends although a read, a write or a request hangs: the main thread
\* takes no lock on its way.
ShutdownEnds == (mainPC = "stopLoop") ~> (mainPC \in {"return", "end"})
=============================================================================
