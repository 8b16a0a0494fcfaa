--------------------------- MODULE RealtimeSession ---------------------------
(***************************************************************************)
(* The main thread of scripts/run_real_pick_drop_realtime.py: it owns the  *)
(* worker and the loop of RealtimeControl, and in sequential mode returns  *)
(* the arm to its start after Ctrl-C.                                      *)
(*                                                                         *)
(*   "continuous"  RealtimeSessionOrchestrator                             *)
(*   "single"      the same with single_chunk                              *)
(*   "sequential"  one cycle of SequentialChunksOrchestrator, which runs   *)
(*                 the single-chunk child and handles its interrupt        *)
(*                                                                         *)
(* A wait with a timeout may time out whenever what it waits for has not   *)
(* happened: no property depends on the five seconds of a join.            *)
(***************************************************************************)
EXTENDS RealtimeControl

CONSTANT Mode

\* The settings that go together; RealtimeModes assumes them.
SessionAssumption ==
  /\ Mode \in {"continuous", "single", "sequential"}
  /\ Mode # "continuous" => MaxRequests = 1 /\ RebaseToPublication

VARIABLES
  mainPC,       \* where the main thread is
  reason,       \* why the session stops
  abandoned,    \* the threads whose stop() did not complete
  returning     \* the main thread is inside writer.write of the return

sessionVars == <<mainPC, reason, abandoned, returning>>
svars == <<vars, sessionVars>>

SingleChunk == Mode # "continuous"

SessionInit ==
  /\ ControlInit
  /\ mainPC = "start"
  /\ reason = "none"
  /\ abandoned = {}
  /\ returning = FALSE

Goto(from, to) == mainPC = from /\ mainPC' = to

\* A step of the main thread that calls an action of the worker.
CallsWorker(A) == A /\ UNCHANGED <<loopVars, returning>>
Alone == UNCHANGED <<vars, returning>>

-----------------------------------------------------------------------------
(***************************************************************************)
(* run(): the worker first, the loop once a usable trajectory exists.      *)
(***************************************************************************)
Starts ==
  /\ Goto("start", "await")
  /\ CallsWorker(StartWorker)
  /\ UNCHANGED <<reason, abandoned>>

Usable == ValidChunks(now) # {}

AwaitEnds ==
  /\ Usable
  /\ Goto("await", IF SingleChunk THEN "admit" ELSE "startLoop")
  /\ Alone /\ UNCHANGED <<reason, abandoned>>

\* Mutant of AwaitTimesOut: the loop starts all the same.
AwaitGivesUpWaiting ==
  /\ ~Usable
  /\ Goto("await", "startLoop")
  /\ reason' = "abort"
  /\ CallsWorker(SignalWorkerStop)
  /\ UNCHANGED abandoned

\* Also the single chunk that never came: the worker is stopped and the run
\* raises, whether or not the join succeeds.
AwaitTimesOut ==
  /\ ~Usable
  /\ Goto("await", "abort")
  /\ reason' = "abort"
  /\ CallsWorker(SignalWorkerStop)
  /\ UNCHANGED abandoned

\* single_chunk: the worker is stopped before anything is executed.
AdmitStops ==
  /\ Goto("admit", "admitJoin")
  /\ CallsWorker(SignalWorkerStop)
  /\ UNCHANGED <<reason, abandoned>>

\* Mutant of AdmitJoins: a join that timed out is accepted.
AdmitJoinsOrNot ==
  /\ Goto("admitJoin", "admitCheck")
  /\ CallsWorker(JoinWorker) \/ Alone
  /\ UNCHANGED <<reason, abandoned>>

AdmitJoins ==
  /\ Goto("admitJoin", "admitCheck")
  /\ CallsWorker(JoinWorker)
  /\ UNCHANGED <<reason, abandoned>>

\* stop() raised TimeoutError, or the chunk was not the only one: run() raises.
AdmitFails ==
  /\ \/ Goto("admitJoin", "end") /\ workerThread = "alive" /\ abandoned' = {"worker"}
     \/ /\ Goto("admitCheck", "end")
        /\ ~(TotalRequests = 1 /\ health.published = 1 /\ Len(chunks) = 1)
        /\ UNCHANGED abandoned
  /\ reason' = "abort"
  /\ Alone

AdmitAccepts ==
  /\ Goto("admitCheck", "startLoop")
  /\ TotalRequests = 1 /\ health.published = 1 /\ Len(chunks) = 1
  /\ Alone /\ UNCHANGED <<reason, abandoned>>

AbortJoins ==
  /\ Goto("abort", "end")
  /\ \/ CallsWorker(JoinWorker) /\ UNCHANGED abandoned
     \/ workerThread = "alive" /\ abandoned' = {"worker"} /\ Alone
  /\ UNCHANGED reason

StartsLoop ==
  /\ Goto("startLoop", "monitor")
  /\ StartLoop
  /\ UNCHANGED <<reason, abandoned, returning>>

-----------------------------------------------------------------------------
(***************************************************************************)
(* The monitor loop, and the shutdown: the loop first, then the worker,    *)
(* each timeout reported and swallowed.                                    *)
(***************************************************************************)
Nonproductive == loopState \in {"NO_TRAJECTORY", "STALE_TRAJECTORY", "INTENT_BLOCKED", "SAFETY_BLOCKED"}

MonitorStops(why) ==
  /\ Goto("monitor", "stopLoop")
  /\ why = "complete" =>
       SingleChunk /\ ~Usable /\ Nonproductive /\ now >= chunks[1].obs + ChunkSize * Spacing
  /\ why = "admission" => SingleChunk /\ (health.published > 1 \/ Len(chunks) > 1)
  /\ reason' = why
  /\ Alone /\ UNCHANGED abandoned

\* The diagnostic file cannot be written: the exception leaves run() from within
\* the monitor loop, past the shutdown.
MonitorRaises ==
  /\ Goto("monitor", "end")
  /\ abandoned' = {x \in {"loop"} : loopThread = "alive"}
                    \cup {x \in {"worker"} : workerThread = "alive"}
  /\ Alone /\ UNCHANGED reason

Reasons == {"complete", "admission", "fatal", "runtime", "interrupt"}

ShutdownSignalsLoop ==
  /\ Goto("stopLoop", "joinLoop")
  /\ SignalLoopStop
  /\ UNCHANGED <<reason, abandoned, returning>>

\* Mutant of ShutdownJoinsLoop: a thread that does not end is forgotten.
ShutdownForgetsLoop ==
  /\ Goto("joinLoop", "stopWorker")
  /\ loopThread' = "none"
  /\ UNCHANGED <<loopStop, loopState, loopTick, loopHistory, wvars, reason, abandoned, returning>>

\* Mutant of ShutdownJoinsLoop: the join has no timeout.
ShutdownJoinsForEver ==
  /\ Goto("joinLoop", "stopWorker")
  /\ JoinLoop
  /\ abandoned' = abandoned \ {"loop"}
  /\ UNCHANGED <<reason, returning>>

ShutdownJoinsLoop ==
  /\ Goto("joinLoop", "stopWorker")
  /\ \/ JoinLoop /\ abandoned' = abandoned \ {"loop"} /\ UNCHANGED returning
     \/ loopThread = "alive" /\ abandoned' = abandoned \cup {"loop"} /\ Alone
  /\ UNCHANGED reason

ShutdownSignalsWorker ==
  /\ Goto("stopWorker", "joinWorker")
  /\ CallsWorker(SignalWorkerStop)
  /\ UNCHANGED <<reason, abandoned>>

ShutdownJoinsWorker ==
  /\ Goto("joinWorker",
          IF Mode = "sequential" /\ reason \in {"interrupt", "outer"} THEN "return" ELSE "end")
  /\ \/ CallsWorker(JoinWorker) /\ abandoned' = abandoned \ {"worker"}
     \/ workerThread = "alive" /\ abandoned' = abandoned \cup {"worker"} /\ Alone
  /\ UNCHANGED reason

\* Ctrl-C outside the monitor loop.  The sequential orchestrator catches it
\* once and shuts the child down again before the return; anywhere else it
\* leaves run() with the threads as they are.
Interruptible == {"start", "await", "admit", "admitJoin", "admitCheck", "abort", "startLoop",
                  "stopLoop", "joinLoop", "stopWorker", "joinWorker", "return"}

\* Mutant of Interrupted: the handler returns the arm at once.
InterruptedReturnsAtOnce ==
  /\ mainPC \in Interruptible
  /\ mainPC' = IF Mode = "sequential" THEN "return" ELSE "end"
  /\ reason' = "outer"
  /\ Alone /\ UNCHANGED abandoned

Interrupted ==
  /\ mainPC \in Interruptible
  /\ IF Mode = "sequential" /\ reason # "outer"
     THEN mainPC' = "stopLoop" /\ reason' = "outer" /\ UNCHANGED abandoned
     ELSE /\ mainPC' = "end"
          /\ abandoned' = {x \in {"loop"} : loopThread = "alive"}
                            \cup {x \in {"worker"} : workerThread = "alive"}
          /\ UNCHANGED reason
  /\ Alone

-----------------------------------------------------------------------------
(***************************************************************************)
(* execute_return_to_start: reads the follower through the same lock and   *)
(* writes to the same motors, until it has settled, is refused, times out  *)
(* or is interrupted again.                                                *)
(***************************************************************************)
ReturnLocks ==
  /\ Goto("return", "returnRead")
  /\ CallsWorker(OthersLock)
  /\ UNCHANGED <<reason, abandoned>>

ReturnReads ==
  /\ mainPC = "returnRead"
  /\ \/ mainPC' = "return" /\ UNCHANGED returning         \* measured, not yet to write
     \/ mainPC' = "returnWrite" /\ returning' = TRUE
     \/ mainPC' = "end" /\ UNCHANGED returning
  /\ OthersRelease
  /\ UNCHANGED <<loopVars, reason, abandoned>>

ReturnWrites ==
  /\ Goto("returnWrite", "return")
  /\ returning' = FALSE
  /\ UNCHANGED <<vars, reason, abandoned>>

-----------------------------------------------------------------------------
MainStep ==
  \/ Starts \/ AwaitEnds \/ AwaitTimesOut
  \/ AdmitStops \/ AdmitJoins \/ AdmitFails \/ AdmitAccepts \/ AbortJoins \/ StartsLoop
  \/ \E why \in Reasons : MonitorStops(why)
  \/ MonitorRaises \/ ShutdownSignalsLoop \/ ShutdownJoinsLoop
  \/ ShutdownSignalsWorker \/ ShutdownJoinsWorker \/ Interrupted
  \/ ReturnLocks \/ ReturnReads \/ ReturnWrites

\* The main thread has left run(): the process ends, and its daemon threads
\* with it, now or after some more of their steps.
Finished == mainPC = "end" /\ UNCHANGED svars

SessionNext == MainStep \/ (Threads /\ UNCHANGED sessionVars) \/ Finished

SessionSpec == SessionInit /\ [][SessionNext]_svars

\* The main thread alone is scheduled: the reads and writes of the loop, and
\* the requests of the worker, may hang for ever.
MainFairness ==
  /\ WF_svars(ShutdownSignalsLoop) /\ WF_svars(ShutdownJoinsLoop)
  /\ WF_svars(ShutdownSignalsWorker) /\ WF_svars(ShutdownJoinsWorker)

FairSessionSpec == SessionSpec /\ MainFairness

-----------------------------------------------------------------------------
\* Single-chunk runs execute exactly the chunk that was admitted: the worker is
\* gone before the loop exists, and every write is made of that one chunk.
OnlyTheAdmittedChunk ==
  SingleChunk /\ loopThread = "alive" =>
    /\ workerThread = "none"
    /\ Len(chunks) = 1 /\ published = Held
    /\ command.seqs \subseteq {InitialSequence}

\* The loop never runs before a usable trajectory was seen, nor after the main
\* thread has finished, unless its own stop() timed out or was interrupted, or the
\* monitor raised.
LoopWithinSession ==
  /\ loopThread = "alive" =>
       mainPC \in {"monitor", "stopLoop", "joinLoop"} \/ "loop" \in abandoned
  /\ loopThread # "none" => published # {}
  /\ mainPC = "end" /\ abandoned = {} => loopThread # "alive" /\ workerThread # "alive"

\* "Stop both child threads before beginning any return writes": the main
\* thread never writes to the motors while the loop could write too.
ReturnsAlone == returning => loopThread # "alive"

\* The same when every stop() returned: neither thread exists any more.
ReturnsAloneAfterCleanStop == returning /\ abandoned = {} => loopThread = "none" /\ workerThread = "none"

\* Should stop() of the loop time out, the loop still begins at most one more
\* write in parallel with the return, and none after that tick.
AtMostOneForeignWrite == returning => writesAfterStop <= 1

\* The return to start is alone with the arm when every stop() returned; when
\* the loop's timed out, one more write of it at most may run in parallel.
ReturnsUndisturbed == ReturnsAloneAfterCleanStop /\ AtMostOneForeignWrite

\* The session is one way to own the two threads: what holds of RealtimeControl
\* under an arbitrary owner holds of every session.
SessionUsesControl == [][ControlNext]_vars

\* Shutdown ends although a read, a write or a request hangs: the main thread
\* takes no lock on its way.
ShutdownEnds == (mainPC = "stopLoop") ~> (mainPC \in {"return", "end"})
=============================================================================
