--------------------------- MODULE InferenceWorker ---------------------------
(***************************************************************************)
(* AsyncVLAChunkInferenceWorker                                            *)
(* (runtime/laptop/async_chunk_inference_worker.py): one thread that       *)
(* captures an observation, asks the VLA server for an action chunk and    *)
(* publishes it, strictly one request at a time; start() and stop() are    *)
(* called by an owner thread.                                              *)
(*                                                                         *)
(* The observation provider is the one of the real runs                    *)
(* (scripts/run_real_pick_drop_realtime.py): it stamps the time, takes the *)
(* camera frames, then reads the follower under the lock it shares with    *)
(* the control loop.  min_interval_s is part of the arbitrary delay        *)
(* between two requests.                                                   *)
(***************************************************************************)
EXTENDS TrajectoryBuffer

CONSTANTS
  MaxRequests,            \* max_requests; "None" is any value > MaxSequence + 1
  InitialSequence,        \* initial_sequence
  RebaseToPublication     \* rebase_chunk_to_publication_time

ASSUME WorkerAssumption ==
  /\ MaxRequests \in Nat
  /\ InitialSequence \in Sequence
  /\ RebaseToPublication \in BOOLEAN

VARIABLES
  now,            \* time.monotonic()
  workerThread,   \* _thread: "none", "alive", or "ended" (kept, but not alive)
  workerStop,     \* _stop_event
  workerRunning,  \* _running, what health_snapshot() reports
  workerPC,       \* where the thread is in _run_loop / _run_one_iteration
  nextSequence,   \* _sequence
  inflight,       \* the chunk of the request in progress
  health,         \* the counters of WorkerHealthSnapshot
  stateLock       \* who holds the lock of LockedFollowerStateSource

workerVars ==
  <<workerThread, workerStop, workerRunning, workerPC, nextSequence, inflight, health>>

NoChunk == [seq |-> NoSequence, captured |-> 0, obs |-> 0]

Health == [failures : Nat, published : Nat, discarded : Nat,
           latest : Sequence \cup {NoSequence}]

TotalRequests == nextSequence - InitialSequence

-----------------------------------------------------------------------------
WorkerInit ==
  /\ now = 0
  /\ workerThread = "none"
  /\ workerStop = FALSE
  /\ workerRunning = FALSE
  /\ workerPC = "loop"
  /\ nextSequence = InitialSequence
  /\ inflight = NoChunk
  /\ health = [failures |-> 0, published |-> 0, discarded |-> 0, latest |-> NoSequence]
  /\ stateLock = "free"

-----------------------------------------------------------------------------
(***************************************************************************)
(* The owner.  stop() is the signal followed by the join; a join that      *)
(* times out raises and changes nothing more, so the thread stays alive    *)
(* and registered.  A second start() raises while the thread is alive.     *)
(***************************************************************************)
\* Mutant of StartWorker: a restart counts from initial_sequence again.
StartWorkerFromInitial ==
  /\ workerThread # "alive"
  /\ workerThread' = "alive"
  /\ workerStop' = FALSE
  /\ workerRunning' = TRUE
  /\ workerPC' = "loop"
  /\ nextSequence' = InitialSequence
  /\ UNCHANGED <<inflight, health, now, stateLock, bufferVars>>

StartWorker ==
  /\ workerThread # "alive"
  /\ workerThread' = "alive"
  /\ workerStop' = FALSE
  /\ workerRunning' = TRUE
  /\ workerPC' = "loop"
  /\ UNCHANGED <<nextSequence, inflight, health, now, stateLock, bufferVars>>

SignalWorkerStop ==
  /\ workerStop' = TRUE
  /\ UNCHANGED <<workerThread, workerRunning, workerPC, nextSequence, inflight, health,
                 now, stateLock, bufferVars>>

JoinWorker ==
  /\ workerStop
  /\ workerThread # "alive"
  /\ workerThread' = "none"
  /\ workerRunning' = FALSE
  /\ UNCHANGED <<workerStop, workerPC, nextSequence, inflight, health,
                 now, stateLock, bufferVars>>

-----------------------------------------------------------------------------
(***************************************************************************)
(* The thread.                                                             *)
(***************************************************************************)
At(pc) == workerThread = "alive" /\ workerPC = pc

\* Mutant of WorkerExits: the thread leaves as soon as it is signalled.
WorkerExitsAnywhere ==
  /\ workerThread = "alive"
  /\ workerStop
  /\ workerThread' = "ended"
  /\ UNCHANGED <<workerStop, workerRunning, workerPC, nextSequence, inflight, health,
                 now, stateLock, bufferVars>>

\* Mutant of WorkerExits: only the request limit ends the loop.
WorkerExitsAtLimit ==
  /\ At("loop")
  /\ TotalRequests >= MaxRequests
  /\ workerThread' = "ended"
  /\ UNCHANGED <<workerStop, workerRunning, workerPC, nextSequence, inflight, health,
                 now, stateLock, bufferVars>>

WorkerExits ==
  /\ At("loop")
  /\ workerStop \/ TotalRequests >= MaxRequests
  /\ workerThread' = "ended"
  /\ UNCHANGED <<workerStop, workerRunning, workerPC, nextSequence, inflight, health,
                 now, stateLock, bufferVars>>

\* The request gets its number and the observation its time before any
\* camera frame is taken.
WorkerBegins ==
  /\ At("loop")
  /\ ~workerStop
  /\ TotalRequests < MaxRequests
  /\ nextSequence <= MaxSequence
  /\ inflight' = [seq |-> nextSequence, captured |-> now, obs |-> now]
  /\ nextSequence' = nextSequence + 1
  /\ workerPC' = "capture"
  /\ UNCHANGED <<workerThread, workerStop, workerRunning, health, now, stateLock, bufferVars>>

\* Mutant of RecordFailure: the failure is remembered, not counted.
RecordFailureUncounted ==
  /\ inflight' = NoChunk
  /\ workerPC' = "loop"
  /\ UNCHANGED <<workerThread, workerStop, workerRunning, nextSequence, health>>

\* _record_failure: every exception and every rejected answer ends here; the
\* thread survives it and goes on with the next request.
RecordFailure ==
  /\ health' = [health EXCEPT !.failures = @ + 1]
  /\ inflight' = NoChunk
  /\ workerPC' = "loop"
  /\ UNCHANGED <<workerThread, workerStop, workerRunning, nextSequence>>

CameraFails ==
  /\ At("capture")
  /\ RecordFailure
  /\ UNCHANGED <<now, stateLock, bufferVars>>

\* The frames are there; the follower is read once its lock is free.
WorkerLocksState ==
  /\ At("capture")
  /\ stateLock = "free"
  /\ stateLock' = "worker"
  /\ workerPC' = "readstate"
  /\ UNCHANGED <<workerThread, workerStop, workerRunning, nextSequence, inflight, health,
                 now, bufferVars>>

\* Mutant of WorkerReadsState: a read that raises keeps the lock.
WorkerReadsKeepingLock ==
  /\ At("readstate")
  /\ \/ /\ workerPC' = "predict"
        /\ stateLock' = "free"
        /\ UNCHANGED <<health, inflight, workerThread, workerStop, workerRunning, nextSequence>>
     \/ RecordFailure /\ UNCHANGED stateLock
  /\ UNCHANGED <<now, bufferVars>>

WorkerReadsState ==
  /\ At("readstate")
  /\ stateLock' = "free"
  /\ \/ workerPC' = "predict" /\ UNCHANGED <<health, inflight, workerThread, workerStop,
                                             workerRunning, nextSequence>>
     \/ RecordFailure
  /\ UNCHANGED <<now, bufferVars>>

\* predict_chunk() takes time.  The chunk keeps the time of its observation,
\* or is moved to the time it is published.
PredictSucceeds ==
  /\ At("predict")
  /\ now > inflight.captured
  /\ inflight' = [inflight EXCEPT !.obs = IF RebaseToPublication THEN now ELSE @]
  /\ workerPC' = "publish"
  /\ UNCHANGED <<workerThread, workerStop, workerRunning, nextSequence, health,
                 now, stateLock, bufferVars>>

\* Mutant of PredictFails: the exception of the client ends the thread.
PredictKillsThread ==
  /\ At("predict")
  /\ workerThread' = "ended"
  /\ UNCHANGED <<workerStop, workerRunning, workerPC, nextSequence, inflight, health,
                 now, stateLock, bufferVars>>

\* An exception, an error result, or an answer TimestampedActionChunk refuses.
PredictFails ==
  /\ At("predict")
  /\ RecordFailure
  /\ UNCHANGED <<now, stateLock, bufferVars>>

WorkerPublishes ==
  /\ At("publish")
  /\ Publish(inflight)
  /\ workerPC' = IF Accepts(inflight) THEN "recordPublished" ELSE "recordDiscarded"
  /\ UNCHANGED <<workerThread, workerStop, workerRunning, nextSequence, inflight, health,
                 now, stateLock>>

\* Mutant of WorkerRecords: the number of the chunk is not recorded.
WorkerRecordsCountOnly ==
  /\ At("recordPublished") \/ At("recordDiscarded")
  /\ health' = [health EXCEPT !.failures = 0, !.published = @ + 1]
  /\ inflight' = NoChunk
  /\ workerPC' = "loop"
  /\ UNCHANGED <<workerThread, workerStop, workerRunning, nextSequence,
                 now, stateLock, bufferVars>>

\* _record_success, in a critical section of its own after publish() returned.
WorkerRecords ==
  /\ At("recordPublished") \/ At("recordDiscarded")
  /\ health' = [failures  |-> 0,
                published |-> health.published + (IF At("recordPublished") THEN 1 ELSE 0),
                discarded |-> health.discarded + (IF At("recordPublished") THEN 0 ELSE 1),
                latest    |-> inflight.seq]
  /\ inflight' = NoChunk
  /\ workerPC' = "loop"
  /\ UNCHANGED <<workerThread, workerStop, workerRunning, nextSequence,
                 now, stateLock, bufferVars>>

WorkerStep ==
  \/ WorkerBegins \/ CameraFails \/ WorkerLocksState \/ WorkerReadsState
  \/ PredictSucceeds \/ PredictFails \/ WorkerPublishes \/ WorkerRecords \/ WorkerExits

OwnsWorker == StartWorker \/ SignalWorkerStop \/ JoinWorker

ClockTicks ==
  /\ now < MaxTime
  /\ now' = now + 1
  /\ UNCHANGED <<workerVars, stateLock, bufferVars>>

-----------------------------------------------------------------------------
(***************************************************************************)
(* The worker alone: an owner that starts and stops it at any time, and    *)
(* other readers of the follower.                                          *)
(***************************************************************************)
OthersLock ==
  /\ stateLock = "free"
  /\ stateLock' = "others"
  /\ UNCHANGED <<now, workerVars, bufferVars>>

OthersRelease ==
  /\ stateLock = "others"
  /\ stateLock' = "free"
  /\ UNCHANGED <<now, workerVars, bufferVars>>

OthersRead == OthersLock \/ OthersRelease

WorkerNext == WorkerStep \/ OwnsWorker \/ OthersRead \/ ClockTicks

wvars == <<now, workerVars, stateLock, bufferVars>>

\* The thread is scheduled, its calls return (the HTTP client has a timeout),
\* and a lock that is released again and again is obtained in the end.
WorkerFairness ==
  /\ WF_wvars(WorkerBegins) /\ WF_wvars(WorkerReadsState)
  /\ WF_wvars(PredictSucceeds \/ PredictFails)
  /\ WF_wvars(WorkerPublishes) /\ WF_wvars(WorkerRecords) /\ WF_wvars(WorkerExits)
  /\ SF_wvars(WorkerLocksState \/ CameraFails)

WorkerSpec ==
  /\ BufferInit /\ WorkerInit
  /\ [][WorkerNext]_wvars
  /\ WorkerFairness
  /\ WF_wvars(OthersRelease)

-----------------------------------------------------------------------------
WorkerTypeOK ==
  /\ now \in Time
  /\ workerThread \in {"none", "alive", "ended"}
  /\ workerStop \in BOOLEAN
  /\ workerRunning \in BOOLEAN
  /\ workerPC \in {"loop", "capture", "readstate", "predict", "publish",
                   "recordPublished", "recordDiscarded"}
  /\ nextSequence \in InitialSequence..(MaxSequence + 1)
  /\ inflight \in Chunk \cup {NoChunk}
  /\ health \in Health
  /\ stateLock \in {"free", "worker", "loop", "others"}

\* The numbers outlive stop() and start(): whatever the restarts, a chunk the
\* worker publishes is newer than everything in the buffer, so none of its
\* own chunks is ever dropped as out of order.
NothingDiscarded == health.discarded = 0 /\ workerPC # "recordDiscarded"

\* The counters agree with the buffer except between publish() and
\* _record_success(), where they lag by exactly the chunk just published.
HealthAgrees ==
  IF workerPC = "recordPublished"
  THEN /\ Cardinality(published) = health.published + 1
       /\ latestSequence = inflight.seq /\ health.latest < inflight.seq
  ELSE /\ Cardinality(published) = health.published
       /\ latestSequence = health.latest

\* Every request ends as exactly one success or at least one failure: no
\* request is lost, and a run of failures is never longer than the requests
\* that did not publish.
RequestsAccounted ==
  LET settled == TotalRequests - (IF workerPC = "loop" THEN 0 ELSE 1) IN
  /\ health.published + health.failures <= settled
  /\ health.published = 0 => health.failures = settled

\* A thread that is no longer alive left no request half way: nothing can be
\* published after stop() has returned.
EndsBetweenRequests == workerThread # "alive" => workerPC = "loop" /\ inflight = NoChunk

\* The books of the worker balance at every step, whatever the restarts and
\* wherever a request fails: counters, buffer and requests agree, an ended
\* thread owes nothing, and no chunk of the worker's own is dropped.
WorkerAccounts ==
  HealthAgrees /\ RequestsAccounted /\ EndsBetweenRequests /\ NothingDiscarded

\* stop() returns: once signalled, the thread ends, whatever the request in
\* progress, unless it is started again.
StopTakesEffect == workerStop ~> (workerThread # "alive" \/ ~workerStop)

\* Every request is settled: published or counted as a failure.
RequestSettles == (workerPC # "loop") ~> (workerPC = "loop")
=============================================================================
