# The arm runtime in TLA+

The repository drives an SO-101 robot arm with a vision-language-action (VLA)
policy. Its core is a small concurrent program: a thread that asks a remote
policy for *chunks* of future actions, a 60 Hz thread that blends the buffered
chunks into one target and writes it to the motors, and a main thread that
starts, watches and stops the two and may move the arm back to its start. Around
it stand a policy server, a server that publishes the state of two arms, a
viewer and a diagnosis that follow that server, tests that move one joint or one
step, and tools that record, build, replay and judge data.

This directory specifies those programs, model-checks them with TLC on small
instances, and proves with TLAPS what matters most for every instance. Paths
below are relative to `src/`.

## 1. Inventory

### The realtime runtime

| Component | State | Operations | Talks to | What makes it correct |
|---|---|---|---|---|
| Trajectory chunk (`runtime/laptop/trajectory_chunk.py`) | immutable: number, observation time, spacing, actions | target times, first future index, expiry | read by buffer and ensembler | indices stay inside the chunk; expiry is final |
| Trajectory buffer (`trajectory_buffer.py`) | bounded deque, latest number, one lock | `publish`, `valid_chunks`, `snapshot`, `latest`, `clear` | written by the worker, read by loop and main thread | ordered, newest chunks only, late answers dropped |
| Inference worker (`async_chunk_inference_worker.py`) | thread, stop event, next number, health counters | `start`, `stop`, capture → predict → publish → record | camera, state lock, VLA client, buffer | no request lost, counters agree with the buffer, `stop` ends the thread between two requests |
| Temporal ensembler (`temporal_ensemble.py`) | none | selection, sampling and blend | called by the target generator | only chunks that cover the time, the newest ones |
| Control loop (`realtime_control_loop.py`) | thread, stop event, state, quarantine, last valid tick, deadline | `start`, `stop`, tick, sleep and resync | state lock, buffer, generator, worker health, writer | rejected chunks stay out, no write after stop, never back to older predictions, no bursts |
| Target generator, intent validation, motion guard, safety gate (`realtime_control_target.py`, `intent_validation.py`, `motion_guard.py`, `safety_gate.py`) | guard memory, last tick's time, last accepted target | one `tick` | called by the loop | a held command stays near the encoders, no trajectory drives it away, it restarts gently, accepted targets do not jump |
| Session script (`scripts/run_real_pick_drop_realtime.py`) | main thread, stop reason, monitor counters, which stops timed out, cycles | start-up, admission, monitor, shutdown, Ctrl-C, return to start | owns worker and loop, reads state, writes to the motors | single-chunk modes execute one chunk; only a loop that was given up can disturb the return or the next cycle; a barren session ends |
| Camera source (`camera_source.py`) | latest frame per camera, capture threads, one stop event | `open`, `close`, `capture_all` | inference thread, capture threads | frames are of this session; open and close end |
| Tick log (`diagnostic_jsonl_logger.py`) | captures, cursor, history of the loop | capture, drain, last drain | loop thread and monitor | each tick at most once, in order |

### From the policy to the motors

| Component | State | Operations | Talks to | What makes it correct |
|---|---|---|---|---|
| VLA server and clients (`runtime/desktop/vla_server.py`, `runtime/laptop/vla_client.py`, `inprocess_vla_client.py`) | one policy with one queue of actions for all sessions, one lock, counters of acks | reset, predict, predict_chunk, ack, retries | worker, staged test, shadow mode | an answer is of what was asked, an ack reported is an ack received |
| Staged rollout (`staged_real_rollout.py`, `hardware/safety/staged_follower_writer.py`, `scripts/run_real_follower_staged_safety_test.py`) | stage, receipts, budget, torque; attempts without an answer | run of a stage, step, finally | policy, follower | budget, receipts; actions of this observation, unless an older attempt was still underway |
| Single joint test (`hardware/safety/single_joint_*.py`, `scripts/run_single_joint_hardware_test.py`) | plan, budget, verdict; registers read one by one | armed and acceleration writes, dry run, three diagnostics | one motor, another terminal | writes near the confirmed start; a verdict speaks of the servo as it is |
| Shadow mode (`shadow_mode_runner.py`) | one step | observation → policy → gate → MuJoCo | cameras, follower (read only), policy | PASS only of a step that was checked |

### What observes the arms

| Component | State | Operations | Talks to | What makes it correct |
|---|---|---|---|---|
| Hardware state server (`hardware/state_server/`, `scripts/run_hardware_state_server.py`) | last good sample, error count and connected flag per arm, one lock | poll, `/state`, `/health`, connect, start, stop, disconnect | two serial readers, HTTP clients, status printer | an answer put together from two critical sections is consistent |
| Viewer and client (`simulation/mujoco/live_web_viewer.py`, `remote_state_client.py`, `follower_safe_mapper.py`, `simulation/realism/so101_realistic_control.py`) | shared snapshot, watchdog, fatal latch, latency queue, mapped command | network loop, frames | state server | moves for readings that were recent, in their order; nothing in range leaves it; the mapped command never jumps |
| Safety events (`safety_event_tracker.py`) | open and completed events | observe, finalize twice | render thread, main thread | every sample in one event, once |
| Safe ranges (`data_collection/teleop_safe_range_analysis.py`, `joint_range_diagnostics.py`) | a JSON file | judge, hash, load, write; search for runs | directories that change meanwhile | a range given out was visited |

### Tools

Remote diagnosis and its analysis of differences (`remote_diagnostic.py`,
`diagnostic_analysis.py`), measured and watched teleoperation
(`hardware/diagnostics/`), recording of episodes, building and replay of datasets
(`data_collection/`, `dataset_action_replay.py`), the judgement of a rollout
(`pick_drop_eval.py`), the layer before MuJoCo (`so101_realistic_control.py`) and
the comparison of policies (`run_mujoco_full_rollout_benchmark.py`).

### Left out

Batch summaries of teleoperation, offline analysis, report builders, recorded
data, MuJoCo physics and assets: batch computations and real-valued numerics
without interacting state. `PROJECT.json` lists every component with what of it
is modelled.

## 2. The hard behaviours

- The loop takes its time, reads the follower, then takes a buffer snapshot;
  the worker publishes and evicts in between.
- The quarantine of rejected chunks is pruned against every snapshot, so a
  rejected number leaves it again.
- `stop()` signals and joins with a timeout; the join may give up, raise, and
  leave a live thread behind, and the callers swallow that exception.
- Worker, loop and main thread share one lock around the serial bus reads, without
  a timeout; a read may raise or hang, and then whoever reads next waits for ever.
- `publish()` and the update of the health counters are two critical sections.
- Ctrl-C reaches the main thread between any two of its steps; sequential mode
  makes a new child while an old loop may still be alive.
- A capture thread abandoned by `close()` goes on delivering frames after a reopen.
- A request that timed out is sent again although the server may execute both;
  all sessions share one queue of actions.
- The guard intersects intervals of velocities that may be empty and does not
  notice; its memory is committed before the gate decides and before the write.
- The state server answers from two critical sections and clock readings per arm
  while its poller goes on, and closes the ports under a poller that it gave up on.
- The viewer sees ages computed by another machine, over calls that are delayed,
  repeated or lost, of servers that restart in another mode; its latency queue
  keeps commands over a hold.
- Registers of a servo are read one by one while it moves, trips or is commanded;
  directories are hashed, then read, while they change.
- Two terminals may start the test of the same joint; a receipt survives the
  process it was earned in.
- A crash falls between saving the data of an episode and its label.

`PROJECT.json` lists each of these as a hazard, at its line, with the properties
that would catch it.

## 3. Modules

```
TrajectoryChunk -> TrajectoryBuffer -> InferenceWorker -> ControlLoop
                                                             |
   CommandStream <-- refinement -- RealtimeControl <---------+
                                        |
                                  RealtimeSession -> (twice, INSTANCE) RealtimeModes

TickScheduler, CameraSource, SessionMonitor, SequentialChunks,
TrajectoryBuffer, StagedRollout, (INSTANCE) StatePoller         -> RuntimeThreads
VlaService, SingleJoint, ControlTarget -> MCControlTarget       -> MotorWriters
StatePoller, CameraSource, RemoteViewer, SafetyEvents,
JointDiagnosis, SafeRanges                                      -> Observers
RemoteDiagnostic, DifferenceAnalyzer, InstrumentedTeleop,
EpisodeRecording, TickDiagnostics, PickDropEval, DatasetReplay,
RealisticControl -> ShadowMode -> RolloutBenchmark,
ShadowTeleop, DatasetBuild                                      -> Tools
```

The first group composes components that interact: each module adds the
variables and actions of one component and says what its actions leave alone.
`RuntimeThreads`, `MotorWriters`, `Observers` and `Tools` put modules that share no
variable into one run: a variable `part` says whose behaviour this is, the
others stay as they are at the start. Nothing is lost by that, since no property
relates two of them, and a product of their states would add nothing.

### The runtime

**TrajectoryChunk.** A chunk is its number and two times: when its observation
was `captured` and the origin `obs` of its time axis, which differ when the
worker rebases the chunk. Time is counted in abstract units, so the epsilons of
the float comparisons are gone; `ChunkSize` and `Spacing` are constants, as they
are within a session. The actions themselves are named by index only.

**TrajectoryBuffer.** One action per method, since each is one critical section.
`published` is a history variable: what was accepted since the last `clear`.

**InferenceWorker.** `workerPC` names the points of `_run_one_iteration` where
another thread can come in. `stop()` is `SignalWorkerStop` followed by
`JoinWorker`; a join that times out has no action because it changes nothing.
The number of a request is taken before the capture; failures of the camera,
the read, the prediction and the construction of the chunk all end in
`RecordFailure`. The provider is the one of the real runs, so the read of the
follower takes `stateLock`.

**ControlLoop.** A tick is `TickBegins`, `LoopLocksState`, `LoopReadsState`,
`Plan`, `Decide`, and `WriteExecuted` or `WriteFails`. `Plan` is the buffer
snapshot, the pruning of the quarantine, the call of the generator and the
update of the quarantine: the snapshot is the only thing in it another thread
can influence, so it is one step. Which chunks contribute is computed exactly
(`Contributors`); what the validation, the guard and the gate make of the
numbers is a choice among target, rejection, block and exception
(`ControlTarget` has that state). `rejected`, `lastPrimary` and
`writesAfterStop` are history variables.

**RealtimeControl.** Worker, loop, buffer, lock and clock, under an owner that may
call any `start` or `stop` at any time. That is all the classes demand of their
callers, so that what holds here holds for every script.

**RealtimeSession, RealtimeModes.** The main thread of the realtime script owns
the two threads. `Mode` chooses continuous, single-chunk and sequential runs. A
wait with a timeout may time out whenever its condition is false: no property
depends on the number of seconds. `abandoned` records the threads whose `stop()`
did not complete. In sequential mode one cycle is modelled, with the interrupt
handler and the return to start, which reads under the same lock and writes to
the same motors. `RealtimeModes` holds one instance per mode, each with the
settings the script gives its worker in that mode.

**TickScheduler** is `_run_loop` without its ticks: deadlines, catching up,
resync; ticks and sleeps take any time. **SessionMonitor** is
`_run_monitor_loop` with its counters; the loop records any ticks between two
polls. **SequentialChunks** runs cycle after cycle, where a child is the thread it
has at a time (worker, then loop), how it ends and whether its `stop()` returned. All threads
and the main thread read the follower under `reading`, the lock of
`LockedFollowerStateSource`: a thread may keep it for ever, and the main thread's reads at
the start, at the end of a cycle and in the return wait for it. **CameraSource** knows a
frame by the session (call of `open`) whose capture delivered it.

**CommandStream.** What the runtime promises, without threads, clocks or buffers:
predictions are offered in increasing order; a rejected one is never blended
again; and the newest prediction of the stream does not go back unless a newer
one than that was rejected.

### From the policy to the motors

**VlaService.** A request is a client, a call, its kind and attempt; an
action is known by the call whose observation it was made from. Handlers run on
a pool: `policyLock` keeps inferences apart, resets and acks do not take it, and a
request whose client gave up is executed all the same. `settled` is history: the
calls that were over when their client's last reset was executed.

**ControlTarget.** Positions, velocities and times are integers; the velocity
wanted by the trajectory is an input. `Feasible` is the test of
`intersect_velocity_interval`, with the limits of velocity, acceleration, jerk and lead, and
with what it does when the lowest velocity is above the highest: the two bounds are
sorted, and what lies between them passes. A velocity the guard chooses is any common part of
the wanted ones that passes: that the scale is the largest one is left open, and so is by how much
the jerk limit softens the brake. `MCControlTarget` bounds it for TLC in two parts: all positions and
velocities, where the trajectory pulls the joints one way that may turn from
tick to tick, and all predictions.

**SingleJoint.** Two terminals start the armed test or the acceleration write of
one joint; 80 units are an encoder tick and 91 the step of 0.1 degree, so that
conversions are exact. `int()` of a float is modelled by what it does: towards zero.

**StagedRollout.** Process after process runs one stage; an action is of this
step's observation (`"now"`) or of an earlier one; every read, write, connect,
disconnect and the finally block may raise. With `--vla-mode http` (`viaServer`) an attempt that
timed out is `stray`: the server, which outlives the process, may execute it at any later time,
between a reset and the prediction after it or in another run. `fresh` is history: no earlier prediction
was stray at this step's reset.

### Observers

**StatePoller.** `pc` and `stage` are where the poller is in `poll_once` and
`_poll_arm`, `request` is the answer a request has built so far, `main` where the
script's `main` is. A request locks for each arm and reads the clock after it has
let the lock go. A sample is the number of its poll (known to the model only) and its
timestamp. A `connect` or `disconnect` that fails may leave the port open or
closed: the bus is external. The clock does not go back.

**RemoteViewer.** What the code compares are ages, so ages are the state, each
counted up to the first value that is too old; `real` is history, the true age of
what the server had read, or `Unknown` when its answer was longer than `Timeout` on the way: the
client's timeout bounds connecting and each read of the socket, so that an attempt has no bound here.
`layer` is the realistic layer with its latency queue, whose commands are known by how long
they have waited; a hold leaves it as it is. The mapper begins wherever the arm is, without a look at the
range. One joint stands for all. A `SequenceWatchdog` is asked for the other source too, for display only. **SafetyEvents** knows an event by the frames it was
seen in. **JointDiagnosis** reads registers in the order of each mode, those that come
from a Python set in any order, while the servo goes on living. **SafeRanges**
abstracts a recording to the angles of one joint; the percentiles are the number
of samples left out at either end.

### Tools

One module per tool, each with the same rules: external programs are actions of
their own, a crash may fall between any two writes to a disk, and what a verdict
speaks of is kept as history. `DifferenceAnalyzer` is an online algorithm checked
against what its four detectors stand for, read off the whole series of samples; the length of
its deques (`maxlen`) is left out, since no detector looks back that far.

## 4. Runs

| Run | Configuration | Question |
|---|---|---|
| `control` | `RealtimeControl.cfg` | worker, buffer and loop under an arbitrary owner: books, rejected chunks, last write, refinement of `CommandStream` |
| `control_live` | `RealtimeControlLive.cfg` | with a hold policy: every tick and request ends, both `stop()` take effect |
| `session` | `Session.cfg` | the script in continuous mode and in one sequential cycle, Ctrl-C and hanging threads anywhere |
| `threads` | `RuntimeThreads.cfg` | pace, monitor, sequential cycles, buffer, staged test; every wait for a thread ends |
| `writers` | `MotorWriters.cfg` | the shared policy, the single joint, the guarded targets |
| `observers` | `Observers.cfg` | state server, cameras, viewer, its event log, diagnosis, safe ranges |
| `tools` | `Tools.cfg` | diagnosis, teleoperation, recording, datasets, shadow, comparison |
| `hold_timeout` | `HoldTimeout.cfg` | violated: a hold write renews its own timeout |
| `return_with_loop_alive` | `ReturnWithLoopAlive.cfg` | violated: the return starts although the loop's `stop` timed out |
| `fresh_after_reset` | `FreshAfterReset.cfg` | violated: an action after a reset may be of an older observation |
| `shadow_executes` | `ShadowExecutes.cfg` | violated: a step in shadow passes without executing its action |
| `violation_forever` | `ViolationForever.cfg` | violated: the follower-safe viewer resumes after a violation |

### What the passing runs show

- `control`. The worker never drops a chunk of its own, its counters lag the buffer by
  the chunk being recorded at most, every request is published or counted as failed
  (`WorkerAccounts`). Pruning the quarantine is harmless (`RejectedNeverContributes`): a
  number leaves it only when its chunk is evicted or expired, expiry is final, and numbers
  are never reused. At most one write begins after `stop()`, and a loop that says `STOPPED`
  has no thread, although a tick in progress overwrites `STOPPING`. What is written is a
  stream that goes back to older predictions only below a rejected one.
- `control_live`. The state lock is always released, by raising reads too.
- `session`. The loop lives only between a usable trajectory and the shutdown; a
  single-chunk session executes the admitted chunk only; when every stop succeeded the return
  is alone, and otherwise at most one foreign write falls into it.
- `threads`. After an overrun the loop catches up at most `MaxLag` and never runs faster
  than its period from a resync on (`PaceKept`). A barren session and a persisting fault are stopped within their limit
  and one poll (`MonitorJudges`). Of the loops that can still write through the sequential cycles
  all but the present one were told to stop and outlived their `stop()`, and the present one is told
  before the end is read or the arm is returned (`CyclesInOrder`): a loop that was given up may end its
  tick beside the next cycle or the return. The mode ends unless a thread keeps the state lock for ever
  (`SequentialEnds` in `ThreadsLive`). A stage needs its receipts and stays in its budget; what it sends was made from
  its own observation, its own repeated requests included, unless an earlier prediction was still to be
  executed at its reset; a process that sent something releases the motors before it closes the other
  devices, unless `disconnect()` raises (`StagedSafe`).
- `writers`. A chunk answered is of the observation it was asked for and a reported ack
  has arrived (`PolicyAnswers`); two terminals on one joint both write near their confirmed
  start only (`JointSafe`); on hold the command is within the tracking lead, what is sent is in range
  (`TargetWithinReach`); a moving command that is beyond its lead is turning back as hard as one of the dynamic limits
  allows, and after a gap it restarts gently (`TargetsGentle`). Neither the lead nor the velocity
  limit holds of a moving command, see section 6.
- `observers`. An unmarked follower is at most one poll older than the leader it is answered with
  (`SkewBounded`); nothing bounds how much newer it may be. `/health` is degraded
  only if `/state` marks an arm (`HealthHonest`). The viewer moves only for readings that were recent when a
  frame took them, if the answer was prompt, and in their order, also through the latency queue; the mapped
  command never jumps, and what is in range stays there (`ViewerSafe`). Events, diagnoses and ranges speak of what was there (`ObservedTruly`).
- `tools`. Verdicts and files speak of what was measured and recorded, also after crashes.

### What the violations show

- `hold_timeout`: `_last_valid_tick_time` is set by an executed hold too, so that
  `hold_timeout_s` bounds the gap between two holds, not the time since the trajectory
  ended. The real script uses `NO_WRITE` and is not affected.
- `return_with_loop_alive`: exceptions of both `stop()` calls are swallowed. What still holds
  is `ReturnsUndisturbed`: one foreign write at most.
- `fresh_after_reset`: a request that timed out is sent again while the server may
  still execute the first; executed after the next reset it fills the shared queue.
- `shadow_executes`: with the profile's latency the action is still pending when MuJoCo
  is stepped, so that the follower's state is commanded.
- `violation_forever`: with `--command-source follower-safe` the render loop never looks at the latch.

### Bounds

Every bound is a constant. Bounds of time, numbers and polls stop a counter; no
guard of the code depends on them.

| Run | Bounds | Why enough |
|---|---|---|
| `control` | numbers to 2, 2 slots, chunks of 4 actions, 2 contributors, time 0–3 | blends, expiry while held, eviction of a quarantined chunk, a fallback and a later recovery |
| `control_live` | numbers to 1, time 0–2 | every interleaving at the lock with failing reads and writes |
| `session` | 1 request, time 0–2 or 0–4 | every phase of the main thread against every phase of both threads |
| `threads` | clock to 12 with period 2 and lag 4; limits of the monitor 3, 3 and 2 in a run of 7; 3 cycles; 2 slots; 2 actions per inference | one overrun with and one without resync; each counter reaches its limit alternating with the others; an eviction; two loops given up beside a third; a stray prediction that fills the queue, and one that finds it filled |
| `writers` | 2 clients, 3 calls, 2 attempts; 2 terminals; 2 joints, 2 positions, gaps to 2, lead 3, limits 1 | a late repetition across a reset; both verdicts of each terminal; one joint lagging while the other is ahead, or beyond its lead with crossed intervals |
| `observers` | 3 polls, time 0–2; 2 sessions; 2 readings, positions 0–2 with range 0–1, `Delay` 1; 5 frames with `ClearAfter` 2; one servo change, one unread register; 2 changes of a directory | a follower two polls behind; a command that waits through a hold, a start outside the range; an abandoned camera thread in the next session; an event that closes and a second one |
| `tools` | see `Tools.cfg`: 6 samples, 3 cycles, 2 takes of 2 episodes, 4 ticks with a history of 2, 5 + 5 steps of arm and cube, 3 builds | each detector's window once full and once slid on; a retake and a crash; a history that outran its reader |

In `writers` the trajectory pulls both joints one way, which may turn from
tick to tick, and predictions vary at one position (`MCControlTarget`); the
proofs have neither limit. `PickDropEval` takes its record of arm and cube apart:
each is bounded by itself, since a stage looks at one of them at a time.

### Fairness

`ControlFairness` is weak fairness of each step of a live thread: they are scheduled by
the operating system, the HTTP client has a timeout, and serial reads and writes return or
raise. The state lock is a plain `threading.Lock` without queue, so a waiter only gets
strong fairness: it obtains a lock that is free again and again. Ctrl-C, timeouts, calls of
the owner and the clock get none. `session` assumes less: only the four shutdown steps of the
main thread are fair; reads, writes and requests may hang for ever, and shutdown ends
nevertheless because it takes no lock.

In `threads` each part is fair in its own thread: the ticks end and the sleeper wakes,
the owner of the cameras goes on (its capture threads may hang), the monitor polls, the main thread
of the sequential mode goes on where it does not wait for the state lock (its threads may hang anywhere, and once
each of them was told to stop, it takes the lock once more at most), and the state server's poller and `main` do, but for
the signal that ends it, and requests. The other runs check safety and need none.

The deadlock check is off where a part or process ends (`threads`, `writers`,
`observers`, `tools`, the violations of single tools). In the other runs other readers can always take the
lock, `clear` can always be called, and a finished session stutters.

`TickEnds` says that no path keeps the lock; because the number of requests is bounded it
is no statement about starvation by a worker that takes the lock for ever, which strong
fairness excludes anyway.

## 5. Proofs

The theorems hold for all constants that satisfy the named assumptions of the modules
(`ChunkAssumption`, `BufferAssumption`, `WorkerAssumption`, `LoopAssumption`, ...): sizes
are positive, times and thresholds natural, sets of cameras and clients finite. Bounds of time and numbers
remain constants, of any size.

| Theorem | Module | States for every instance |
|---|---|---|
| `SamplesExist`, `FutureIndices` | `TrajectoryBufferProofs` | both indices an instant is interpolated between exist; `first_future_index` is the exact boundary |
| `BufferCorrect`, `BufferHoldsNewest` | `TrajectoryBufferProofs` | `BufferInvariant`, for every capacity and history of calls |
| `ControlTypes`, `RejectedStaysOut`, `StopsWriting`, `AccountsBalance`, `QuarantineStaysSmall`, `StoppedMeansQuiet`, `HoldComesSecond` | `RealtimeControlProofs` | the safety properties of `control` and `control_live` |
| `RuntimeImplementsStream` | `RealtimeControlProofs` | the refinement `ImplementsCommandStream` |
| `SessionRefinesControl`, `SessionCorrect` | `RealtimeControlProofs` | every step of the session is a step of the control system under some owner; where the main thread is decides which threads there may be |
| `ModesRunWithinSession`, `ModesExecuteAdmitted`, `ModesReturnUndisturbed`, `ModesUseControl` | `ModesProofs` | the safety properties of `session`, in both modes |
| `TicksKeepPace`, `MonitorIsJust`, `OtherLoopsWereGivenUp`, `StagesAreSafe`, `ThreadsTyped` | `RuntimeThreadsProofs` | the safety properties of `threads` |
| `WritersAreTyped`, `JointIsSafe`, `TargetStaysWithinReach`, `TargetsMoveGently`, `PolicyAnswersWhatWasAsked`, `TargetAlwaysWithinReach` | `MotorWritersProofs` | the properties of `writers`; the last one without the limits of `MCControlTarget` |
| `ObserversTyped`, `ConclusionsAreTrue`, `ViewerMovesSafely`, `ObserversServeTruly` | `ObserversProofs` | the properties of `observers`, each for the whole specification |
| `SkewIsBounded`, `HealthIsHonest`, `CamerasAreCoherent` | `ObserversProofs` | the same of the state server and of the cameras alone |
| `DiagnosesAreTrue`, `RangesAreTrue` (lemmas) | `ObserversProofs` | what the invariants of the two scripts say of their results |
| `ToolsTyped`, `DiagnosesHold`, `RecordsHold`, `TeleopsHold`, `SimulationsHold` | `ToolsProofs` | the properties of `tools`, each for the whole specification |
| `DiagIsSafe`, `AnalyzerIsHonest`, ... (lemmas) | `DiagnosticsProofs` | the invariants of the diagnosis, its detectors, both teleoperations and the tick log |

### The arguments

**Rejected chunks.** `RejectedNeverContributes` is not inductive: a command is filled from
chunks that are not quarantined, and nothing in it says that a rejected chunk is either
quarantined or useless. `ControlInvariant` adds:

- `RejectedIsGone`: each rejected number is at most the latest one, and is quarantined,
  or its chunk is not held or already expired at the time of the current tick. Publishing
  preserves it because a new number is above the latest; a new tick because expiry is final
  (`ExpiryIsFinal`); planning because what it prunes is not live at the time of the tick.
- `ThreadShape`: a request in progress has a chunk, a tick that has not planned has no
  command, a dead thread is between two requests or ticks.
- `LastWrite`: after the signal a write belongs to the tick that had begun.
- the buffer's invariant and the types.

`RuntimeInvariant` adds the worker's books (every number is published, discarded, failed or in
progress), what a stopped loop is, and that the quarantine is a subset of the numbers held at
the last snapshot, of which there are at most `MaxChunks`.

**The stream.** That the newest contributor does not go back needs that observation times
increase with the numbers (`ObservationOrder`: the worker is one thread), that of two chunks the
later observed expires later, and that a chunk which covers an instant goes on covering it until it expires;
so a contributor that is missing later was quarantined, and only a newer or equal
one was rejected (`NoWayBack`).

**The session.** `SessionRefinesControl` shows that the main thread's steps are steps of the
owner, so that `RuntimeInvariant` holds in every session; `SessionInvariant` says for each phase of the main
thread which threads may be alive and which chunk was admitted. `ModesProofs` instances both
for the two modes.

**Threads and writers.** Parts share no variable, so `ThreadsInvariant`, `WritersInvariant`,
`ObserversInvariant` and `ToolsInvariant` are conjunctions of one invariant per part, each proved by itself. The monitor's says that each counter counts the ticks of
the present streak; the armed test's (`ArmedWell`) what each terminal may still write at its
place in the script; the target's that a command remembered on hold is within the lead of the position it was made
from, that the guard's clock is running exactly when it remembers a tick, and that the accepted intent is the last
one (`TargetsMoveGently` is then proved of each step, `TargetStepGentle`); the cycles' that a loop which can write is the
present one or was given up; the staged test's that a queue filled behind a fresh reset is of this step; the
policy's that requests in flight were sent (`RequestsWereSent`), results are of calls
(`ResultsAreOfCalls`), an attempt is executed by one handler (`AttemptsAreSingle`), the
lock is held by its holder, acks are those that arrived plus those underway at most
(`AcksAreCounted`), and a call that was over at a reset stays over (`SettledStaysOver`).

**Observers.** The skew of an answer follows from `Accounted`: a view without errors holds
the latest finished poll of its arm, the follower is never more than one poll behind the leader,
and the poller only adds polls between the two views. `HealthHonest` needs
`ServingInvariant`: while the server runs, whatever has delivered a sample is connected, in the
cache and in the views.
The cameras' invariant names the owner of every thread and
every frame (`ThreadsOwned`, `FramesOwned`) and says that a late frame is its thread's last.

The viewer's ages are honest (`AgesHonest`): an age that is not too old counts all but the
way of the answer, which is part of the true age if the answer was prompt. What waits in the latency queue is in
the order of its readings, and each was recent when a frame put it there. An event's books (`KeyBooks`) relate, for each
key, the frames seen to the samples of the completed events and of the one that goes on:
they cover each other, no two events share a frame, those of one event are dense and those of
two are `ClearAfter` apart; the report lacks at most the frame observed after it.

The diagnosis's (`Told`, `Summed`, `StatusTold`) says that a register that was read agrees
with the servo as it is now, unless the servo changed after the first read was begun; that
parameters, which do not change, agree always; that without failed reads nothing that was asked is
missing; and that a Status read last is the one that is there at the end. Each verdict then follows
from the registers it is drawn from, and a dry run's PASS from the conditions of the armed plan.

The books of the ranges' analysis (`AnalysisBooks`) say that what was loaded or is to be is of the
recordings that are left when those of equal content are dropped; those have different frames
(`DifferentFrames`), so that the samples that are counted are as many as the frames. That the
percentiles of what is written exist and were seen is shown by counting (`PercentileExists`), with least
and greatest elements from well-foundedness. The search for runs keeps (`SearchBooks`) that the runs
found so far, with the one that goes on, cover exactly the frames outside before the current one, and that
none of them touches another.

**Tools.** What the diagnosis needs beside its properties is that each kind of trouble that is to count
has left its mark on a counter (`TroublesCounted`), since the verdict looks at counters only.

The detectors are related to the whole series of samples: the run that is remembered began
where the sign last changed (`RunFrom`), the remembered signs are those of the last intervals
(`SignsAre`), and of each report of opposite directions, either it is still in force or a whole memory
without any has passed since (`SignInForce`). The proof corrected the model here:
`SignReportsSeparated` used to ask for a clean memory of intervals that are all later than the earlier report.
That holds for the small window of the run, not for the code's (memory 16, window 5, count 3): a
report may come only when the window has filled, with its opposite intervals some way back, and
the clean memory that follows then begins before the report and ends after it.

That the moving hint of `EndIndex` finds the end it would find from the start rests
on times that rise: the last sample within the lookahead never moves back (`EndsGrow`), so the hint,
which is the end of an earlier one, is never behind it (`HintIsHarmless`), whatever is skipped.
The tick log's invariant says that both threads hold the last records before an index (`HistoryIsTheLast`,
`PolledWasTheLast`), that of one tick there is one record, and that between two polls no more was lost than
the history holds (`NothingLost`).

Of a recording, where `record()` is says what its two attributes are (`MarksByPhase`), of which take the
episodes on disk are (`EpisodesOfTakes`) and which keys were pressed in the take (`KeysOfTheTake`). Of the
builds, each copy is of a version between the snapshot and the source (`Copies65`, `Copies69`), since
versions only grow: when both ends agree at the check, so does the copy. A success of a rollout is
unfolded from the latches of the stages; replay and shadow mode keep what each stage behind has
settled (`EventsSay`, `StagesBehind`, `DecisionStands`). The layer's queue is the end of what was given
(`WaitingIsTheEnd`) and its output lies between two commands it has seen (`OutputBetween`); inside a rollout
those are the rollout's own since the last reset (`LayerIsOwn`).

### Only model-checked

Liveness (`StopsTakeEffect`, `TickEnds`, `RequestSettles`, `ShutdownEnds`, `ThreadsLive`), which
is out of the prover's reach. Every other property of a passing run is proved.

## 6. Not modelled, and what the model showed besides

Left out of the modelled parts: joint values where no property compares them, formatting and
layout of reports, tokens and URLs, argument parsing, calibration files, MuJoCo. `PROJECT.json` says for each
component what is missing. Two hazards have no property: the age of a rebased chunk (the code
hides it on purpose), and the ages of raw ticks.

Places where code and text differ that are no counterexample to a property of a run:

*Runtime.*
- A rejected blend quarantines its newest contributor only; the docstring
  (`runtime/laptop/realtime_control_loop.py:32`) says all, the comment at `:450` gives the reason.
- The guard integrates a virtual position, the docstring (`motion_guard.py:38`) says it starts from the measured one.
- Its docstring says "Velocity, acceleration and jerk constraints are intersected as scalar intervals" and encoders
  "bound tracking lead" (`motion_guard.py:340`), but an empty intersection is not noticed (`:421`). With a lag of
  −4, a lead limit of 2, a velocity limit of 1 and +5 wanted, the code moves at 2 without braking and stays beyond the lead;
  after a velocity of 1 and an acceleration of 0.8 the jerk limit alone lets 1.7 pass. An invariant that bounds
  the lead or the velocity of every valid target is violated in this model; what holds is
  `HeldWithinLead`, `FinalWithinReach` and `LeftByMomentumOnly`.
- "Strict OBS -> INFER -> EXECUTE -> HOLD cycles" (`scripts/run_real_pick_drop_realtime.py:852`) is not so when a loop's
  `stop()` times out: the child prints a warning, and the next cycle begins beside that loop. That no loop but the present one
  is alive is violated in `SequentialChunks`, for the cause of run `return_with_loop_alive`.
- A loop that hangs in a read of the follower keeps its lock; the main thread then waits for ever, at the end of the cycle,
  at the start or at any read of the return (`scripts/run_real_pick_drop_realtime.py:766`, `:795`, `:830`, `:840`, `:965`).
  `SequentialEnds` is stated under the premise that the lock is free again and again. A read that raises
  inside the return leaves `run()` with it: no report is made (`:840`).
- Alternating kinds of faults keep both of the monitor's counters below their limits
  (`scripts/run_real_pick_drop_realtime.py:544`, the comment at `:153`); `MonitorJudges` is stated per kind.
- The tick log skips a gap when the history of 3600 ticks outruns the monitor
  (`diagnostic_jsonl_logger.py:51`); Ctrl-C within a line can write it twice.
- The state server's `stop()` forgets its poller after a join of two seconds
  (`hardware/state_server/state_service.py:165`; `docs/hardware_state_server.md:171` says it waits).

*Motors.*
- A receipt of an earlier process is accepted however old
  (`scripts/run_real_follower_staged_safety_test.py:423`).
- −0.1° are two ticks and +0.1° one, since `int()` truncates; a PASS can be against the asked
  direction if the joint moves between the two reads at the start.
- In shadow mode the ack precedes the execution, the age of the state is checked once, and
  the gate's step clamp can leave the range.

*Observers.*
- The latency queue of the realistic layer keeps what waited when a hold began, and the first frame after it follows that
  command (`simulation/realism/so101_realistic_control.py:171`), in order and from a recent time, but not of the present state.
- `timeout_ms` bounds connecting and each read of the socket, not an attempt (`remote_state_client.py:302`,
  `docs/remote_mujoco_diagnostic.md:136`): nothing bounds, or counts, the way of an answer. `MovesOnRecentState` speaks of
  prompt answers only.
- The mapper's first command is the arm's position without a check of the range (`follower_safe_mapper.py:371`), and a hold
  keeps it as the "last safe value" (`:420`).
- An event that is still going on is never reported as `active` (`safety_event_tracker.py:267`).
- Every read-only mode of the joint test exits 0 whatever it found; "no configuration cause found" needs
  no register to have been read; half an override is refused after the hardware was read, and a
  dry run with an override but without calibration raises.
- The safe ranges pool a recording twice if a copy differs in the tasks' column, and the
  file is not written atomically.

*Tools.*
- The remote diagnosis creates a `SequenceWatchdog` it never asks; a bad answer does not
  reset the count of good ones after a pause (`docs/remote_mujoco_diagnostic.md:222`); a failure of the recorder can still PASS.
- The detector of wrong signs remembers 16 samples, its documentation speaks of 5.
- Replay with `--start-frame` above 0 is always BLOCKED (`docs/mujoco_action_replay.md:105`), and a NaN can PASS.
- With latency the last commands of each chunk of a rollout are never executed.
- Dataset builds only report differences in the columns beside the task, leave an old
  `summary.json` after a failed rebuild, and do not count the cameras in `all_ok`.
- The script that generates the control profile takes the file name that sorts last for the latest
  one; its confidence can be HIGH from one run.

## 7. What could follow

A model of a second client of the state lock that hangs, for the return to start; a bound on the age
of a rebased chunk, once requests have durations.
