--------------------------- MODULE SessionMonitor ---------------------------
(***************************************************************************)
(* The monitor loop of RealtimeSessionOrchestrator                         *)
(* (scripts/run_real_pick_drop_realtime.py, _run_monitor_loop): every      *)
(* tenth of a second the main thread looks at the last record of the       *)
(* control loop and at the health of the worker, and decides whether the   *)
(* session goes on.  One unit of time is the interval of a poll.           *)
(*                                                                         *)
(* The control loop records any number of ticks between two polls; a tick  *)
(* is known by what the monitor can tell apart:                            *)
(*   "written"       productive, and the writer executed                   *)
(*   "refused"       productive, but the writer did not execute            *)
(*   "unproductive"  one of _NONPRODUCTIVE_STATE_NAMES, nothing written    *)
(*   "held"          the same, with a write of a hold policy               *)
(*   "readFault", "fault", "writerFault"  FAULT                            *)
(***************************************************************************)
EXTENDS Naturals

CONSTANTS
  SanityWindow,         \* DEFAULT_SANITY_WINDOW_S
  FatalNonproductive,   \* FATAL_NONPRODUCTIVE_S
  FatalFaults,          \* FATAL_CONSECUTIVE_FAULT_TICKS
  FatalReads,           \* FATAL_CONSECUTIVE_STATE_READ_FAILURES
  ChunkEnd,             \* the horizon of the single chunk
  MaxRuntime,           \* max_runtime_s
  MaxDelay              \* bound: how late a poll can be

ASSUME MonitorAssumption ==
  /\ {SanityWindow, ChunkEnd, MaxRuntime} \subseteq Nat
  /\ {FatalNonproductive, FatalFaults, FatalReads, MaxDelay} \subseteq Nat \ {0}

FatalInference == 3 * FatalNonproductive

VARIABLES
  verdict,        \* "watching", or the StopReason
  watched,        \* elapsed time
  single,         \* single_chunk
  record,         \* the last ControlTickRecord, or "none"
  anyWrite,       \* writer.write_count > 0
  lastSuccess,    \* last_inference_success
  sanityChecked,
  unproductiveSince, \* nonproductive_since: a time + 1, or 0 for None
  faultCount,     \* consecutive_fault_ticks
  readCount,      \* consecutive_state_read_failures
  streak          \* history: what every tick since when has been

monitorVars == <<verdict, watched, single, record, anyWrite, lastSuccess, sanityChecked,
                 unproductiveSince, faultCount, readCount, streak>>

Faults == {"readFault", "fault", "writerFault"}
Unproductive == {"unproductive", "held"}
TickKinds == {"written", "refused"} \cup Unproductive \cup Faults
Written == {"written", "held"}

\* What a tick tells about the arm; a fault is of one family whatever raised it.
FamilyOf(kind) == CASE kind \in Unproductive -> "unproductive"
                    [] kind \in Faults -> "fault"
                    [] OTHER -> "productive"

MonitorInit ==
  /\ verdict = "watching" /\ watched = 0
  /\ single \in BOOLEAN
  /\ record = "none" /\ anyWrite = FALSE /\ lastSuccess = 0
  /\ sanityChecked = FALSE /\ unproductiveSince = 0
  /\ faultCount = 0 /\ readCount = 0
  /\ streak = [family |-> "none", kind |-> "none", since |-> 0]

-----------------------------------------------------------------------------
(***************************************************************************)
(* The two threads that are watched.                                       *)
(***************************************************************************)
MonitorSeesTick(kind) ==
  /\ verdict = "watching"
  /\ record' = kind
  /\ anyWrite' = (anyWrite \/ kind \in Written)
  /\ streak' = [family |-> FamilyOf(kind),
                kind |-> IF streak.family # FamilyOf(kind) \/ streak.kind = kind THEN kind ELSE "mixed",
                since |-> IF streak.family = FamilyOf(kind) THEN streak.since ELSE watched]
  /\ UNCHANGED <<verdict, watched, single, lastSuccess, sanityChecked, unproductiveSince,
                 faultCount, readCount>>

\* The worker of a single-chunk session has been stopped.
InferenceSucceeds ==
  /\ verdict = "watching" /\ ~single
  /\ lastSuccess' = watched
  /\ UNCHANGED <<verdict, watched, single, record, anyWrite, sanityChecked, unproductiveSince,
                 faultCount, readCount, streak>>

-----------------------------------------------------------------------------
(***************************************************************************)
(* One pass of the loop.                                                   *)
(***************************************************************************)
\* Mutant of ReadsInARow: another fault does not reset the count.
ReadsBetweenFaults ==
  IF record = "readFault" THEN readCount + 1 ELSE IF record \in {"none", "fault"} THEN readCount ELSE 0

ReadsInARow == IF record = "readFault" THEN readCount + 1 ELSE IF record = "none" THEN readCount ELSE 0

\* Mutant of FaultsInARow: the same record counts for nothing.
FaultsNotRepeated == IF record = "fault" /\ faultCount = 0 THEN 1 ELSE 0

FaultsInARow == IF record = "fault" THEN faultCount + 1 ELSE IF record = "none" THEN faultCount ELSE 0

\* Mutant of UnproductiveStart: every poll starts it anew.
UnproductiveNow == IF record \in Unproductive THEN watched + 1 ELSE 0

UnproductiveStart ==
  IF record \in Unproductive THEN IF unproductiveSince = 0 THEN watched + 1 ELSE unproductiveSince
  ELSE IF record = "none" THEN unproductiveSince ELSE 0

SanityIsDue == ~sanityChecked /\ watched >= SanityWindow

LongUnproductive ==
  /\ record \in Unproductive /\ unproductiveSince # 0
  /\ watched - (unproductiveSince - 1) >= FatalNonproductive

\* The alternatives in the order of the code: each is reached if none before it
\* has returned.
FatalOfRecord ==
  IF SanityIsDue /\ ~anyWrite THEN "SANITY_WINDOW_FATAL"
  ELSE IF record = "writerFault" THEN "WRITER_EXCEPTION_FATAL"
  ELSE IF record = "readFault" /\ ReadsInARow >= FatalReads THEN "STATE_READ_FAILURE_FATAL"
  ELSE IF record = "fault" /\ FaultsInARow >= FatalFaults THEN "CONSECUTIVE_FAULT_FATAL"
  ELSE IF LongUnproductive THEN "NONPRODUCTIVE_FATAL"
  ELSE "none"

\* Mutant of Decision: the end of the chunk is not looked at.
DecisionWithoutChunkEnd ==
  IF FatalOfRecord # "none" THEN FatalOfRecord
  ELSE IF watched - lastSuccess >= FatalInference THEN "INFERENCE_UNRECOVERABLE_FATAL"
  ELSE IF watched >= MaxRuntime THEN "NORMAL_MAX_RUNTIME"
  ELSE "watching"

Decision ==
  IF FatalOfRecord # "none" THEN FatalOfRecord
  ELSE IF single /\ watched >= ChunkEnd /\ record \in Unproductive THEN "SINGLE_CHUNK_COMPLETE"
  ELSE IF watched - lastSuccess >= FatalInference THEN "INFERENCE_UNRECOVERABLE_FATAL"
  ELSE IF watched >= MaxRuntime THEN "NORMAL_MAX_RUNTIME"
  ELSE "watching"

\* The pass, and the sleep until the next one.
Poll ==
  /\ verdict = "watching"
  /\ verdict' = Decision
  /\ sanityChecked' = (sanityChecked \/ SanityIsDue)
  /\ unproductiveSince' = UnproductiveStart
  /\ faultCount' = FaultsInARow
  /\ readCount' = ReadsInARow
  /\ \E delay \in 1 .. MaxDelay : watched' = IF verdict' = "watching" THEN watched + delay ELSE watched
  /\ UNCHANGED <<single, record, anyWrite, lastSuccess, streak>>

\* Ctrl-C anywhere in the loop.
InterruptMonitor ==
  /\ verdict = "watching"
  /\ verdict' = "KEYBOARD_INTERRUPT"
  /\ UNCHANGED <<watched, single, record, anyWrite, lastSuccess, sanityChecked, unproductiveSince,
                 faultCount, readCount, streak>>

MonitorNext ==
  \/ \E kind \in TickKinds : MonitorSeesTick(kind)
  \/ InferenceSucceeds \/ Poll \/ InterruptMonitor

MonitorSpec == MonitorInit /\ [][MonitorNext]_monitorVars /\ WF_monitorVars(Poll)

-----------------------------------------------------------------------------
MonitorTypeOK ==
  /\ verdict \in {"watching", "SANITY_WINDOW_FATAL", "WRITER_EXCEPTION_FATAL", "STATE_READ_FAILURE_FATAL",
                  "CONSECUTIVE_FAULT_FATAL", "NONPRODUCTIVE_FATAL", "SINGLE_CHUNK_COMPLETE",
                  "INFERENCE_UNRECOVERABLE_FATAL", "NORMAL_MAX_RUNTIME", "KEYBOARD_INTERRUPT"}
  /\ watched \in 0 .. MaxRuntime + MaxDelay
  /\ record \in TickKinds \cup {"none"}
  /\ unproductiveSince \in 0 .. watched + 1 /\ lastSuccess \in 0 .. watched
  /\ faultCount \in 0 .. FatalFaults /\ readCount \in 0 .. FatalReads
  /\ faultCount = 0 \/ readCount = 0

Watching == verdict = "watching"

\* An arm that nothing was written to, or that only reported nonproductive
\* states, is watched for less than the limit and the delay of one poll.
BarrenSessionStops ==
  Watching =>
    /\ ~anyWrite => watched < SanityWindow + MaxDelay
    /\ streak.family = "unproductive" =>
         watched - streak.since < FatalNonproductive + MaxDelay

\* A fault that persists, always the same way, is fatal: the counters count
\* polls, so that a loop hanging after a single fault is stopped as well.
OneFaultPersistingStops ==
  Watching /\ streak.family = "fault" /\ streak.kind \in Faults =>
    watched - streak.since <= (IF streak.kind = "fault" THEN FatalFaults ELSE FatalReads) * MaxDelay

\* In a single-chunk session the end of the chunk is a normal end: it is fatal
\* only when the arm had stopped moving well before the chunk was over.
ChunkEndIsNormal ==
  single /\ verdict = "NONPRODUCTIVE_FATAL" =>
    unproductiveSince - 1 < ChunkEnd

\* Every session ends, whatever the two threads do or do not do.
MonitorEnds == <>(~Watching)
=============================================================================
