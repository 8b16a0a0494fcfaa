----------------------------- MODULE ControlLoop -----------------------------
(***************************************************************************)
(* RealTimeFollowerControlLoop (runtime/laptop/realtime_control_loop.py)   *)
(* running beside the inference worker: the 60 Hz thread that reads the    *)
(* follower, asks the target generator for a target from the buffered      *)
(* chunks, and writes it to the motors.                                    *)
(*                                                                         *)
(* What the generator (realtime_control_target.py) does with the numbers   *)
(* is one nondeterministic outcome per tick; which chunks it uses is not:  *)
(* it is the selection of TemporalEnsembler.                               *)
(*                                                                         *)
(* A tick is cut where another thread can come in: at the state lock, at   *)
(* the buffer snapshot, before the health snapshot, and while the write    *)
(* to the motors is in progress.                                           *)
(***************************************************************************)
EXTENDS InferenceWorker

CONSTANTS
  MaxContributors,      \* max_contributors, + 1 under phase_continuity
  Lookahead,            \* lookahead_s of the generator
  HoldPolicy,           \* hold_policy
  HoldTimeout,          \* hold_timeout_s
  DegradedThreshold     \* inference_degraded_threshold

ASSUME LoopAssumption ==
  /\ MaxContributors \in Nat \ {0}
  /\ Lookahead \in Nat
  /\ HoldPolicy \in {"NO_WRITE", "HOLD_LAST_COMMANDED", "HOLD_MEASURED"}
  /\ HoldTimeout \in Nat
  /\ DegradedThreshold \in Nat

VARIABLES
  loopThread,     \* _thread: "none", "alive" or "ended"
  loopStop,       \* _stop_event
  loopState,      \* _state, with the reason WRITER_FAULT told from other faults
  loopPC,         \* where the thread is in _run_loop / _do_tick
  actualStart,    \* actual_start of the tick
  quarantine,     \* _quarantined_sequences
  outcome,        \* what the generator answered in this tick
  lastValid,      \* _last_valid_tick_time
  command,        \* the write of this tick: path, contributing sequences, state
  rejected,       \* history: every sequence ever quarantined
  lastPrimary,    \* history: the last target written by the generator
  writesAfterStop \* history: writes begun since stop() was last signalled

loopControl == <<loopThread, loopStop, loopState>>
loopTick == <<loopPC, actualStart, quarantine, outcome, lastValid, command>>
loopHistory == <<rejected, lastPrimary, writesAfterStop>>
loopVars == <<loopControl, loopTick, loopHistory>>

NoCommand == [path |-> "none", seqs |-> {}, state |-> "FAULT"]
Never == -1     \* None in _last_valid_tick_time

States == {"STARTING", "RUNNING", "NO_TRAJECTORY", "STALE_TRAJECTORY",
           "INTENT_BLOCKED", "SAFETY_BLOCKED", "INFERENCE_DEGRADED",
           "STOPPING", "STOPPED", "FAULT", "WRITER_FAULT"}

\* Mutant of StateOf: the stop reason of the generator is shown as the state.
StateOfReason == [TARGET |-> "RUNNING", NO_TARGET |-> "NO_TRAJECTORY",
                  STALE |-> "STALE_TRAJECTORY", INTENT |-> "INTENT_BLOCKED",
                  SAFETY |-> "SAFETY_REJECT", FAULT |-> "FAULT"]

\* _compute_state, of the outcome of the generator.
StateOf == [TARGET |-> "RUNNING", NO_TARGET |-> "NO_TRAJECTORY",
            STALE |-> "STALE_TRAJECTORY", INTENT |-> "INTENT_BLOCKED",
            SAFETY |-> "SAFETY_BLOCKED", FAULT |-> "FAULT"]

-----------------------------------------------------------------------------
(***************************************************************************)
(* TemporalEnsembler: of the chunks that cover t, the MaxContributors with *)
(* the latest observations; the sort is stable, and the buffer is in the   *)
(* order of the sequences.                                                 *)
(***************************************************************************)
Precedes(c, d) == c.obs > d.obs \/ (c.obs = d.obs /\ c.seq < d.seq)

Contributors(C, t) ==
  LET covering == {c \in C : Covers(c, t)}
  IN  {c \in covering :
         Cardinality({d \in covering : Precedes(d, c)}) < MaxContributors}

Newest(S) == CHOOSE s \in S : \A r \in S : r <= s

-----------------------------------------------------------------------------
LoopInit ==
  /\ loopThread = "none"
  /\ loopStop = FALSE
  /\ loopState = "STARTING"
  /\ loopPC = "check"
  /\ actualStart = 0
  /\ quarantine = {}
  /\ outcome = "FAULT"
  /\ lastValid = Never
  /\ command = NoCommand
  /\ rejected = {}
  /\ lastPrimary = [seqs |-> {}, at |-> Never]
  /\ writesAfterStop = 0

-----------------------------------------------------------------------------
(***************************************************************************)
(* The owner of the loop.                                                  *)
(***************************************************************************)
\* Mutant of StartLoop: the state of the previous thread is kept.
StartLoopKeepingState ==
  /\ loopThread # "alive"
  /\ loopThread' = "alive"
  /\ loopStop' = FALSE
  /\ loopPC' = "check"
  /\ writesAfterStop' = 0
  /\ UNCHANGED <<loopState, actualStart, quarantine, outcome, lastValid, command,
                 rejected, lastPrimary>>
  /\ UNCHANGED wvars

StartLoop ==
  /\ loopThread # "alive"
  /\ loopThread' = "alive"
  /\ loopStop' = FALSE
  /\ loopState' = "STARTING"
  /\ loopPC' = "check"
  /\ writesAfterStop' = 0
  /\ UNCHANGED <<actualStart, quarantine, outcome, lastValid, command, rejected, lastPrimary>>
  /\ UNCHANGED wvars

SignalLoopStop ==
  /\ loopState' = IF loopState = "STOPPED" THEN "STOPPED" ELSE "STOPPING"
  /\ loopStop' = TRUE
  /\ UNCHANGED <<loopThread, loopTick, loopHistory>>
  /\ UNCHANGED wvars

\* join() succeeds; when it times out stop() raises and changes nothing more.
JoinLoop ==
  /\ loopStop
  /\ loopThread # "alive"
  /\ loopThread' = "none"
  /\ loopState' = "STOPPED"
  /\ UNCHANGED <<loopStop, loopTick, loopHistory>>
  /\ UNCHANGED wvars

-----------------------------------------------------------------------------
(***************************************************************************)
(* One tick of the thread.                                                 *)
(***************************************************************************)
LoopAt(pc) == loopThread = "alive" /\ loopPC = pc

LoopExits ==
  /\ LoopAt("check")
  /\ loopStop
  /\ loopThread' = "ended"
  /\ loopState' = "STOPPED"
  /\ UNCHANGED <<loopStop, loopTick, loopHistory>>
  /\ UNCHANGED wvars

\* Mutant of TickBegins: the thread looks at the stop event only to exit.
TickBeginsAnyway ==
  /\ LoopAt("check")
  /\ actualStart' = now
  /\ loopPC' = "lock"
  /\ UNCHANGED <<loopControl, quarantine, outcome, lastValid, command, loopHistory>>
  /\ UNCHANGED wvars

\* The time of the tick is taken before the follower is read.
TickBegins ==
  /\ LoopAt("check")
  /\ ~loopStop
  /\ actualStart' = now
  /\ loopPC' = "lock"
  /\ UNCHANGED <<loopControl, quarantine, outcome, lastValid, command, loopHistory>>
  /\ UNCHANGED wvars

LoopLocksState ==
  /\ LoopAt("lock")
  /\ stateLock = "free"
  /\ stateLock' = "loop"
  /\ loopPC' = "read"
  /\ UNCHANGED <<loopControl, actualStart, quarantine, outcome, lastValid, command, loopHistory>>
  /\ UNCHANGED <<now, workerVars, bufferVars>>

\* Mutant of LoopReadsState: a read that raises keeps the lock.
LoopReadsKeepingLock ==
  /\ LoopAt("read")
  /\ \/ loopPC' = "plan" /\ stateLock' = "free" /\ UNCHANGED outcome
     \/ loopPC' = "decide" /\ outcome' = "FAULT" /\ UNCHANGED stateLock
  /\ UNCHANGED <<loopControl, actualStart, quarantine, lastValid, command, loopHistory>>
  /\ UNCHANGED <<now, workerVars, bufferVars>>

\* The read succeeds, or raises: then the tick is a FAULT without a target.
LoopReadsState ==
  /\ LoopAt("read")
  /\ stateLock' = "free"
  /\ \/ loopPC' = "plan" /\ UNCHANGED outcome
     \/ loopPC' = "decide" /\ outcome' = "FAULT"
  /\ UNCHANGED <<loopControl, actualStart, quarantine, lastValid, command, loopHistory>>
  /\ UNCHANGED <<now, workerVars, bufferVars>>

\* Mutant of Live: the quarantine is applied before it is pruned.
LiveAfterExclusion == {s \in SequencesOf(ValidChunks(actualStart)) : s \notin quarantine}

\* Mutant of Live: the quarantine is never pruned.
LiveForever == Sequence

\* The buffer snapshot, the pruned quarantine and the chunks left.
Live == SequencesOf(ValidChunks(actualStart))
Pruned == quarantine \cap Live
\* Mutant of Candidates: quarantined chunks are only reported.
CandidatesUnfiltered == ValidChunks(actualStart)

Candidates == {c \in ValidChunks(actualStart) : c.seq \notin Pruned}
Contributing == SequencesOf(Contributors(Candidates, actualStart + Lookahead))

\* generator.tick returns a target, or says that no chunk is left, or that
\* none of them covers the time asked for.
PlansTarget ==
  /\ outcome' = IF Candidates = {} THEN "NO_TARGET"
                ELSE IF Contributing = {} THEN "STALE" ELSE "TARGET"
  /\ quarantine' = Pruned
  /\ command' = [NoCommand EXCEPT !.seqs = Contributing]
  /\ UNCHANGED rejected

\* Intent validation rejects the target for its schema, its mechanical range
\* or a gross step: the newest contributor is quarantined, and only that one.
PlansRejection ==
  /\ Contributing # {}
  /\ outcome' = "INTENT"
  /\ quarantine' = Pruned \cup {Newest(Contributing)}
  /\ rejected' = rejected \cup {Newest(Contributing)}
  /\ UNCHANGED command

\* Mutant of PlansBlock: whatever blocks the target quarantines its chunk.
PlansBlockQuarantining ==
  /\ Contributing # {}
  /\ outcome' \in {"INTENT", "SAFETY"}
  /\ quarantine' = Pruned \cup {Newest(Contributing)}
  /\ UNCHANGED <<rejected, command>>

\* Intent WOULD_CLAMP, an invalid motion guard, a safety gate that refuses.
PlansBlock ==
  /\ Contributing # {}
  /\ outcome' \in {"INTENT", "SAFETY"}
  /\ quarantine' = Pruned
  /\ UNCHANGED <<rejected, command>>

\* generator.tick raises.
PlansFault ==
  /\ outcome' = "FAULT"
  /\ quarantine' = Pruned
  /\ UNCHANGED <<rejected, command>>

Plan ==
  /\ LoopAt("plan")
  /\ loopPC' = "decide"
  /\ PlansTarget \/ PlansRejection \/ PlansBlock \/ PlansFault
  /\ UNCHANGED <<loopControl, actualStart, lastValid, lastPrimary, writesAfterStop>>
  /\ UNCHANGED wvars

\* Mutant of HoldAllowed: a loop that never wrote may hold.
HoldAllowedAtOnce ==
  /\ outcome \in {"NO_TARGET", "STALE"}
  /\ HoldPolicy # "NO_WRITE"
  /\ actualStart - lastValid <= HoldTimeout

\* _compute_hold_candidate.
HoldAllowed ==
  /\ outcome \in {"NO_TARGET", "STALE"}
  /\ HoldPolicy # "NO_WRITE"
  /\ lastValid # Never
  /\ actualStart - lastValid <= HoldTimeout

\* The state of the tick is computed before the write, and published after it.
TickState ==
  IF outcome = "TARGET" /\ health.failures >= DegradedThreshold
  THEN "INFERENCE_DEGRADED" ELSE StateOf[outcome]

CountWrite == writesAfterStop' = writesAfterStop + (IF loopStop THEN 1 ELSE 0)

BeginWrite(path, seqs) ==
  /\ command' = [path |-> path, seqs |-> seqs, state |-> TickState]
  /\ loopPC' = "write"
  /\ CountWrite

\* The record is appended and the state of the tick published.
EndTick(state) ==
  /\ loopState' = state
  /\ command' = NoCommand
  /\ loopPC' = "check"

DecidesPrimary ==
  /\ outcome = "TARGET"
  /\ BeginWrite("primary", command.seqs)
  /\ UNCHANGED loopState

\* ... and _revalidate_for_hold accepted the candidate.
DecidesHold ==
  /\ HoldAllowed
  /\ BeginWrite("hold", {})
  /\ UNCHANGED loopState

DecidesNoWrite ==
  /\ outcome # "TARGET"
  /\ EndTick(TickState)
  /\ UNCHANGED writesAfterStop

\* The answer of the generator is used up; the next tick has none yet.
Decide ==
  /\ LoopAt("decide")
  /\ DecidesPrimary \/ DecidesHold \/ DecidesNoWrite
  /\ outcome' = "FAULT"
  /\ UNCHANGED <<loopThread, loopStop, actualStart, quarantine, lastValid, rejected, lastPrimary>>
  /\ UNCHANGED wvars

WriteExecuted ==
  /\ LoopAt("write")
  /\ lastValid' = actualStart
  /\ lastPrimary' = IF command.path = "primary"
                    THEN [seqs |-> command.seqs, at |-> actualStart] ELSE lastPrimary
  /\ EndTick(command.state)
  /\ UNCHANGED <<loopThread, loopStop, actualStart, quarantine, outcome, rejected, writesAfterStop>>
  /\ UNCHANGED wvars

\* The writer answered that it did not execute, or raised.
WriteFails ==
  /\ LoopAt("write")
  /\ EndTick(command.state) \/ EndTick("WRITER_FAULT")
  /\ UNCHANGED <<loopThread, loopStop, actualStart, quarantine, outcome, lastValid, loopHistory>>
  /\ UNCHANGED wvars

LoopStep ==
  \/ TickBegins \/ LoopLocksState \/ LoopReadsState \/ Plan \/ Decide
  \/ WriteExecuted \/ WriteFails \/ LoopExits

OwnsLoop == StartLoop \/ SignalLoopStop \/ JoinLoop
=============================================================================
