-------------------------- MODULE RolloutBenchmark --------------------------
(***************************************************************************)
(* Policies compared in MuJoCo (run_mujoco_full_rollout_benchmark.py):     *)
(* rollouts one after the other with one chunk runner, on the primary      *)
(* track synchronised with a real episode before every chunk               *)
(* (primary_replay_rollout.py), on the synthetic one closed over the       *)
(* simulation (rollout_env.py).  Every action goes through the safety gate *)
(* and the realistic layer.  One joint stands for all.                     *)
(***************************************************************************)
EXTENDS ShadowMode

CONSTANTS
  ChunkLength,  \* actions of a chunk
  Chunks,       \* chunks an episode is long; the last may go beyond its end
  RollSteps,    \* max_steps of the synthetic track
  Rollouts,     \* bound: rollouts of a benchmark
  Poses,        \* angles the simulated joint starts from
  Wishes        \* angles the policy asks for

ASSUME RolloutAssumption ==
  {ChunkLength, Chunks, RollSteps, Rollouts} \subseteq Nat \ {0} /\ Poses \union Wishes \subseteq Int

VARIABLES
  rollout,     \* which rollout it is, 0 before the first
  track,       \* "primary" or "synthetic"
  rollAt,      \* "between", "running", "ended" (the benchmark), "raised"
  chunkLeft,       \* actions of the chunk not yet executed, with the rollout they are of
  predicted,   \* chunks predicted in this rollout
  joint,       \* where the simulated joint is
  layer,       \* the realistic layer's channel
  origin,      \* what the layer was last reset to, and at which step
  records,     \* step_records with both logs
  rows         \* rows for the tables: how each rollout ended

rollVars == <<rollout, track, rollAt, chunkLeft, predicted, joint, layer, origin, records, rows>>

RollInit ==
  /\ rollout = 0 /\ track = "primary" /\ rollAt = "between" /\ chunkLeft = <<>> /\ predicted = 0
  /\ joint \in Poses /\ layer = Emptied(FALSE, joint) /\ origin = [pose |-> joint, step |-> 1]
  /\ records = <<>> /\ rows = <<>>

Synchronised(pose) ==
  joint' = pose /\ layer' = Emptied(FALSE, pose) /\ origin' = [pose |-> pose, step |-> Len(records') + 1]

\* The queue keeps what the rollout before has left in it.
BeginRolloutUncleared ==
  /\ rollAt = "between" /\ rollout < Rollouts
  /\ rollout' = rollout + 1 /\ rollAt' = "running" /\ predicted' = 0 /\ records' = <<>>
  /\ track' \in {"primary", "synthetic"}
  /\ \E pose \in Poses : Synchronised(pose)
  /\ UNCHANGED <<chunkLeft, rows>>

\* Everything is made anew except the runner, which is reset.
BeginRollout ==
  /\ rollAt = "between" /\ rollout < Rollouts
  /\ rollout' = rollout + 1 /\ rollAt' = "running" /\ predicted' = 0 /\ records' = <<>>
  /\ track' \in {"primary", "synthetic"}
  /\ chunkLeft' = <<>>
  /\ \E pose \in Poses : Synchronised(pose)
  /\ UNCHANGED rows

Chunk == {[i \in 1 .. ChunkLength |-> [wish |-> f[i], of |-> rollout]] :
            f \in [1 .. ChunkLength -> Wishes]}

\* A frame of the episode is given to the policy: the joint is put where it was there
\* and the layer begins anew.
NextFrame ==
  /\ rollAt = "running" /\ track = "primary" /\ chunkLeft = <<>> /\ predicted < Chunks
  /\ chunkLeft' \in Chunk /\ predicted' = predicted + 1
  /\ UNCHANGED records
  /\ \E pose \in Poses : Synchronised(pose)
  /\ UNCHANGED <<rollout, track, rollAt, rows>>

\* next_queued_action(): a new chunk from where the simulation is, when none is left.
Refill ==
  /\ rollAt = "running" /\ track = "synthetic" /\ chunkLeft = <<>> /\ Len(records) < RollSteps
  /\ chunkLeft' \in Chunk /\ predicted' = predicted + 1
  /\ UNCHANGED <<rollout, track, rollAt, joint, layer, origin, records, rows>>

Exhausted ==
  IF track = "primary" THEN chunkLeft = <<>> /\ predicted = Chunks ELSE Len(records) = RollSteps

\* What the policy asks for, the gate on where the joint is now, the layer by the clock
\* of the simulation, and the physics some of the way.  The log keeps the gate's action.
RollStep ==
  /\ rollAt = "running" /\ chunkLeft # <<>> /\ ~Exhausted
  /\ LET wish == Head(chunkLeft)
         gate == JointSafety(wish.wish, joint)
         now == Len(records)
     IN  IF gate.rejected
         THEN /\ records' = Append(records, [kind |-> "REJECT", safe |-> joint, applied |-> joint,
                                             of |-> wish.of])
              /\ rows' = Append(rows, "safety_reject") /\ rollAt' = "between"
              /\ UNCHANGED <<joint, layer>>
         ELSE /\ layer' = Processed(layer, gate.safe, now, joint)
              /\ joint' \in {joint, layer'.out}
              /\ records' = Append(records, [kind |-> "STEP", safe |-> gate.safe,
                                             applied |-> layer'.out, of |-> wish.of])
              /\ UNCHANGED <<rows, rollAt>>
  /\ chunkLeft' = Tail(chunkLeft)
  /\ UNCHANGED <<rollout, track, predicted, origin>>

EndRollout ==
  /\ rollAt = "running" /\ Exhausted
  /\ rows' = Append(rows, "exhausted") /\ rollAt' = "between"
  /\ UNCHANGED <<rollout, track, chunkLeft, predicted, joint, layer, origin, records>>

\* The tables are written when all rollouts are done; whatever raises before leaves none.
WriteTables ==
  /\ rollAt = "between" /\ rollout = Rollouts /\ rollAt' = "ended"
  /\ UNCHANGED <<rollout, track, chunkLeft, predicted, joint, layer, origin, records, rows>>
RolloutRaises ==
  /\ rollAt = "running" /\ rollAt' = "raised"
  /\ UNCHANGED <<rollout, track, chunkLeft, predicted, joint, layer, origin, records, rows>>

RollNext ==
  \/ BeginRollout \/ NextFrame \/ Refill \/ RollStep \/ EndRollout \/ WriteTables \/ RolloutRaises
RollSpec ==
  RollInit /\ ShadowInit /\ CtlInit
  /\ [][RollNext /\ UNCHANGED <<shadowVars, ctlVars>>]_<<rollVars, shadowVars, ctlVars>>

-----------------------------------------------------------------------------
(* The types of the benchmark's state.                                     *)
RollTypeOK ==
  /\ rollout \in 0 .. Rollouts /\ track \in {"primary", "synthetic"}
  /\ rollAt \in {"between", "running", "ended", "raised"}
  /\ Len(chunkLeft) <= ChunkLength /\ Len(rows) <= rollout
  /\ Len(records) <= IF track = "primary" THEN Chunks * ChunkLength ELSE RollSteps

\* Since the layer was last reset, what MuJoCo is given lies between the joint's
\* position then and the commands of this chunk that are as old as the delay: nothing
\* of an earlier chunk, episode or rollout is carried over.
OnlyOwnCommands ==
  \A i \in origin.step .. Len(records) :
    LET due == {origin.pose} \union {records[k].safe : k \in {k \in origin.step .. i : i - k >= Delay}}
    IN  records[i].kind = "STEP" =>
          /\ records[i].of = rollout
          /\ Min(due) <= records[i].applied /\ records[i].applied <= Max(due)

\* Every rollout that is over has a row that says how it ended, which its last record
\* confirms; a rejection is the last thing that happens in it.
RowsAreTrue ==
  /\ \A i \in DOMAIN records : records[i].kind = "REJECT" => i = Len(records)
  /\ rollAt = "between" /\ rollout > 0 =>
       /\ Len(rows) = rollout
       /\ rows[rollout] = "safety_reject" <=>
            (records # <<>> /\ records[Len(records)].kind = "REJECT")
  /\ rollAt = "ended" => Len(rows) = Rollouts

RolloutSafe == OnlyOwnCommands /\ RowsAreTrue
=============================================================================
