--------------------------- MODULE TrajectoryChunk ---------------------------
(***************************************************************************)
(* The time arithmetic of one action chunk predicted by the VLA policy     *)
(* (runtime/laptop/trajectory_chunk.py) and the coverage test the temporal *)
(* ensembler applies to it (runtime/laptop/temporal_ensemble.py).          *)
(*                                                                         *)
(* Time is a number of clock units.  A chunk is a record           *)
(*   seq       the worker's request number                                 *)
(*   captured  when the observation behind the chunk was really taken      *)
(*   obs       observation_time_monotonic, the origin of the time axis     *)
(* captured is the capture_monotonic_time of the snapshot; obs equals it   *)
(* unless the worker rebased the chunk to its publication time.  Every     *)
(* chunk of a session has the same size and spacing, so these are          *)
(* constants, and an action is named by its index.                         *)
(***************************************************************************)
EXTENDS Integers

CONSTANTS
  ChunkSize,      \* chunk_size: actions per chunk
  Spacing,        \* chunk_index_spacing_s: time between two actions
  MaxChunkAge,    \* max_chunk_age_ms; "None" is any value >= ChunkSize * Spacing
  MaxTime,        \* bound of the model: the clock stops here
  MaxSequence     \* bound of the model: the last request number

ASSUME ChunkAssumption ==
  /\ ChunkSize \in Nat \ {0}
  /\ Spacing \in Nat \ {0}
  /\ MaxChunkAge \in Nat
  /\ MaxTime \in Nat
  /\ MaxSequence \in Nat

Time == 0..MaxTime
Sequence == 0..MaxSequence
Chunk == [seq : Sequence, captured : Time, obs : Time]

NominalTargetTime(c, k) == c.obs + k * Spacing

\* The last instant at which an action of the chunk really exists.
LastSampleTime(c) == NominalTargetTime(c, ChunkSize - 1)

\* first_future_index, with ChunkSize standing for None.
FirstFutureIndex(c, t) ==
  IF t < c.obs THEN 0 ELSE ((t - c.obs) \div Spacing) + 1

RemainingFutureCount(c, t) ==
  IF FirstFutureIndex(c, t) >= ChunkSize THEN 0 ELSE ChunkSize - FirstFutureIndex(c, t)

IsExpired(c, t) ==
  \/ RemainingFutureCount(c, t) = 0
  \/ t - c.obs > MaxChunkAge

\* TemporalEnsembler._covers: T lies in the sampled range of the chunk.
Covers(c, t) == c.obs <= t /\ t <= LastSampleTime(c)

\* TemporalEnsembler._sample_action_at: the indices interpolated between.
LowerIndex(c, t) == (t - c.obs) \div Spacing
UpperIndex(c, t) ==
  LowerIndex(c, t) + (IF (t - c.obs) % Spacing = 0 THEN 0 ELSE 1)
=============================================================================
