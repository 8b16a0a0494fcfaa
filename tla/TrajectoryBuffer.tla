-------------------------- MODULE TrajectoryBuffer --------------------------
(***************************************************************************)
(* TrajectoryBuffer (runtime/laptop/trajectory_buffer.py): the only state  *)
(* the inference worker and the 60 Hz control loop share.  Every method is *)
(* one critical section of its lock, hence one step.                       *)
(*                                                                         *)
(* The module is also a specification of its own: any thread may publish   *)
(* any chunk, in any order, and clear the buffer.                          *)
(***************************************************************************)
EXTENDS TrajectoryChunk, Sequences, FiniteSets

CONSTANT MaxChunks      \* max_chunks of the deque

ASSUME BufferAssumption == MaxChunks \in Nat \ {0}

VARIABLES
  chunks,             \* _chunks, oldest first
  latestSequence,     \* _latest_sequence
  published           \* history: the chunks accepted since the last clear()

bufferVars == <<chunks, latestSequence, published>>

\* None: the worker refuses a negative initial_sequence, so -1 is no number
\* of a chunk and is below every one.
NoSequence == -1

Held == {chunks[i] : i \in DOMAIN chunks}

\* valid_chunks(now): what is held and not expired at t.
ValidChunks(t) == {c \in Held : ~IsExpired(c, t)}

SequencesOf(C) == {c.seq : c \in C}

-----------------------------------------------------------------------------
BufferInit ==
  /\ chunks = <<>>
  /\ latestSequence = NoSequence
  /\ published = {}

\* Mutant of Accepts: only a repeated number is refused.
AcceptsUnlessEqual(c) == c.seq # latestSequence

\* A number at or below the latest one is discarded as out of order.
Accepts(c) == c.seq > latestSequence

\* Mutant of PublishAccepted: remembers the number it expects next.
PublishExpectingNext(c) ==
  /\ Accepts(c)
  /\ chunks' = Append(IF Len(chunks) = MaxChunks THEN Tail(chunks) ELSE chunks, c)
  /\ latestSequence' = c.seq + 1
  /\ published' = published \cup {c}

\* Mutant of PublishAccepted: a full deque makes room at the wrong end.
PublishEvictingNewest(c) ==
  /\ Accepts(c)
  /\ chunks' = Append(IF Len(chunks) = MaxChunks THEN SubSeq(chunks, 1, MaxChunks - 1) ELSE chunks, c)
  /\ latestSequence' = c.seq
  /\ published' = published \cup {c}

PublishAccepted(c) ==
  /\ Accepts(c)
  /\ chunks' = Append(IF Len(chunks) = MaxChunks THEN Tail(chunks) ELSE chunks, c)
  /\ latestSequence' = c.seq
  /\ published' = published \cup {c}

PublishDiscarded(c) ==
  /\ ~Accepts(c)
  /\ UNCHANGED bufferVars

Publish(c) == PublishAccepted(c) \/ PublishDiscarded(c)

\* Mutant of Clear: the deque is emptied, the latest number survives.
ClearKeepingLatest ==
  /\ chunks' = <<>>
  /\ published' = {}
  /\ UNCHANGED latestSequence

Clear ==
  /\ chunks' = <<>>
  /\ latestSequence' = NoSequence
  /\ published' = {}

-----------------------------------------------------------------------------
BufferNext ==
  \/ \E c \in Chunk : Publish(c)
  \/ Clear

BufferSpec == BufferInit /\ [][BufferNext]_bufferVars

-----------------------------------------------------------------------------
(***************************************************************************)
(* Correctness of the buffer.                                              *)
(***************************************************************************)
BufferTypeOK ==
  /\ chunks \in Seq(Chunk)
  /\ latestSequence \in Sequence \cup {NoSequence}
  /\ published \subseteq Chunk

\* The chunks are held in strictly increasing order of their numbers: a late
\* answer never lands behind a newer one.
Ordered == \A i, j \in DOMAIN chunks : i < j => chunks[i].seq < chunks[j].seq

\* What is held is exactly the newest part of what was accepted, at most
\* MaxChunks of it: eviction takes the oldest number, and nothing that is
\* newer than a held chunk is ever missing.
HoldsNewest ==
  /\ Held \subseteq published
  /\ Len(chunks) <= MaxChunks
  /\ \A c \in published \ Held : Len(chunks) = MaxChunks /\ \A d \in Held : c.seq < d.seq

\* latest() agrees with the number later publications are compared with.
LatestIsLast ==
  /\ chunks = <<>> <=> latestSequence = NoSequence
  /\ chunks # <<>> => latestSequence = chunks[Len(chunks)].seq

BufferInvariant == BufferTypeOK /\ Ordered /\ HoldsNewest /\ LatestIsLast
=============================================================================
