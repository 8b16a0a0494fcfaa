----------------------- MODULE TrajectoryBufferProofs -----------------------
(***************************************************************************)
(* The indices a chunk is read at, and the trajectory buffer: it keeps its *)
(* chunks ordered, keeps exactly the newest of them and agrees with its    *)
(* latest number, for every capacity, chunk size and history of calls.     *)
(***************************************************************************)
EXTENDS TrajectoryBuffer, TLAPS

(***************************************************************************)
(* One chunk.                                                              *)
(***************************************************************************)
\* Whole steps of Spacing below x, and what is left over.
LEMMA Floor ==
  ASSUME NEW x \in Nat
  PROVE  /\ x \div Spacing \in Nat
         /\ x % Spacing \in 0..(Spacing - 1)
         /\ x = (x \div Spacing) * Spacing + (x % Spacing)
BY ChunkAssumption

\* A larger index is at least one whole Spacing later.
LEMMA StepsApart ==
  ASSUME NEW a \in Int, NEW b \in Int, a < b
  PROVE  a * Spacing + Spacing <= b * Spacing
<1>1. (b - a - 1) * Spacing >= 0
  BY ChunkAssumption
<1>2. (b - a - 1) * Spacing = b * Spacing - a * Spacing - Spacing
  BY ChunkAssumption
<1> QED BY <1>1, <1>2, ChunkAssumption

\* TemporalEnsembler samples only what exists: at every instant a chunk covers
\* both indices it interpolates between are indices of the chunk.
THEOREM SamplesExist ==
  ASSUME NEW c \in Chunk, NEW t \in Int, Covers(c, t)
  PROVE  /\ LowerIndex(c, t) \in 0..(ChunkSize - 1)
         /\ UpperIndex(c, t) \in 0..(ChunkSize - 1)
<1> DEFINE x == t - c.obs
           q == x \div Spacing
           r == x % Spacing
<1>1. /\ ChunkSize \in Nat \ {0} /\ Spacing \in Nat \ {0} /\ c.obs \in Int
      /\ (ChunkSize - 1) * Spacing \in Int
  BY ChunkAssumption DEF Chunk, Time
<1>2. x \in Nat /\ x <= (ChunkSize - 1) * Spacing
  BY <1>1 DEF Covers, LastSampleTime, NominalTargetTime
<1>3. q \in Nat /\ r \in 0..(Spacing - 1) /\ x = q * Spacing + r
  BY <1>2, Floor
<1>4. LowerIndex(c, t) = q /\ UpperIndex(c, t) = q + (IF r = 0 THEN 0 ELSE 1)
  BY DEF LowerIndex, UpperIndex
<1> HIDE DEF x, q, r
<1>5. q * Spacing \in Int
  BY <1>1, <1>3
<1>6. q <= ChunkSize - 1
  <2> SUFFICES ASSUME ChunkSize - 1 < q PROVE FALSE
    BY <1>1, <1>3
  <2>1. (ChunkSize - 1) * Spacing + Spacing <= q * Spacing
    BY <1>1, <1>3, StepsApart
  <2> QED BY <2>1, <1>1, <1>2, <1>3, <1>5
<1>7. r # 0 => q # ChunkSize - 1
  BY <1>1, <1>2, <1>3, <1>5
<1> QED BY <1>1, <1>3, <1>4, <1>6, <1>7

\* first_future_index is the exact boundary: the actions before it are not in
\* the future of t, and those from it on are.
THEOREM FutureIndices ==
  ASSUME NEW c \in Chunk, NEW t \in Int, NEW k \in 0..(ChunkSize - 1)
  PROVE  NominalTargetTime(c, k) > t <=> k >= FirstFutureIndex(c, t)
<1> DEFINE x == t - c.obs
           q == x \div Spacing
           r == x % Spacing
<1>1. /\ Spacing \in Nat \ {0} /\ c.obs \in Int /\ k \in Nat
      /\ k * Spacing \in Nat
  BY ChunkAssumption DEF Chunk, Time
<1>2. CASE t < c.obs
  BY <1>1, <1>2 DEF FirstFutureIndex, NominalTargetTime
<1>3. CASE t >= c.obs
  <2>1. x \in Nat
    BY <1>1, <1>3
  <2>2. q \in Nat /\ r \in 0..(Spacing - 1) /\ x = q * Spacing + r
    BY <2>1, Floor
  <2>3. FirstFutureIndex(c, t) = q + 1
    BY <1>1, <1>3 DEF FirstFutureIndex
  <2>4. NominalTargetTime(c, k) > t <=> k * Spacing > x
    BY <1>1 DEF NominalTargetTime
  <2> HIDE DEF x, q, r
  <2>5. q * Spacing \in Int /\ x \in Int
    BY <1>1, <2>1, <2>2
  <2>6. CASE k > q
    <3>1. q * Spacing + Spacing <= k * Spacing
      BY <1>1, <2>2, <2>6, StepsApart
    <3> QED BY <3>1, <2>2, <2>3, <2>4, <2>5, <2>6, <1>1
  <2>7. CASE k <= q
    <3>1. k * Spacing <= q * Spacing
      <4>1. CASE k = q
        BY <4>1, <1>1
      <4>2. CASE k < q
        BY <4>2, <1>1, <2>2, <2>5, StepsApart
      <4> QED BY <4>1, <4>2, <2>7, <1>1, <2>2
    <3> QED BY <3>1, <2>2, <2>3, <2>4, <2>5, <2>7, <1>1
  <2> QED BY <2>6, <2>7, <1>1, <2>2
<1> QED BY <1>1, <1>2, <1>3

-----------------------------------------------------------------------------
(***************************************************************************)
(* The buffer.                                                             *)
(***************************************************************************)
\* Accepting a chunk above the latest number preserves the invariant, whether
\* or not the deque was full.
LEMMA AcceptedPreserves ==
  ASSUME BufferInvariant, NEW c \in Chunk, PublishAccepted(c)
  PROVE  BufferInvariant'
<1> DEFINE kept == IF Len(chunks) = MaxChunks THEN Tail(chunks) ELSE chunks
<1> USE BufferAssumption
<1>1. /\ chunks \in Seq(Chunk)
      /\ latestSequence \in Sequence \cup {NoSequence}
      /\ published \subseteq Chunk
      /\ Len(chunks) <= MaxChunks
  BY DEF BufferInvariant, BufferTypeOK, HoldsNewest
<1>2. /\ chunks' = Append(kept, c)
      /\ latestSequence' = c.seq
      /\ published' = published \cup {c}
      /\ c.seq > latestSequence
  BY DEF PublishAccepted, Accepts
<1>3. /\ c.seq \in Sequence
      /\ \A d \in Chunk : d.seq \in Int
      /\ c.seq \in Int /\ latestSequence \in Int
  BY <1>1, ChunkAssumption DEF Chunk, Sequence, NoSequence
<1>4. /\ kept \in Seq(Chunk)
      /\ Len(kept) < MaxChunks
      /\ Len(chunks) = MaxChunks => /\ Len(kept) = Len(chunks) - 1
                                    /\ \A i \in 1..Len(kept) : kept[i] = chunks[i + 1]
      /\ Len(chunks) # MaxChunks => kept = chunks
  BY <1>1
<1>5. /\ chunks' \in Seq(Chunk)
      /\ Len(chunks') = Len(kept) + 1
      /\ \A i \in 1..Len(kept) : chunks'[i] = kept[i]
      /\ chunks'[Len(kept) + 1] = c
  BY <1>2, <1>4
<1> HIDE DEF kept
<1>6. \* everything that was held is older than the new chunk
      \A i \in 1..Len(chunks) : chunks[i] \in Chunk /\ chunks[i].seq < c.seq
  <2> SUFFICES ASSUME NEW i \in 1..Len(chunks)
               PROVE  chunks[i] \in Chunk /\ chunks[i].seq < c.seq
    OBVIOUS
  <2>1. chunks # <<>> /\ chunks[i] \in Chunk /\ chunks[Len(chunks)] \in Chunk
    BY <1>1
  <2>2. latestSequence = chunks[Len(chunks)].seq
    BY <2>1 DEF BufferInvariant, LatestIsLast
  <2>3. CASE i = Len(chunks)
    BY <2>1, <2>2, <2>3, <1>2
  <2>4. CASE i < Len(chunks)
    <3>1. chunks[i].seq < chunks[Len(chunks)].seq
      BY <1>1, <2>4 DEF BufferInvariant, Ordered
    <3> QED BY <3>1, <2>1, <2>2, <1>2, <1>3
  <2> QED BY <2>3, <2>4, <1>1
<1>7. BufferTypeOK'
  BY <1>1, <1>2, <1>3, <1>5 DEF BufferTypeOK
<1>8. \* what is kept was held before, in the same order
      \A i \in 1..Len(kept) : \E k \in 1..Len(chunks) : kept[i] = chunks[k]
  BY <1>1, <1>4
<1>9. Ordered'
  <2> SUFFICES ASSUME NEW i \in 1..Len(chunks'), NEW j \in 1..Len(chunks'), i < j
               PROVE  chunks'[i].seq < chunks'[j].seq
    BY <1>5 DEF Ordered
  <2>1. i \in 1..Len(kept) /\ chunks'[i] = kept[i]
    BY <1>4, <1>5
  <2>2. CASE j = Len(kept) + 1
    BY <2>1, <2>2, <1>5, <1>6, <1>8
  <2>3. CASE j # Len(kept) + 1
    <3>1. j \in 1..Len(kept) /\ chunks'[j] = kept[j]
      BY <2>3, <1>4, <1>5
    <3>2. kept[i].seq < kept[j].seq
      <4>1. CASE Len(chunks) = MaxChunks
        <5>1. /\ i + 1 \in 1..Len(chunks) /\ j + 1 \in 1..Len(chunks) /\ i + 1 < j + 1
              /\ kept[i] = chunks[i + 1] /\ kept[j] = chunks[j + 1]
          BY <4>1, <1>1, <1>4, <2>1, <3>1
        <5> QED BY <5>1, <1>1 DEF BufferInvariant, Ordered
      <4>2. CASE Len(chunks) # MaxChunks
        BY <4>2, <1>1, <1>4, <2>1, <3>1 DEF BufferInvariant, Ordered
      <4> QED BY <4>1, <4>2
    <3> QED BY <3>1, <3>2, <2>1
  <2> QED BY <2>2, <2>3
<1>10. HoldsNewest'
  <2>1. Held' = {kept[i] : i \in 1..Len(kept)} \cup {c}
    BY <1>4, <1>5 DEF Held
  <2>2. {kept[i] : i \in 1..Len(kept)} \subseteq Held
    BY <1>1, <1>8 DEF Held
  <2>3. Held' \subseteq published'
    BY <2>1, <2>2, <1>2 DEF BufferInvariant, HoldsNewest
  <2>4. Len(chunks') <= MaxChunks
    BY <1>4, <1>5
  <2>5. ASSUME NEW p \in published', p \notin Held'
        PROVE  Len(chunks') = MaxChunks /\ \A d \in Held' : p.seq < d.seq
    <3>1. p \in published /\ p # c /\ p \in Chunk
      BY <2>1, <2>5, <1>1, <1>2
    <3>2. CASE p \in Held
      <4>1. PICK k \in 1..Len(chunks) : p = chunks[k]
        BY <3>2, <1>1 DEF Held
      <4>2. Len(chunks) = MaxChunks
        <5> SUFFICES ASSUME Len(chunks) # MaxChunks PROVE FALSE
          OBVIOUS
        <5> QED BY <4>1, <1>4, <2>1, <2>5
      <4>3. k = 1
        <5> SUFFICES ASSUME k # 1 PROVE FALSE
          OBVIOUS
        <5>1. k - 1 \in 1..Len(kept) /\ kept[k - 1] = chunks[k]
          BY <4>1, <4>2, <1>1, <1>4
        <5> QED BY <5>1, <4>1, <2>1, <2>5
      <4>4. \A i \in 1..Len(kept) : p.seq < kept[i].seq
        <5> SUFFICES ASSUME NEW i \in 1..Len(kept) PROVE p.seq < kept[i].seq
          OBVIOUS
        <5>1. i + 1 \in 1..Len(chunks) /\ 1 < i + 1 /\ kept[i] = chunks[i + 1]
          BY <4>2, <1>1, <1>4
        <5> QED BY <5>1, <4>1, <4>3, <1>1 DEF BufferInvariant, Ordered
      <4> QED BY <4>1, <4>2, <4>4, <1>4, <1>5, <1>6, <2>1
    <3>3. CASE p \notin Held
      <4>1. Len(chunks) = MaxChunks /\ \A d \in Held : p.seq < d.seq
        BY <3>1, <3>3 DEF BufferInvariant, HoldsNewest
      <4>2. Len(chunks) \in 1..Len(chunks) /\ chunks[Len(chunks)] \in Held
        BY <4>1, <1>1 DEF Held
      <4>3. p.seq < c.seq
        BY <4>1, <4>2, <3>1, <1>3, <1>6
      <4> QED BY <4>1, <4>3, <1>4, <1>5, <2>1, <2>2
    <3> QED BY <3>2, <3>3
  <2> QED BY <2>3, <2>4, <2>5 DEF HoldsNewest
<1>11. LatestIsLast'
  <2>1. chunks' # <<>> /\ chunks'[Len(chunks')] = c
    BY <1>4, <1>5
  <2>2. latestSequence' # NoSequence
    BY <1>2, <1>3, ChunkAssumption DEF Sequence, NoSequence
  <2> QED BY <2>1, <2>2, <1>2 DEF LatestIsLast
<1> QED BY <1>7, <1>9, <1>10, <1>11 DEF BufferInvariant

\* Emptying the deque and forgetting the latest number keeps the invariant.
LEMMA ClearPreserves == Clear => BufferInvariant'
  BY BufferAssumption
  DEF Clear, BufferInvariant, BufferTypeOK, Ordered, HoldsNewest, LatestIsLast, Held

\* A discarded publication and a stutter change nothing.
LEMMA UnchangedPreserves ==
  ASSUME BufferInvariant, UNCHANGED bufferVars
  PROVE  BufferInvariant'
  BY DEF bufferVars, BufferInvariant, BufferTypeOK, Ordered, HoldsNewest, LatestIsLast, Held

\* The empty buffer satisfies the invariant.
LEMMA BufferInitInvariant == BufferInit => BufferInvariant
  BY BufferAssumption
  DEF BufferInit, BufferInvariant, BufferTypeOK, Ordered, HoldsNewest, LatestIsLast, Held

\* Whatever is published in whatever order, and whenever the buffer is
\* cleared, it is well typed, ordered by sequence number, holds exactly the
\* newest accepted chunks and knows the number of the last one
\* (TrajectoryBuffer.publish and clear).
THEOREM BufferCorrect == BufferSpec => []BufferInvariant
<1>1. BufferInvariant /\ [BufferNext]_bufferVars => BufferInvariant'
  <2> SUFFICES ASSUME BufferInvariant, [BufferNext]_bufferVars PROVE BufferInvariant'
    OBVIOUS
  <2>1. CASE \E c \in Chunk : Publish(c)
    <3>1. PICK c \in Chunk : Publish(c)
      BY <2>1
    <3> QED BY <3>1, AcceptedPreserves, UnchangedPreserves DEF Publish, PublishDiscarded
  <2>2. CASE Clear
    BY <2>2, ClearPreserves
  <2>3. CASE UNCHANGED bufferVars
    BY <2>3, UnchangedPreserves
  <2> QED BY <2>1, <2>2, <2>3 DEF BufferNext
<1> QED BY <1>1, BufferInitInvariant, PTL DEF BufferSpec

\* Eviction takes only the oldest chunk, and nothing newer than a held chunk is
\* ever missing (TrajectoryBuffer.publish with a bounded deque).
THEOREM BufferHoldsNewest == BufferSpec => []HoldsNewest
<1>1. BufferInvariant => HoldsNewest
  BY DEF BufferInvariant
<1> QED BY <1>1, BufferCorrect, PTL
=============================================================================
