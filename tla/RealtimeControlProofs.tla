------------------------ MODULE RealtimeControlProofs ------------------------
(***************************************************************************)
(* What the inference worker and the control loop guarantee together, for  *)
(* every value of the constants and however their owner starts and stops   *)
(* them: first the chunks a write may be blended from and the writes after *)
(* stop(), then, over that invariant, the books of the worker, the bound   *)
(* of the quarantine and the order of the loop's states, and that all of   *)
(* it implements the command stream.  Last what the main thread of a real  *)
(* run adds, in every mode: the session is one way to own the two threads, *)
(* so that everything proved of RealtimeControl holds of it, and the order *)
(* in which it starts, admits and stops them decides who may write to the  *)
(* motors.                                                                 *)
(***************************************************************************)
EXTENDS RealtimeSession, TrajectoryBufferProofs, NaturalsInduction, WellFoundedInduction,
        FiniteSetTheorems

(***************************************************************************)
(* Expiry of a chunk.                                                      *)
(***************************************************************************)

\* Integer division is monotone: a later time never has an earlier index.
LEMMA DivisionMonotone ==
  ASSUME NEW a \in Nat, NEW b \in Nat, NEW s \in Nat \ {0}, a <= b
  PROVE  a \div s \in Nat /\ b \div s \in Nat /\ a \div s <= b \div s
OBVIOUS

\* A chunk that has expired stays expired: the quarantine may forget it
\* (TimestampedActionChunk.is_expired).
LEMMA ExpiryIsFinal ==
  ASSUME NEW c \in Chunk, NEW t \in Time, NEW u \in Time, t <= u, IsExpired(c, t)
  PROVE  IsExpired(c, u)
<1> USE ChunkAssumption
<1>1. c.obs \in Nat /\ t \in Nat /\ u \in Nat
  BY DEF Chunk, Time
<1>2. CASE t - c.obs > MaxChunkAge
  BY <1>1, <1>2 DEF IsExpired
<1>3. CASE RemainingFutureCount(c, t) = 0
  <2>1. /\ FirstFutureIndex(c, t) \in Int /\ FirstFutureIndex(c, u) \in Int
        /\ FirstFutureIndex(c, t) <= FirstFutureIndex(c, u)
    <3>1. CASE u < c.obs
      BY <1>1, <3>1 DEF FirstFutureIndex
    <3>2. CASE t < c.obs /\ ~(u < c.obs)
      <4>1. (u - c.obs) \div Spacing \in Nat
        BY <1>1, <3>2, DivisionMonotone
      <4> QED BY <1>1, <3>2, <4>1 DEF FirstFutureIndex
    <3>3. CASE ~(t < c.obs)
      <4>1. t - c.obs \in Nat /\ u - c.obs \in Nat /\ t - c.obs <= u - c.obs
        BY <1>1, <3>3
      <4>2. /\ (t - c.obs) \div Spacing \in Nat /\ (u - c.obs) \div Spacing \in Nat
            /\ (t - c.obs) \div Spacing <= (u - c.obs) \div Spacing
        BY <4>1, DivisionMonotone
      <4> QED BY <1>1, <3>3, <4>1, <4>2 DEF FirstFutureIndex
    <3> QED BY <3>1, <3>2, <3>3
  <2>2. FirstFutureIndex(c, t) >= ChunkSize
    BY <1>3, <2>1 DEF RemainingFutureCount
  <2>3. FirstFutureIndex(c, u) >= ChunkSize
    BY <2>1, <2>2
  <2> QED BY <2>3 DEF RemainingFutureCount, IsExpired
<1> QED BY <1>2, <1>3 DEF IsExpired

-----------------------------------------------------------------------------
(***************************************************************************)
(* The invariant is preserved by what each module contributes to           *)
(* ControlNext.  The buffer changes only in WorkerPublishes.               *)
(***************************************************************************)
\* The numbers and times of chunks are naturals, and no number is NoSequence.
LEMMA NumbersAreIntegers ==
  /\ Sequence \subseteq Nat /\ Time \subseteq Nat
  /\ NoSequence \in Int /\ Never \in Int
  /\ \A c \in Chunk : c.seq \in Sequence /\ c.obs \in Time /\ c.captured \in Time
  /\ \A s \in Sequence : s \in Int /\ s > NoSequence
BY ChunkAssumption DEF Sequence, Time, Chunk, NoSequence, Never

\* No step of the runtime damages the buffer: only the worker publishes, and
\* what it publishes is a chunk.
LEMMA BufferStep ==
  ASSUME ControlInvariant, [ControlNext]_vars
  PROVE  BufferInvariant'
<1>1. CASE UNCHANGED bufferVars
  BY <1>1, UnchangedPreserves DEF ControlInvariant
<1>2. CASE WorkerPublishes
  <2>1. inflight \in Chunk
    BY <1>2 DEF ControlInvariant, ThreadShape, WorkerPublishes, At
  <2>2. CASE PublishAccepted(inflight)
    BY <2>1, <2>2, AcceptedPreserves DEF ControlInvariant
  <2>3. CASE PublishDiscarded(inflight)
    BY <2>3, UnchangedPreserves DEF ControlInvariant, PublishDiscarded
  <2> QED BY <1>2, <2>2, <2>3 DEF WorkerPublishes, Publish
<1>3. UNCHANGED bufferVars \/ WorkerPublishes
  BY DEF vars, wvars, ControlNext, Threads, Owns, OtherReaders, OwnsWorker, OwnsLoop,
         WorkerStep, LoopStep, ClockTicks, OthersRead, OthersLock, OthersRelease,
         StartWorker, SignalWorkerStop, JoinWorker, WorkerBegins, CameraFails,
         WorkerLocksState, WorkerReadsState, PredictSucceeds, PredictFails, WorkerRecords,
         WorkerExits, StartLoop, SignalLoopStop, JoinLoop, TickBegins, LoopLocksState,
         LoopReadsState, Plan, Decide, WriteExecuted, WriteFails, LoopExits
<1> QED BY <1>1, <1>2, <1>3

\* The worker's own variables keep their types and its thread its shape, in
\* every step of the worker and of its owner.
WorkerShape ==
  /\ workerThread # "alive" => workerPC = "loop"
  /\ workerPC # "loop" => inflight \in Chunk

\* Every step of the worker, of its owner, of other readers and of the clock
\* keeps the types of the worker's variables and the shape of its thread.
LEMMA WorkerStepTypes ==
  ASSUME ControlInvariant, WorkerStep \/ OwnsWorker \/ OthersRead \/ ClockTicks
  PROVE  WorkerTypeOK' /\ WorkerShape'
<1> USE ChunkAssumption, WorkerAssumption
<1>1. WorkerTypeOK /\ WorkerShape
  BY DEF ControlInvariant, ThreadShape, WorkerShape
<1> USE <1>1 DEF WorkerTypeOK, WorkerShape, wvars, workerVars, At
<1>2. CASE WorkerBegins
  <2>1. nextSequence \in Sequence
    BY <1>2 DEF WorkerBegins, Sequence
  <2>2. inflight' \in Chunk
    BY <1>2, <2>1 DEF WorkerBegins, Chunk
  <2> QED BY <1>2, <2>1, <2>2 DEF WorkerBegins, Sequence
<1>3. ASSUME RecordFailure PROVE health' \in Health
  BY <1>3 DEF RecordFailure, Health
<1>4. CASE CameraFails
  BY <1>3, <1>4 DEF CameraFails, RecordFailure
<1>5. CASE WorkerLocksState
  BY <1>5 DEF WorkerLocksState
<1>6. CASE WorkerReadsState
  BY <1>3, <1>6 DEF WorkerReadsState, RecordFailure
<1>7. CASE PredictSucceeds
  <2>1. inflight \in Chunk /\ inflight' \in Chunk
    BY <1>7 DEF PredictSucceeds, Chunk
  <2> QED BY <1>7, <2>1 DEF PredictSucceeds
<1>8. CASE PredictFails
  BY <1>3, <1>8 DEF PredictFails, RecordFailure
<1>9. CASE WorkerPublishes
  BY <1>9 DEF WorkerPublishes
<1>10. CASE WorkerRecords
  <2>1. inflight.seq \in Sequence
    BY <1>10 DEF WorkerRecords, Chunk
  <2>2. health' \in Health
    BY <1>10, <2>1 DEF WorkerRecords, Health
  <2> QED BY <1>10, <2>2 DEF WorkerRecords
<1>11. CASE WorkerExits
  BY <1>11 DEF WorkerExits
<1>12. CASE OwnsWorker
  BY <1>12 DEF OwnsWorker, StartWorker, SignalWorkerStop, JoinWorker
<1>13. CASE OthersRead
  BY <1>13 DEF OthersRead, OthersLock, OthersRelease
<1>14. CASE ClockTicks
  BY <1>14 DEF ClockTicks, Time
<1> QED BY <1>2, <1>4, <1>5, <1>6, <1>7, <1>8, <1>9, <1>10, <1>11, <1>12, <1>13, <1>14
        DEF WorkerStep

-----------------------------------------------------------------------------
(***************************************************************************)
(* The chunks of one tick.                                                 *)
(***************************************************************************)

\* A set of naturals that is not empty has a least element.
LEMMA LeastExists ==
  ASSUME NEW T \in SUBSET Nat, T # {}
  PROVE  \E x \in T : \A y \in T : x <= y
<1> DEFINE R == OpToRel(<, Nat)
<1>1. IsWellFoundedOn(R, Nat)
  BY NatLessThanWellFounded
<1>2. \A y \in Nat, x \in Nat : y < x => <<y, x>> \in R
  BY DEF OpToRel
<1> HIDE DEF R
<1>3. PICK x \in T : \A y \in T : ~ (<<y, x>> \in R)
  BY <1>1, WFMin
<1>4. \A y \in T : ~ (y < x)
  BY <1>2, <1>3
<1> QED BY <1>3, <1>4

\* max() of some sequence numbers is one of them, and no other is larger.
LEMMA NewestIsMaximum ==
  ASSUME NEW S \in SUBSET Sequence, S # {}
  PROVE  Newest(S) \in S /\ \A r \in S : r <= Newest(S)
<1> DEFINE T == {MaxSequence - s : s \in S}
<1>1. S \subseteq Nat /\ MaxSequence \in Nat /\ \A s \in S : s <= MaxSequence
  BY ChunkAssumption DEF Sequence
<1>2. T \in SUBSET Nat /\ T # {}
  BY <1>1
<1>3. PICK x \in T : \A y \in T : x <= y
  BY <1>2, LeastExists
<1>4. PICK s \in S : x = MaxSequence - s
  BY <1>3
<1>5. ASSUME NEW r \in S PROVE r <= s
  <2>1. x <= MaxSequence - r
    BY <1>3
  <2>2. r \in Nat /\ s \in Nat
    BY <1>1
  <2> QED BY <2>1, <2>2, <1>1, <1>4
<1> QED BY <1>4, <1>5 DEF Newest

\* What a tick uses was live and not quarantined at the time of the tick.
LEMMA TickSelection ==
  ASSUME ControlInvariant
  PROVE  /\ Live \subseteq Sequence
         /\ Pruned = quarantine \cap Live
         /\ Contributing \subseteq Live \ Pruned
         /\ Contributing # {} => /\ Newest(Contributing) \in Contributing
                                 /\ Newest(Contributing) <= latestSequence
         /\ \A s \in Live : \E c \in Held : c.seq = s /\ ~IsExpired(c, actualStart)
         /\ \A c \in Held : c.seq \notin Live => IsExpired(c, actualStart)
<1>1. BufferInvariant
  BY DEF ControlInvariant
<1>2. chunks \in Seq(Chunk) /\ latestSequence \in Int
  BY <1>1, NumbersAreIntegers DEF BufferInvariant, BufferTypeOK
<1>3. Held \subseteq Chunk
  BY <1>2 DEF Held
<1>4. /\ Live \subseteq Sequence
      /\ \A s \in Live : \E c \in Held : c.seq = s /\ ~IsExpired(c, actualStart)
      /\ \A c \in Held : c.seq \notin Live => IsExpired(c, actualStart)
  BY <1>3, NumbersAreIntegers DEF Live, SequencesOf, ValidChunks
<1>5. Contributing \subseteq Live \ Pruned
  BY DEF Contributing, Contributors, Candidates, SequencesOf, Live
<1>6. \A c \in Held : c.seq <= latestSequence
  <2> SUFFICES ASSUME NEW i \in 1..Len(chunks) PROVE chunks[i].seq <= latestSequence
    BY <1>2 DEF Held
  <2>1. /\ chunks # <<>> /\ Len(chunks) \in 1..Len(chunks)
        /\ chunks[i] \in Chunk /\ chunks[Len(chunks)] \in Chunk
    BY <1>2
  <2> /\ chunks[i].seq \in Int /\ chunks[Len(chunks)].seq \in Int
    BY <2>1, NumbersAreIntegers
  <2>2. latestSequence = chunks[Len(chunks)].seq
    BY <1>1, <2>1 DEF BufferInvariant, LatestIsLast
  <2>3. i < Len(chunks) => chunks[i].seq < chunks[Len(chunks)].seq
    BY <1>1, <1>2, <2>1 DEF BufferInvariant, Ordered
  <2> QED BY <2>1, <2>2, <2>3
<1>7. ASSUME Contributing # {}
      PROVE  Newest(Contributing) \in Contributing /\ Newest(Contributing) <= latestSequence
  <2>1. Newest(Contributing) \in Contributing
    BY <1>4, <1>5, <1>7, NewestIsMaximum
  <2> QED BY <2>1, <1>4, <1>5, <1>6
<1> QED BY <1>4, <1>5, <1>7 DEF Pruned

-----------------------------------------------------------------------------
(***************************************************************************)
(* The loop.                                                               *)
(***************************************************************************)
LoopShape ==
  /\ loopThread # "alive" => loopPC = "check"
  /\ loopPC \notin {"decide", "write"} => command.seqs = {}

\* The three ends of Decide: the command keeps its type.
LEMMA DecideTypes ==
  ASSUME ControlInvariant, Decide
  PROVE  LoopTypeOK' /\ LoopShape'
<1> USE NumbersAreIntegers DEF LoopTypeOK, LoopShape, LoopAt
<1>1. LoopTypeOK /\ LoopShape
  BY DEF ControlInvariant, ThreadShape
<1>2. TickState \in States
  BY <1>1 DEF TickState, StateOf, States
<1>3. writesAfterStop' \in Nat /\ outcome' \in DOMAIN StateOf
  BY <1>1 DEF Decide, DecidesPrimary, DecidesHold, DecidesNoWrite, BeginWrite, CountWrite,
         StateOf
<1>4. CASE DecidesPrimary
  BY <1>1, <1>2, <1>3, <1>4 DEF Decide, DecidesPrimary, BeginWrite
<1>5. CASE DecidesHold
  BY <1>1, <1>2, <1>3, <1>5 DEF Decide, DecidesHold, BeginWrite
<1>6. CASE DecidesNoWrite
  BY <1>1, <1>2, <1>3, <1>6 DEF Decide, DecidesNoWrite, EndTick, NoCommand, States
<1> QED BY <1>4, <1>5, <1>6 DEF Decide

\* Plan: the quarantine stays a set of sequence numbers.
LEMMA PlanTypes ==
  ASSUME ControlInvariant, Plan
  PROVE  LoopTypeOK' /\ LoopShape'
<1> USE DEF LoopTypeOK, LoopShape, LoopAt
<1>1. LoopTypeOK /\ LoopShape
  BY DEF ControlInvariant, ThreadShape
<1>2. /\ Pruned \subseteq Sequence /\ Contributing \subseteq Sequence
      /\ Contributing # {} => Newest(Contributing) \in Sequence
  BY TickSelection
<1>3. CASE PlansTarget
  BY <1>1, <1>2, <1>3 DEF Plan, PlansTarget, loopControl, NoCommand, States, StateOf
<1>4. CASE PlansRejection
  BY <1>1, <1>2, <1>4 DEF Plan, PlansRejection, loopControl, StateOf
<1>5. CASE PlansBlock
  BY <1>1, <1>2, <1>5 DEF Plan, PlansBlock, loopControl, StateOf
<1>6. CASE PlansFault
  BY <1>1, <1>2, <1>6 DEF Plan, PlansFault, loopControl, StateOf
<1> QED BY <1>3, <1>4, <1>5, <1>6 DEF Plan

\* Every step of the loop and of its owner keeps the types of the loop's
\* variables and the shape of its thread.
LEMMA LoopStepTypes ==
  ASSUME ControlInvariant, LoopStep \/ OwnsLoop
  PROVE  LoopTypeOK' /\ LoopShape'
<1> USE NumbersAreIntegers
        DEF LoopTypeOK, LoopShape, LoopAt, loopControl, loopTick, loopHistory, States
<1>1. LoopTypeOK /\ LoopShape /\ now \in Time
  BY DEF ControlInvariant, ThreadShape, WorkerTypeOK
<1>2. CASE StartLoop
  BY <1>1, <1>2 DEF StartLoop
<1>3. CASE SignalLoopStop
  BY <1>1, <1>3 DEF SignalLoopStop
<1>4. CASE JoinLoop
  BY <1>1, <1>4 DEF JoinLoop
<1>5. CASE LoopExits
  BY <1>1, <1>5 DEF LoopExits
<1>6. CASE TickBegins
  BY <1>1, <1>6 DEF TickBegins
<1>7. CASE LoopLocksState
  BY <1>1, <1>7 DEF LoopLocksState
<1>8. CASE LoopReadsState
  BY <1>1, <1>8 DEF LoopReadsState, StateOf
<1>9. CASE WriteExecuted
  BY <1>1, <1>9 DEF WriteExecuted, EndTick, NoCommand
<1>10. CASE WriteFails
  BY <1>1, <1>10 DEF WriteFails, EndTick, NoCommand
<1> QED BY <1>2, <1>3, <1>4, <1>5, <1>6, <1>7, <1>8, <1>9, <1>10, PlanTypes, DecideTypes
        DEF LoopStep, OwnsLoop

-----------------------------------------------------------------------------
(***************************************************************************)
(* Rejected chunks.                                                        *)
(***************************************************************************)

\* Publishing cannot bring a rejected number back: a new number is above the
\* latest one, and eviction only takes chunks away.
LEMMA PublishKeepsRejectedGone ==
  ASSUME ControlInvariant, WorkerPublishes, UNCHANGED loopVars
  PROVE  RejectedIsGone'
<1>a. /\ RejectedIsGone /\ inflight \in Chunk /\ chunks \in Seq(Chunk)
      /\ rejected \subseteq Sequence /\ latestSequence \in Sequence \cup {NoSequence}
      /\ actualStart \in Time /\ now \in Time
  BY DEF ControlInvariant, ThreadShape, BufferInvariant, BufferTypeOK, LoopTypeOK,
         WorkerTypeOK, WorkerPublishes, At
<1>b. /\ inflight.seq \in Int /\ latestSequence \in Int /\ rejected \subseteq Int
      /\ actualStart \in Int /\ now \in Int
  BY <1>a, ChunkAssumption DEF Sequence, Time, NoSequence, Chunk
<1>1. /\ RejectedIsGone /\ inflight \in Chunk /\ chunks \in Seq(Chunk)
      /\ rejected \subseteq Int /\ latestSequence \in Int /\ inflight.seq \in Int
      /\ actualStart \in Int /\ now \in Int
  BY <1>a, <1>b
<1>2. UNCHANGED <<rejected, quarantine, actualStart, now>>
  BY DEF loopVars, loopHistory, loopTick, WorkerPublishes
<1>3. CASE PublishDiscarded(inflight)
  BY <1>1, <1>2, <1>3 DEF RejectedIsGone, PublishDiscarded, bufferVars, Held
<1>4. CASE PublishAccepted(inflight)
  <2>1. inflight.seq > latestSequence /\ latestSequence' = inflight.seq
    BY <1>4 DEF PublishAccepted, Accepts
  <2>2. Held' \subseteq Held \cup {inflight}
    <3> DEFINE kept == IF Len(chunks) = MaxChunks THEN Tail(chunks) ELSE chunks
    <3>1. /\ kept \in Seq(Chunk)
          /\ \A i \in 1..Len(kept) : \E k \in 1..Len(chunks) : kept[i] = chunks[k]
      BY <1>1, BufferAssumption
    <3>2. chunks' = Append(kept, inflight)
      BY <1>4 DEF PublishAccepted
    <3> HIDE DEF kept
    <3>3. \A j \in 1..Len(chunks') :
             chunks'[j] = inflight \/ \E k \in 1..Len(chunks) : chunks'[j] = chunks[k]
      BY <3>1, <3>2, <1>1
    <3> QED BY <3>1, <3>2, <3>3, <1>1 DEF Held
  <2> SUFFICES ASSUME NEW r \in rejected
               PROVE  /\ r <= latestSequence'
                      /\ r \in quarantine \/ \A c \in Held' : c.seq = r => IsExpired(c, actualStart)
    BY <1>1, <1>2 DEF RejectedIsGone
  <2>3. r <= latestSequence /\ r \in Int
    BY <1>1 DEF RejectedIsGone
  <2>4. r < inflight.seq
    BY <2>1, <2>3, <1>1
  <2> QED BY <1>1, <2>1, <2>2, <2>3, <2>4 DEF RejectedIsGone
<1> QED BY <1>3, <1>4 DEF WorkerPublishes, Publish

\* A new tick only moves the time of expiry forward.
LEMMA TickKeepsRejectedGone ==
  ASSUME ControlInvariant, TickBegins
  PROVE  RejectedIsGone'
<1>1. /\ RejectedIsGone /\ actualStart \in Time /\ now \in Time /\ Held \subseteq Chunk
      /\ \A t \in Time : t <= t
  BY NumbersAreIntegers
  DEF ControlInvariant, BufferInvariant, BufferTypeOK, LoopTypeOK, WorkerTypeOK, Held
<1>2. actualStart' = now /\ UNCHANGED <<rejected, quarantine, now, chunks, latestSequence>>
  BY DEF TickBegins, loopHistory, wvars, bufferVars
<1>3. \A c \in Held : IsExpired(c, actualStart) => IsExpired(c, now)
  BY <1>1, ExpiryIsFinal DEF RejectedIsGone
<1> QED BY <1>1, <1>2, <1>3 DEF RejectedIsGone, Held

\* Planning forgets a quarantined number only when its chunk is no longer live.
LEMMA PlanKeepsRejectedGone ==
  ASSUME ControlInvariant, Plan
  PROVE  RejectedIsGone'
<1>1. /\ RejectedIsGone /\ UNCHANGED <<actualStart, now, chunks, latestSequence>>
      /\ \A c \in Held : c.seq \notin Live => IsExpired(c, actualStart)
  BY TickSelection DEF Plan, ControlInvariant, wvars, bufferVars
<1>2. Pruned \subseteq quarantine' /\ quarantine \cap Live = Pruned
  BY TickSelection DEF Plan, PlansTarget, PlansRejection, PlansBlock, PlansFault
<1>3. \A r \in rejected' : r \in rejected \/ (r \in quarantine' /\ r <= latestSequence)
  BY TickSelection DEF Plan, PlansTarget, PlansRejection, PlansBlock, PlansFault
<1>4. \A r \in rejected : r \in quarantine' \/ \A c \in Held : c.seq = r => IsExpired(c, actualStart)
  BY <1>1, <1>2 DEF RejectedIsGone
<1> QED BY <1>1, <1>3, <1>4 DEF RejectedIsGone, Held

\* Every other step leaves the rejected numbers and the chunks alone.
LEMMA OthersKeepRejectedGone ==
  ASSUME ControlInvariant, UNCHANGED <<chunks, latestSequence, actualStart, quarantine, rejected>>,
         now' \in {now, now + 1}
  PROVE  RejectedIsGone'
<1>1. RejectedIsGone /\ now \in Int /\ actualStart \in Int
  BY NumbersAreIntegers DEF ControlInvariant, WorkerTypeOK, LoopTypeOK
<1> QED BY <1>1 DEF RejectedIsGone, Held

\* The target of a tick is made of live chunks that are not quarantined, and
\* a rejected chunk is either quarantined or not live.
LEMMA PlanAvoidsRejected ==
  ASSUME ControlInvariant, Plan
  PROVE  RejectedNeverContributes'
<1>1. command.seqs = {}
  BY DEF ControlInvariant, ThreadShape, Plan, LoopAt
<1>2. ASSUME NEW r \in Contributing PROVE r \notin rejected
  <2>1. PICK c \in Held : c.seq = r /\ ~IsExpired(c, actualStart)
    BY TickSelection
  <2>2. r \notin quarantine
    BY TickSelection
  <2> QED BY <2>1, <2>2 DEF ControlInvariant, RejectedIsGone
<1>3. CASE PlansTarget
  BY <1>2, <1>3 DEF PlansTarget, RejectedNeverContributes, NoCommand
<1>4. CASE PlansRejection \/ PlansBlock \/ PlansFault
  BY <1>1, <1>4 DEF PlansRejection, PlansBlock, PlansFault, RejectedNeverContributes
<1> QED BY <1>3, <1>4 DEF Plan

-----------------------------------------------------------------------------
(***************************************************************************)
(* Writes after stop().                                                    *)
(***************************************************************************)
\* A tick checks the stop event before it begins, so that only the tick in
\* progress when stop() signals can still write.
LEMMA LoopKeepsLastWrite ==
  ASSUME ControlInvariant, LoopStep \/ OwnsLoop
  PROVE  LastWrite'
<1> USE DEF LastWrite, LoopAt, loopControl, loopTick, loopHistory
<1>1. LastWrite /\ ThreadShape /\ loopStop \in BOOLEAN
  BY DEF ControlInvariant, LoopTypeOK
<1>2. CASE OwnsLoop
  BY <1>1, <1>2 DEF OwnsLoop, StartLoop, SignalLoopStop, JoinLoop
<1>3. CASE TickBegins
  BY <1>1, <1>3 DEF TickBegins
<1>4. CASE LoopLocksState \/ LoopReadsState \/ Plan
  <2>1. loopPC \in {"lock", "read", "plan"} /\ UNCHANGED <<writesAfterStop, loopStop>>
    BY <1>4 DEF LoopLocksState, LoopReadsState, Plan
  <2> QED BY <1>1, <2>1
<1>5. CASE Decide
  <2>1. writesAfterStop = 0 /\ loopStop' = loopStop
    BY <1>1, <1>5 DEF Decide
  <2>2. CASE DecidesPrimary \/ DecidesHold
    BY <1>1, <2>1, <2>2 DEF DecidesPrimary, DecidesHold, BeginWrite, CountWrite
  <2>3. CASE DecidesNoWrite
    BY <2>1, <2>3 DEF DecidesNoWrite
  <2> QED BY <1>5, <2>2, <2>3 DEF Decide
<1>6. CASE WriteExecuted \/ WriteFails
  <2>1. UNCHANGED <<writesAfterStop, loopStop>> /\ loopPC' = "check"
    BY <1>6 DEF WriteExecuted, WriteFails, EndTick
  <2> QED BY <1>1, <2>1
<1>7. CASE LoopExits
  BY <1>1, <1>7 DEF LoopExits
<1> QED BY <1>2, <1>3, <1>4, <1>5, <1>6, <1>7 DEF LoopStep

-----------------------------------------------------------------------------
(***************************************************************************)
(* Initial states and the theorem.                                         *)
(***************************************************************************)
\* The initial states of the runtime satisfy the inductive invariant.
LEMMA ControlInitInvariant == ControlInit => ControlInvariant
<1> SUFFICES ASSUME ControlInit PROVE ControlInvariant
  OBVIOUS
<1> USE ChunkAssumption, WorkerAssumption, NumbersAreIntegers DEF ControlInit, WorkerInit, LoopInit
<1>1. BufferInvariant
  BY BufferInitInvariant
<1>0. 0 \in Time /\ InitialSequence \in InitialSequence..(MaxSequence + 1)
  BY DEF Time, Sequence
<1>2. WorkerTypeOK
  <2>1. health \in Health
    BY DEF Health
  <2> QED BY <1>0, <2>1 DEF WorkerTypeOK
<1>3. LoopTypeOK
  <2>1. command \in [path : {"none", "primary", "hold"}, seqs : SUBSET Sequence, state : States]
    BY DEF NoCommand, States
  <2>2. lastPrimary \in [seqs : SUBSET Sequence, at : Time \cup {Never}]
    OBVIOUS
  <2> QED BY <1>0, <2>1, <2>2 DEF LoopTypeOK, States, StateOf
<1>4. ThreadShape /\ RejectedIsGone /\ LastWrite /\ RejectedNeverContributes
  BY DEF ThreadShape, RejectedIsGone, LastWrite, RejectedNeverContributes, NoCommand
<1> QED BY <1>1, <1>2, <1>3, <1>4 DEF ControlInvariant

\* Steps of the worker, of its owner, of other readers and of the clock.
LEMMA WorkerSideStep ==
  ASSUME ControlInvariant, UNCHANGED loopVars,
         WorkerStep \/ OwnsWorker \/ OthersRead \/ ClockTicks
  PROVE  ControlInvariant'
<1>1. BufferInvariant'
  BY BufferStep DEF ControlNext, Threads, OtherReaders, Owns
<1>2. WorkerTypeOK' /\ WorkerShape'
  BY WorkerStepTypes
<1>3. LoopTypeOK' /\ LoopShape' /\ LastWrite' /\ RejectedNeverContributes'
  BY DEF ControlInvariant, ThreadShape, LoopTypeOK, LoopShape, LastWrite,
         RejectedNeverContributes, loopVars, loopControl, loopTick, loopHistory
<1>4. RejectedIsGone'
  <2>1. CASE WorkerPublishes
    BY <2>1, PublishKeepsRejectedGone
  <2>2. CASE ~WorkerPublishes
    <3>1. UNCHANGED <<chunks, latestSequence>> /\ now' \in {now, now + 1}
      BY <2>2 DEF WorkerStep, OwnsWorker, OthersRead, OthersLock, OthersRelease, ClockTicks,
           StartWorker, SignalWorkerStop, JoinWorker, WorkerBegins, CameraFails,
           WorkerLocksState, WorkerReadsState, PredictSucceeds, PredictFails, WorkerRecords,
           WorkerExits, bufferVars
    <3>2. UNCHANGED <<actualStart, quarantine, rejected>>
      BY DEF loopVars, loopTick, loopHistory
    <3> QED BY <3>1, <3>2, OthersKeepRejectedGone
  <2> QED BY <2>1, <2>2
<1> QED BY <1>1, <1>2, <1>3, <1>4 DEF ControlInvariant, ThreadShape, WorkerShape, LoopShape

\* Steps of the loop and of its owner.
LEMMA LoopSideStep ==
  ASSUME ControlInvariant, LoopStep \/ OwnsLoop
  PROVE  ControlInvariant'
<1>1. UNCHANGED <<now, workerVars, bufferVars>> /\ (stateLock' = stateLock \/ stateLock' \in {"free", "loop"})
  BY DEF LoopStep, OwnsLoop, StartLoop, SignalLoopStop, JoinLoop, TickBegins, LoopLocksState,
         LoopReadsState, Plan, Decide, WriteExecuted, WriteFails, LoopExits, wvars
<1>2. BufferInvariant'
  BY BufferStep DEF ControlNext, Threads, Owns
<1>3. WorkerTypeOK' /\ WorkerShape'
  BY <1>1 DEF ControlInvariant, ThreadShape, WorkerTypeOK, WorkerShape, workerVars
<1>4. LoopTypeOK' /\ LoopShape'
  BY LoopStepTypes
<1>5. LastWrite'
  BY LoopKeepsLastWrite
<1>6. RejectedIsGone'
  <2>1. CASE ~TickBegins /\ ~Plan
    <3>1. UNCHANGED <<actualStart, quarantine, rejected>>
      BY <2>1 DEF LoopStep, OwnsLoop, StartLoop, SignalLoopStop, JoinLoop, LoopLocksState,
         LoopReadsState, Decide, WriteExecuted, WriteFails, LoopExits, loopTick, loopHistory
    <3> QED BY <1>1, <3>1, OthersKeepRejectedGone DEF bufferVars
  <2> QED BY <2>1, TickKeepsRejectedGone, PlanKeepsRejectedGone
<1>7. RejectedNeverContributes'
  <2>1. CASE Plan
    BY <2>1, PlanAvoidsRejected
  <2>2. CASE ~Plan
    <3>1. rejected' = rejected /\ command'.seqs \subseteq command.seqs
      <4>1. CASE Decide
        BY <4>1 DEF Decide, DecidesPrimary, DecidesHold, DecidesNoWrite, BeginWrite, EndTick, NoCommand
      <4>2. CASE ~Decide
        BY <2>2, <4>2 DEF LoopStep, OwnsLoop, StartLoop, SignalLoopStop, JoinLoop, TickBegins,
           LoopLocksState, LoopReadsState, WriteExecuted, WriteFails, LoopExits, EndTick,
           NoCommand, loopTick, loopHistory
      <4> QED BY <4>1, <4>2
    <3> QED BY <3>1 DEF ControlInvariant, RejectedNeverContributes
  <2> QED BY <2>1, <2>2
<1> QED BY <1>2, <1>3, <1>4, <1>5, <1>6, <1>7
        DEF ControlInvariant, ThreadShape, WorkerShape, LoopShape

\* The inductive invariant reads no variable outside the runtime.
LEMMA ControlStutter ==
  ASSUME ControlInvariant, UNCHANGED vars
  PROVE  ControlInvariant'
BY DEF vars, wvars, workerVars, bufferVars, loopVars, loopControl, loopTick, loopHistory,
       ControlInvariant, WorkerTypeOK, LoopTypeOK, BufferInvariant, BufferTypeOK, Ordered,
       HoldsNewest, LatestIsLast, Held, ThreadShape, RejectedIsGone, LastWrite,
       RejectedNeverContributes

\* The inductive invariant of worker, buffer and loop holds for every capacity,
\* chunk size, policy and number of requests, and every owner of the threads.
THEOREM ControlCorrect == ControlSpec => []ControlInvariant
<1>1. ControlInvariant /\ [ControlNext]_vars => ControlInvariant'
  <2> SUFFICES ASSUME ControlInvariant, [ControlNext]_vars PROVE ControlInvariant'
    OBVIOUS
  <2>1. CASE LoopStep \/ OwnsLoop
    BY <2>1, LoopSideStep
  <2>2. CASE /\ UNCHANGED loopVars
             /\ WorkerStep \/ OwnsWorker \/ OthersRead \/ ClockTicks
    BY <2>2, WorkerSideStep
  <2>3. CASE UNCHANGED vars
    BY <2>3, ControlStutter
  <2> QED BY <2>1, <2>2, <2>3 DEF ControlNext, Threads, OtherReaders, Owns
<1> QED BY <1>1, ControlInitInvariant, PTL DEF ControlSpec

\* The variables of the worker and of the loop keep their types, and the
\* buffer its correctness, however the two threads interleave.
THEOREM ControlTypes == ControlSpec => [](ControlTypeOK /\ BufferInvariant)
<1>1. ControlInvariant => ControlTypeOK /\ BufferInvariant
  BY DEF ControlInvariant, ControlTypeOK
<1> QED BY <1>1, ControlCorrect, PTL

\* A chunk that intent validation rejected never contributes to a write again
\* (_do_tick of the control loop, TrajectoryBuffer.publish and is_expired).
THEOREM RejectedStaysOut == ControlSpec => []RejectedNeverContributes
<1>1. ControlInvariant => RejectedNeverContributes
  BY DEF ControlInvariant
<1> QED BY <1>1, ControlCorrect, PTL

\* After stop() has signalled the loop at most one more write begins.
THEOREM StopsWriting == ControlSpec => []AtMostOneWriteAfterStop
<1>1. ControlInvariant => AtMostOneWriteAfterStop
  BY DEF ControlInvariant, LastWrite, AtMostOneWriteAfterStop
<1> QED BY <1>1, ControlCorrect, PTL

-----------------------------------------------------------------------------
(***************************************************************************)
(* The books of the worker and the states of the loop.                     *)
(***************************************************************************)
\* The number of the request in progress is the last one given out, and is
\* above every number in the buffer until it is published itself.
RequestNumber ==
  /\ workerPC = "loop" => inflight = NoChunk
  /\ workerPC # "loop" => inflight.seq = nextSequence - 1
  /\ latestSequence < (IF workerPC \in {"loop", "recordPublished", "recordDiscarded"}
                       THEN nextSequence ELSE nextSequence - 1)

\* The strengthening of WorkerAccounts.
WorkerBooks ==
  /\ RequestNumber
  /\ IsFiniteSet(published)
  /\ HealthAgrees /\ RequestsAccounted /\ NothingDiscarded

\* The strengthening of StoppedIsQuiet: no tick carries STOPPED as its state.
LoopQuiet ==
  /\ loopState = "STOPPED" => loopThread # "alive"
  /\ command.state # "STOPPED"

\* The strengthening of HoldNeedsPrimary: what a hold may repeat was written
\* by the generator once, and a write is one of the two kinds.
HoldBooks ==
  /\ lastValid # Never => lastPrimary.at # Never
  /\ loopPC = "write" => command.path \in {"primary", "hold"}
  /\ loopPC = "write" /\ command.path = "hold" => lastValid # Never

\* The strengthening of QuarantineBounded.
QuarantineSmall == IsFiniteSet(quarantine) /\ Cardinality(quarantine) <= MaxChunks

RuntimeInvariant ==
  /\ ControlInvariant
  /\ WorkerBooks /\ LoopQuiet /\ HoldBooks /\ QuarantineSmall

-----------------------------------------------------------------------------
(***************************************************************************)
(* The buffer seen from its numbers.                                       *)
(***************************************************************************)
\* Nothing that was ever accepted carries a number above the latest one.
LEMMA PublishedBelowLatest ==
  ASSUME BufferInvariant
  PROVE  /\ latestSequence \in Int
         /\ \A c \in published : c \in Chunk /\ c.seq \in Int /\ c.seq <= latestSequence
<1>1. /\ chunks \in Seq(Chunk) /\ latestSequence \in Int /\ published \subseteq Chunk
      /\ MaxChunks \in Nat \ {0}
  BY NumbersAreIntegers, BufferAssumption DEF BufferInvariant, BufferTypeOK
<1>2. \A c \in Chunk : c.seq \in Int
  BY NumbersAreIntegers
<1>3. ASSUME NEW i \in 1..Len(chunks) PROVE chunks[i].seq <= latestSequence
  <2>1. /\ chunks # <<>> /\ Len(chunks) \in 1..Len(chunks)
        /\ chunks[i] \in Chunk /\ chunks[Len(chunks)] \in Chunk
    BY <1>1, <1>3
  <2>2. latestSequence = chunks[Len(chunks)].seq
    BY <2>1 DEF BufferInvariant, LatestIsLast
  <2>3. i < Len(chunks) => chunks[i].seq < chunks[Len(chunks)].seq
    BY <1>1, <2>1 DEF BufferInvariant, Ordered
  <2> QED BY <1>2, <2>1, <2>2, <2>3
<1>4. \A c \in Held : c \in Chunk /\ c.seq <= latestSequence
  BY <1>1, <1>3 DEF Held
<1>5. ASSUME NEW c \in published \ Held PROVE c.seq <= latestSequence
  <2>1. Len(chunks) = MaxChunks /\ \A d \in Held : c.seq < d.seq
    BY <1>5 DEF BufferInvariant, HoldsNewest
  <2>2. 1 \in 1..Len(chunks) /\ chunks[1] \in Held
    BY <1>1, <2>1 DEF Held
  <2> QED BY <1>1, <1>2, <1>4, <2>1, <2>2
<1> QED BY <1>1, <1>2, <1>4, <1>5

\* A buffer of MaxChunks slots holds at most MaxChunks different numbers.
LEMMA HeldIsSmall ==
  ASSUME BufferInvariant
  PROVE  /\ IsFiniteSet(SequencesOf(Held))
         /\ Cardinality(SequencesOf(Held)) <= MaxChunks
<1> DEFINE f == [i \in 1..Len(chunks) |-> chunks[i].seq]
<1>1. Len(chunks) \in Nat /\ Len(chunks) <= MaxChunks /\ MaxChunks \in Nat
      /\ DOMAIN chunks = 1..Len(chunks)
  BY BufferAssumption DEF BufferInvariant, BufferTypeOK, HoldsNewest
<1>2. f \in Surjection(1..Len(chunks), SequencesOf(Held))
  BY <1>1 DEF Surjection, SequencesOf, Held
<1>3. IsFiniteSet(1..Len(chunks)) /\ Cardinality(1..Len(chunks)) <= Len(chunks)
  <2>1. /\ IsFiniteSet(1..Len(chunks))
        /\ Cardinality(1..Len(chunks)) = IF 1 > Len(chunks) THEN 0 ELSE Len(chunks) - 1 + 1
    <3>1. 1 \in Int /\ Len(chunks) \in Int
      BY <1>1
    <3> QED BY <3>1, FS_Interval, Zenon
  <2> QED BY <1>1, <2>1
<1>4. IsFiniteSet(SequencesOf(Held)) /\ Cardinality(SequencesOf(Held)) <= Cardinality(1..Len(chunks))
  BY <1>2, <1>3, FS_Surjection
<1>5. Cardinality(SequencesOf(Held)) \in Nat /\ Cardinality(1..Len(chunks)) \in Nat
  BY <1>3, <1>4, FS_CardinalityType
<1> QED BY <1>1, <1>3, <1>4, <1>5

-----------------------------------------------------------------------------
(***************************************************************************)
(* The worker.                                                             *)
(***************************************************************************)
\* What the accounts of the worker read.
bookVars == <<workerPC, nextSequence, inflight, health, latestSequence, published>>

\* A step that changes none of the accounts leaves them balanced.
LEMMA BooksUntouched ==
  ASSUME WorkerBooks, UNCHANGED bookVars
  PROVE  WorkerBooks'
BY DEF bookVars, WorkerBooks, RequestNumber, HealthAgrees, RequestsAccounted, NothingDiscarded,
       TotalRequests

\* Every step of the worker keeps its accounts.
LEMMA WorkerStepBooks ==
  ASSUME ControlInvariant, WorkerBooks, WorkerStep
  PROVE  WorkerBooks'
<1>1. /\ nextSequence \in Int /\ InitialSequence \in Int /\ latestSequence \in Int
      /\ health \in [failures : Nat, published : Nat, discarded : Nat, latest : Int]
      /\ workerPC # "loop" => inflight \in Chunk /\ inflight.seq \in Int
      /\ \A c \in published : c.seq <= latestSequence
  <2>1. WorkerTypeOK /\ BufferInvariant /\ ThreadShape
    BY DEF ControlInvariant
  <2>2. InitialSequence \in Int /\ MaxSequence \in Int
    BY NumbersAreIntegers, WorkerAssumption, ChunkAssumption DEF Sequence
  <2>3. nextSequence \in Int
    BY <2>1, <2>2 DEF WorkerTypeOK
  <2>4. health \in [failures : Nat, published : Nat, discarded : Nat, latest : Int]
    <3>1. Sequence \cup {NoSequence} \subseteq Int
      BY NumbersAreIntegers
    <3> QED BY <2>1, <3>1 DEF WorkerTypeOK, Health
  <2>5. workerPC # "loop" => inflight \in Chunk /\ inflight.seq \in Int
    BY <2>1, NumbersAreIntegers DEF ThreadShape
  <2> QED BY <2>1, <2>2, <2>3, <2>4, <2>5, PublishedBelowLatest
<1>2. /\ Cardinality(published) \in Nat
      /\ health.failures \in Nat /\ health.published \in Nat /\ health.latest \in Int
  <2>1. Cardinality(published) \in Nat
    BY FS_CardinalityType DEF WorkerBooks
  <2> QED BY <1>1, <2>1
<1> USE <1>1, <1>2 DEF WorkerBooks, RequestNumber, HealthAgrees, RequestsAccounted,
                      NothingDiscarded, TotalRequests, At, bufferVars
<1>3. CASE WorkerBegins
  BY <1>3 DEF WorkerBegins
<1>4. CASE RecordFailure /\ workerPC \in {"capture", "readstate", "predict"} /\ UNCHANGED bufferVars
  <2>1. /\ health' = [health EXCEPT !.failures = @ + 1]
        /\ inflight' = NoChunk /\ workerPC' = "loop" /\ nextSequence' = nextSequence
        /\ UNCHANGED <<latestSequence, published>>
    BY <1>4 DEF RecordFailure
  <2>2. health'.failures = health.failures + 1 /\ health'.published = health.published
        /\ health'.latest = health.latest /\ health'.discarded = health.discarded
    BY <2>1
  <2> QED BY <1>4, <2>1, <2>2
<1>5. CASE WorkerLocksState \/ PredictSucceeds
  <2>1. CASE WorkerLocksState
    BY <2>1 DEF WorkerLocksState
  <2>2. CASE PredictSucceeds
    <3>1. inflight'.seq = inflight.seq
      BY <2>2 DEF PredictSucceeds, Chunk
    <3> QED BY <2>2, <3>1 DEF PredictSucceeds
  <2> QED BY <1>5, <2>1, <2>2
<1>6. CASE WorkerReadsState /\ ~RecordFailure
  BY <1>6 DEF WorkerReadsState
<1>7. CASE WorkerPublishes
  <2>1. Accepts(inflight)
    BY <1>7 DEF WorkerPublishes, Accepts
  <2>2. /\ published' = published \cup {inflight} /\ latestSequence' = inflight.seq
        /\ workerPC' = "recordPublished" /\ UNCHANGED <<nextSequence, inflight, health>>
    BY <1>7, <2>1 DEF WorkerPublishes, Publish, PublishAccepted, PublishDiscarded
  <2>3. inflight \notin published
    BY <1>7, <2>1 DEF Accepts, WorkerPublishes
  <2>4. IsFiniteSet(published') /\ Cardinality(published') = Cardinality(published) + 1
    BY <2>2, <2>3, FS_AddElement
  <2> QED BY <1>7, <2>1, <2>2, <2>4 DEF WorkerPublishes, Accepts
<1>8. CASE WorkerRecords
  <2>1. At("recordPublished")
    BY <1>8 DEF WorkerRecords
  <2>2. /\ health'.failures = 0 /\ health'.published = health.published + 1
        /\ health'.latest = inflight.seq /\ health'.discarded = health.discarded
    BY <1>8, <2>1 DEF WorkerRecords
  <2> QED BY <1>8, <2>1, <2>2 DEF WorkerRecords
<1>9. CASE WorkerExits
  BY <1>9 DEF WorkerExits
<1> QED BY <1>3, <1>4, <1>5, <1>6, <1>7, <1>8, <1>9
        DEF WorkerStep, CameraFails, WorkerReadsState, PredictFails

\* Neither the owner, nor the other readers, nor the clock, nor the loop
\* touches the accounts.
LEMMA OthersKeepBooks ==
  ASSUME ControlInvariant, WorkerBooks, [ControlNext]_vars, ~WorkerStep
  PROVE  WorkerBooks'
<1>1. workerThread # "alive" => workerPC = "loop"
  BY DEF ControlInvariant, ThreadShape
<1>2. UNCHANGED bookVars
  BY <1>1 DEF ControlNext, Threads, OtherReaders, Owns, OwnsWorker, OwnsLoop, OthersRead,
     OthersLock, OthersRelease, ClockTicks, StartWorker, SignalWorkerStop, JoinWorker,
     LoopStep, StartLoop, SignalLoopStop, JoinLoop, TickBegins, LoopLocksState,
     LoopReadsState, Plan, Decide, WriteExecuted, WriteFails, LoopExits,
     vars, wvars, workerVars, bufferVars, bookVars
<1> QED BY <1>2, BooksUntouched

-----------------------------------------------------------------------------
(***************************************************************************)
(* The loop.                                                               *)
(***************************************************************************)
\* What the states of the loop, its holds and its quarantine read.
quietVars ==
  <<loopThread, loopState, loopPC, command, lastValid, lastPrimary, quarantine>>

\* The worker and the clock do not touch the loop.
LEMMA LoopUntouched ==
  ASSUME LoopQuiet, HoldBooks, QuarantineSmall, UNCHANGED quietVars
  PROVE  LoopQuiet' /\ HoldBooks' /\ QuarantineSmall'
BY DEF quietVars, LoopQuiet, HoldBooks, QuarantineSmall

\* The state a tick computes is never STOPPED.
LEMMA TickNeverStopped ==
  ASSUME LoopTypeOK
  PROVE  TickState # "STOPPED"
BY DEF LoopTypeOK, TickState, StateOf

\* Every step of the loop and of its owner keeps STOPPED for a thread that
\* has ended, and the first write of a loop one of the generator.
LEMMA LoopStepQuiet ==
  ASSUME ControlInvariant, LoopQuiet, HoldBooks, LoopStep \/ OwnsLoop
  PROVE  LoopQuiet' /\ HoldBooks'
<1>1. /\ LoopTypeOK /\ actualStart # Never
      /\ loopThread # "alive" => loopPC = "check"
  BY NumbersAreIntegers DEF ControlInvariant, LoopTypeOK, ThreadShape, Never, Time
<1> USE DEF LoopQuiet, HoldBooks, LoopAt, loopControl, loopTick, loopHistory, NoCommand
<1>2. CASE OwnsLoop
  BY <1>1, <1>2 DEF OwnsLoop, StartLoop, SignalLoopStop, JoinLoop
<1>3. CASE TickBegins \/ LoopLocksState \/ LoopReadsState
  BY <1>3 DEF TickBegins, LoopLocksState, LoopReadsState
<1>4. CASE Plan
  <2>1. command'.state # "STOPPED" /\ loopPC' = "decide" /\ UNCHANGED <<loopThread, loopState>>
    BY <1>4 DEF Plan, PlansTarget, PlansRejection, PlansBlock, PlansFault
  <2> QED BY <1>4, <2>1 DEF Plan
<1>5. CASE Decide
  <2>1. TickState # "STOPPED"
    BY <1>1, TickNeverStopped
  <2>2. CASE DecidesPrimary
    BY <1>5, <2>1, <2>2 DEF Decide, DecidesPrimary, BeginWrite
  <2>3. CASE DecidesHold
    BY <1>5, <2>1, <2>3 DEF Decide, DecidesHold, BeginWrite, HoldAllowed
  <2>4. CASE DecidesNoWrite
    BY <1>5, <2>1, <2>4 DEF Decide, DecidesNoWrite, EndTick
  <2> QED BY <1>5, <2>2, <2>3, <2>4 DEF Decide
<1>6. CASE WriteExecuted
  <2>1. /\ loopState' = command.state /\ command' = NoCommand /\ loopPC' = "check"
        /\ lastValid' = actualStart /\ loopThread = "alive"
    BY <1>6 DEF WriteExecuted, EndTick
  <2>2. lastPrimary'.at # Never
    <3>1. CASE command.path = "primary"
      BY <1>1, <1>6, <3>1 DEF WriteExecuted
    <3>2. CASE command.path # "primary"
      BY <1>6, <3>2 DEF WriteExecuted
    <3> QED BY <3>1, <3>2
  <2> QED BY <2>1, <2>2
<1>7. CASE WriteFails
  BY <1>7 DEF WriteFails, EndTick
<1>8. CASE LoopExits
  BY <1>8 DEF LoopExits
<1> QED BY <1>2, <1>3, <1>4, <1>5, <1>6, <1>7, <1>8 DEF LoopStep

\* Only Plan changes the quarantine, and it keeps or adds numbers of chunks
\* that are held.
LEMMA LoopStepQuarantine ==
  ASSUME ControlInvariant, QuarantineSmall, LoopStep \/ OwnsLoop
  PROVE  QuarantineSmall'
<1>1. CASE Plan
  <2>1. quarantine' \subseteq Live
    BY <1>1, TickSelection DEF Plan, PlansTarget, PlansRejection, PlansBlock, PlansFault
  <2>2. Live \subseteq SequencesOf(Held) /\ BufferInvariant
    BY DEF Live, SequencesOf, ValidChunks, ControlInvariant
  <2>3. quarantine' \in SUBSET SequencesOf(Held)
    BY <2>1, <2>2
  <2>4. /\ IsFiniteSet(SequencesOf(Held)) /\ Cardinality(SequencesOf(Held)) <= MaxChunks
    BY <2>2, HeldIsSmall
  <2> HIDE <2>2
  <2>5. /\ IsFiniteSet(quarantine') /\ Cardinality(quarantine') <= Cardinality(SequencesOf(Held))
    BY <2>3, <2>4, FS_Subset
  <2>6. Cardinality(quarantine') \in Nat /\ Cardinality(SequencesOf(Held)) \in Nat
    BY <2>4, <2>5, FS_CardinalityType
  <2> QED BY <2>4, <2>5, <2>6, BufferAssumption DEF QuarantineSmall
<1>2. CASE ~Plan
  <2>1. quarantine' = quarantine
    BY <1>2 DEF LoopStep, OwnsLoop, StartLoop, SignalLoopStop, JoinLoop, TickBegins,
       LoopLocksState, LoopReadsState, Decide, WriteExecuted, WriteFails, LoopExits,
       loopTick, loopHistory
  <2> QED BY <2>1 DEF QuarantineSmall
<1> QED BY <1>1, <1>2

-----------------------------------------------------------------------------
(***************************************************************************)
(* The theorems.                                                           *)
(***************************************************************************)
\* The initial states satisfy the strengthened invariant.
LEMMA RuntimeInit == ControlInit => RuntimeInvariant
<1> SUFFICES ASSUME ControlInit PROVE RuntimeInvariant
  OBVIOUS
<1>1. ControlInvariant
  BY ControlInitInvariant
<1>2. IsFiniteSet({}) /\ Cardinality({}) = 0
  BY FS_EmptySet
<1>3. WorkerBooks
  <2>1. InitialSequence \in Int /\ NoSequence < InitialSequence
    BY NumbersAreIntegers, WorkerAssumption
  <2> QED BY <1>2, <2>1
      DEF ControlInit, BufferInit, WorkerInit, WorkerBooks, RequestNumber, HealthAgrees,
          RequestsAccounted, NothingDiscarded, TotalRequests
<1>4. LoopQuiet /\ HoldBooks /\ QuarantineSmall
  BY <1>2, BufferAssumption
  DEF ControlInit, LoopInit, LoopQuiet, HoldBooks, QuarantineSmall, NoCommand
<1> QED BY <1>1, <1>3, <1>4 DEF RuntimeInvariant

\* The strengthened invariant holds whatever the interleaving of the threads,
\* their restarts, and the requests, reads and writes that fail.
THEOREM RuntimeCorrect == ControlSpec => []RuntimeInvariant
<1>1. RuntimeInvariant /\ [ControlNext]_vars /\ ControlInvariant' => RuntimeInvariant'
  <2> SUFFICES ASSUME RuntimeInvariant, [ControlNext]_vars, ControlInvariant'
               PROVE  RuntimeInvariant'
    OBVIOUS
  <2> USE DEF RuntimeInvariant
  <2>1. WorkerBooks'
    BY WorkerStepBooks, OthersKeepBooks
  <2>2. CASE LoopStep \/ OwnsLoop
    BY <2>1, <2>2, LoopStepQuiet, LoopStepQuarantine
  <2>3. CASE ~(LoopStep \/ OwnsLoop)
    <3>1. UNCHANGED quietVars
      BY <2>3 DEF ControlNext, Threads, OtherReaders, Owns, vars, quietVars, loopVars,
         loopControl, loopTick, loopHistory
    <3> QED BY <2>1, <3>1, LoopUntouched
  <2> QED BY <2>2, <2>3
<1> QED BY <1>1, RuntimeInit, ControlCorrect, PTL DEF ControlSpec

\* The counters of the worker agree with the buffer and with the requests, an
\* ended thread owes nothing, and none of its own chunks is dropped
\* (_run_one_iteration, _record_success and _record_failure).
THEOREM AccountsBalance == ControlSpec => []WorkerAccounts
<1>1. RuntimeInvariant => WorkerAccounts
  BY DEF RuntimeInvariant, WorkerBooks, RequestNumber, WorkerAccounts, EndsBetweenRequests,
         ControlInvariant, ThreadShape
<1> QED BY <1>1, RuntimeCorrect, PTL

\* The quarantine of the loop never outgrows the buffer (_do_tick).
THEOREM QuarantineStaysSmall == ControlSpec => []QuarantineBounded
<1>1. RuntimeInvariant => QuarantineBounded
  BY DEF RuntimeInvariant, QuarantineSmall, QuarantineBounded
<1> QED BY <1>1, RuntimeCorrect, PTL

\* A loop that reports STOPPED has no thread that could still write, although
\* a tick in progress overwrites STOPPING (stop() and _do_tick).
THEOREM StoppedMeansQuiet == ControlSpec => []StoppedIsQuiet
<1>1. RuntimeInvariant => StoppedIsQuiet
  BY DEF RuntimeInvariant, LoopQuiet, StoppedIsQuiet
<1> QED BY <1>1, RuntimeCorrect, PTL

\* The first write of a loop is one of the generator, never a hold
\* (_compute_hold_candidate).
THEOREM HoldComesSecond == ControlSpec => []HoldNeedsPrimary
<1>1. RuntimeInvariant => HoldNeedsPrimary
  BY DEF RuntimeInvariant, HoldBooks, HoldNeedsPrimary, LoopAt
<1> QED BY <1>1, RuntimeCorrect, PTL

-----------------------------------------------------------------------------
(***************************************************************************)
(* The realtime runtime implements the command stream: worker, buffer,     *)
(* quarantine, ensembler and loop together never send a target blended     *)
(* from a rejected chunk, and never go back to older chunks unless a newer *)
(* one was rejected.                                                       *)
(***************************************************************************)
\* Every observation published is older than t, or as old when rebasing may
\* give it the time of its publication.
FreshAt(t) == \A c \in published : c.obs <= t /\ (c.obs = t => RebaseToPublication)

\* Requests one at a time make newer numbers come from newer observations.
ObservationOrder ==
  /\ \A c, d \in published : /\ c.seq < d.seq => c.obs < d.obs
                             /\ c.seq = d.seq => c = d
  /\ FreshAt(now)
  /\ workerPC \in {"capture", "readstate", "predict"} =>
       inflight.obs = inflight.captured /\ inflight.captured <= now /\ FreshAt(inflight.captured)
  /\ workerPC = "publish" =>
       /\ \A c \in published : c.obs < inflight.obs
       /\ inflight.obs <= now /\ (inflight.obs = now => RebaseToPublication)

\* What the loop holds in its hands was published.
FromPublished ==
  /\ quarantine \subseteq rejected
  /\ rejected \subseteq SequencesOf(published)
  /\ command.seqs \subseteq SequencesOf(published)
  /\ lastPrimary.seqs \subseteq SequencesOf(published)

\* A tick has a target exactly when its outcome says so, and a hold has none.
TargetShape ==
  /\ loopPC = "decide" => (outcome = "TARGET" <=> command.seqs # {})
  /\ loopPC = "write" => (command.path = "primary" <=> command.seqs # {})

\* A chunk blended into a target had been observed by the time aimed at.
AimedPast ==
  \A c \in published :
    c.seq \in command.seqs \cup lastPrimary.seqs => c.obs <= actualStart + Lookahead

StreamInvariant ==
  /\ ControlInvariant
  /\ ObservationOrder /\ FromPublished /\ TargetShape /\ AimedPast

-----------------------------------------------------------------------------
(***************************************************************************)
(* Two chunks of which one has the later observation.                      *)
(***************************************************************************)
\* The times of chunks are natural numbers.
LEMMA ChunkTimes == \A c \in Chunk : c.obs \in Nat /\ c.obs \in Int /\ c.seq \in Int
<1> SUFFICES ASSUME NEW c \in Chunk PROVE c.obs \in Nat /\ c.seq \in Nat
  OBVIOUS
<1>1. c.obs \in 0..MaxTime /\ c.seq \in 0..MaxSequence
  BY DEF Chunk, Time, Sequence
<1> QED BY <1>1

\* The later the observation, the later the chunk expires.
LEMMA LaterExpiresLater ==
  ASSUME NEW c \in Chunk, NEW d \in Chunk, NEW t \in Time, d.obs <= c.obs, ~IsExpired(d, t)
  PROVE  ~IsExpired(c, t)
<1> USE ChunkAssumption
<1>1. c.obs \in Nat /\ d.obs \in Nat /\ t \in Nat
  BY NumbersAreIntegers
<1>2. ~(t - c.obs > MaxChunkAge)
  BY <1>1 DEF IsExpired
<1>3. /\ FirstFutureIndex(c, t) \in Int /\ FirstFutureIndex(d, t) \in Int
      /\ FirstFutureIndex(c, t) <= FirstFutureIndex(d, t)
  <2>1. CASE t < c.obs
    <3>1. FirstFutureIndex(c, t) = 0
      BY <2>1 DEF FirstFutureIndex
    <3>2. FirstFutureIndex(d, t) \in Nat
      <4>1. CASE t < d.obs
        BY <4>1 DEF FirstFutureIndex
      <4>2. CASE ~(t < d.obs)
        <5>1. t - d.obs \in Nat
          BY <1>1, <4>2
        <5>2. (t - d.obs) \div Spacing \in Nat
          BY <5>1, DivisionMonotone
        <5> QED BY <4>2, <5>2 DEF FirstFutureIndex
      <4> QED BY <4>1, <4>2
    <3> QED BY <3>1, <3>2
  <2>2. CASE ~(t < c.obs)
    <3>1. t - c.obs \in Nat /\ t - d.obs \in Nat /\ t - c.obs <= t - d.obs /\ ~(t < d.obs)
      BY <1>1, <2>2
    <3>2. /\ (t - c.obs) \div Spacing \in Nat /\ (t - d.obs) \div Spacing \in Nat
          /\ (t - c.obs) \div Spacing <= (t - d.obs) \div Spacing
      BY <3>1, DivisionMonotone
    <3> QED BY <2>2, <3>1, <3>2 DEF FirstFutureIndex
  <2> QED BY <2>1, <2>2
<1>4. RemainingFutureCount(d, t) # 0
  BY DEF IsExpired
<1>5. FirstFutureIndex(d, t) < ChunkSize
  BY <1>3, <1>4 DEF RemainingFutureCount
<1>6. RemainingFutureCount(c, t) # 0
  BY <1>3, <1>5 DEF RemainingFutureCount
<1> QED BY <1>2, <1>6 DEF IsExpired

\* ... and the longer it covers a time it has reached.
LEMMA LaterCoversLonger ==
  ASSUME NEW c \in Chunk, NEW d \in Chunk, NEW t \in Int,
         d.obs <= c.obs, c.obs <= t, Covers(d, t)
  PROVE  Covers(c, t)
<1>1. c.obs \in Int /\ d.obs \in Int /\ (ChunkSize - 1) * Spacing \in Int
  <2>1. \A a, b \in Int : a * b \in Int
    OBVIOUS
  <2>2. ChunkSize - 1 \in Int /\ Spacing \in Int
    BY ChunkAssumption
  <2>3. (ChunkSize - 1) * Spacing \in Int
    BY <2>1, <2>2
  <2>4. c.obs \in Int /\ d.obs \in Int
    BY ChunkTimes
  <2> QED BY <2>3, <2>4
<1>2. t <= d.obs + (ChunkSize - 1) * Spacing
  BY DEF Covers, LastSampleTime, NominalTargetTime
<1>3. t <= c.obs + (ChunkSize - 1) * Spacing
  BY <1>1, <1>2
<1> QED BY <1>3 DEF Covers, LastSampleTime, NominalTargetTime

\* Of two chunks that cover t, the ensembler never takes the one with the
\* earlier observation and leaves the one with the later.
LEMMA LaterContributes ==
  ASSUME NEW C \in SUBSET Chunk, IsFiniteSet(C), NEW t \in Int,
         NEW c \in C, NEW d \in Contributors(C, t), Covers(c, t), d.obs < c.obs
  PROVE  c \in Contributors(C, t)
<1> DEFINE covering == {x \in C : Covers(x, t)}
           before(x) == {y \in covering : Precedes(y, x)}
<1>1. d \in C /\ Cardinality(before(d)) < MaxContributors
  BY DEF Contributors
<1>2. before(c) \subseteq before(d)
  <2>1. \A y \in C : y.obs \in Int
    BY ChunkTimes
  <2>2. \A y \in C : Precedes(y, c) => Precedes(y, d)
    <3>1. d.obs < c.obs /\ c.obs \in Int /\ d.obs \in Int
      BY <1>1, <2>1
    <3> QED BY <2>1, <3>1 DEF Precedes
  <2> QED BY <2>2
<1>3. IsFiniteSet(before(d))
  <2>1. before(d) \in SUBSET C
    OBVIOUS
  <2> HIDE DEF before
  <2> QED BY <2>1, FS_Subset
<1> HIDE DEF before
<1>4. IsFiniteSet(before(c)) /\ Cardinality(before(c)) <= Cardinality(before(d))
  BY <1>2, <1>3, FS_Subset
<1>5. Cardinality(before(c)) \in Nat /\ Cardinality(before(d)) \in Nat
  BY <1>3, <1>4, FS_CardinalityType
<1>6. Cardinality(before(c)) < MaxContributors
  BY <1>1, <1>4, <1>5, LoopAssumption
<1> QED BY <1>6 DEF Contributors, before

-----------------------------------------------------------------------------
(***************************************************************************)
(* The order of the observations.                                          *)
(***************************************************************************)
\* What the order of the observations reads.
orderVars == <<published, now, workerPC, inflight>>

\* A step that leaves chunks, clock and request alone keeps the order.
LEMMA OrderUntouched ==
  ASSUME ObservationOrder, UNCHANGED orderVars
  PROVE  ObservationOrder'
BY DEF orderVars, ObservationOrder, FreshAt

\* The steps of the worker: a request is observed after everything published,
\* and gets its place when the answer arrives.
LEMMA WorkerStepOrder ==
  ASSUME ControlInvariant, ObservationOrder, WorkerStep
  PROVE  ObservationOrder'
<1>1. /\ now \in Int /\ RebaseToPublication \in BOOLEAN
      /\ workerPC # "loop" => inflight \in Chunk
      /\ \A c \in published : c \in Chunk /\ c.obs \in Int /\ c.seq \in Int /\ c.seq <= latestSequence
      /\ \A c \in Chunk : c.captured \in Int /\ c.obs \in Int
  <2>1. now \in Int
    BY ChunkAssumption DEF ControlInvariant, WorkerTypeOK, Time
  <2>2. workerPC # "loop" => inflight \in Chunk
    BY DEF ControlInvariant, ThreadShape
  <2>3. \A c \in Chunk : c.captured \in Int /\ c.obs \in Int
    BY ChunkAssumption DEF Chunk, Time
  <2> QED BY <2>1, <2>2, <2>3, PublishedBelowLatest, WorkerAssumption DEF ControlInvariant
<1> USE <1>1 DEF At, bufferVars
<1>2. CASE WorkerBegins
  BY <1>2 DEF WorkerBegins, ObservationOrder, FreshAt
<1>3. CASE RecordFailure /\ UNCHANGED <<now, bufferVars>>
  BY <1>3 DEF RecordFailure, ObservationOrder, FreshAt
<1>4. CASE WorkerLocksState
  BY <1>4 DEF WorkerLocksState, ObservationOrder, FreshAt
<1>5. CASE WorkerReadsState /\ ~RecordFailure
  BY <1>5 DEF WorkerReadsState, ObservationOrder, FreshAt
<1>6. CASE PredictSucceeds
  <2>1. /\ now > inflight.captured /\ FreshAt(inflight.captured)
        /\ inflight.obs = inflight.captured /\ FreshAt(now)
    BY <1>6 DEF PredictSucceeds, ObservationOrder
  <2>2. inflight'.obs = IF RebaseToPublication THEN now ELSE inflight.obs
    BY <1>6 DEF PredictSucceeds, Chunk
  <2>3. \A c \in published : c.obs < inflight'.obs
    BY <2>1, <2>2, <1>6 DEF FreshAt, PredictSucceeds
  <2>4. inflight'.obs <= now /\ (inflight'.obs = now => RebaseToPublication)
    BY <2>1, <2>2, <1>6 DEF PredictSucceeds
  <2> QED BY <1>6, <2>3, <2>4 DEF PredictSucceeds, ObservationOrder, FreshAt
<1>7. CASE WorkerPublishes
  <2>1. CASE PublishAccepted(inflight)
    <3>1. published' = published \cup {inflight} /\ inflight.seq > latestSequence
      BY <2>1 DEF PublishAccepted, Accepts
    <3>2. /\ \A c \in published : c.obs < inflight.obs /\ c.seq < inflight.seq
          /\ inflight.obs <= now /\ (inflight.obs = now => RebaseToPublication)
      <4>1. inflight.seq \in Int /\ latestSequence \in Int
        BY <1>7, ChunkTimes, PublishedBelowLatest DEF WorkerPublishes, ControlInvariant
      <4> QED BY <1>7, <3>1, <4>1 DEF WorkerPublishes, ObservationOrder
    <3>3. inflight.obs \in Int /\ inflight.seq \in Int
      BY <1>7, ChunkTimes DEF WorkerPublishes
    <3>4. FreshAt(now)'
      BY <1>7, <3>1, <3>2 DEF WorkerPublishes, ObservationOrder, FreshAt
    <3>5. \A c, d \in published' : /\ c.seq < d.seq => c.obs < d.obs
                                   /\ c.seq = d.seq => c = d
      BY <3>1, <3>2, <3>3 DEF ObservationOrder
    <3> QED BY <1>7, <3>4, <3>5 DEF WorkerPublishes, ObservationOrder
  <2>2. CASE PublishDiscarded(inflight)
    BY <1>7, <2>2 DEF WorkerPublishes, PublishDiscarded, ObservationOrder, FreshAt
  <2> QED BY <1>7, <2>1, <2>2 DEF WorkerPublishes, Publish
<1>8. CASE WorkerRecords
  BY <1>8 DEF WorkerRecords, ObservationOrder, FreshAt
<1>9. CASE WorkerExits
  BY <1>9, OrderUntouched DEF WorkerExits, orderVars
<1> QED BY <1>2, <1>3, <1>4, <1>5, <1>6, <1>7, <1>8, <1>9
        DEF WorkerStep, CameraFails, WorkerReadsState, PredictFails

\* The clock only adds distance to what was published; everyone else leaves
\* chunks and request alone.
LEMMA OthersKeepOrder ==
  ASSUME ControlInvariant, ObservationOrder, [ControlNext]_vars, ~WorkerStep
  PROVE  ObservationOrder'
<1>1. CASE ClockTicks
  <2>1. now \in Int /\ \A c \in published : c.obs \in Int
    BY ChunkTimes, PublishedBelowLatest, ChunkAssumption DEF ControlInvariant, WorkerTypeOK, Time
  <2>2. workerPC # "loop" => inflight.captured \in Int /\ inflight.obs \in Int
    BY ChunkAssumption DEF ControlInvariant, ThreadShape, Chunk, Time
  <2>3. now' = now + 1 /\ UNCHANGED <<published, workerPC, inflight>>
    BY <1>1 DEF ClockTicks, workerVars, bufferVars
  <2> QED BY <2>1, <2>2, <2>3 DEF ObservationOrder, FreshAt
<1>2. CASE ~ClockTicks
  <2>1. workerThread # "alive" => workerPC = "loop"
    BY DEF ControlInvariant, ThreadShape
  <2>2. UNCHANGED orderVars
    BY <1>2, <2>1 DEF ControlNext, Threads, OtherReaders, Owns, OwnsWorker, OwnsLoop, OthersRead,
       OthersLock, OthersRelease, StartWorker, SignalWorkerStop, JoinWorker,
       LoopStep, StartLoop, SignalLoopStop, JoinLoop, TickBegins, LoopLocksState,
       LoopReadsState, Plan, Decide, WriteExecuted, WriteFails, LoopExits,
       vars, wvars, workerVars, bufferVars, orderVars
  <2> QED BY <2>2, OrderUntouched
<1> QED BY <1>1, <1>2

-----------------------------------------------------------------------------
(***************************************************************************)
(* The chunks a tick blends.                                               *)
(***************************************************************************)
AimTime == actualStart + Lookahead

\* What contributes is held, not quarantined, not expired, covers the time
\* aimed at, and is one of the contributors the ensembler takes.
LEMMA BlendedChunks ==
  ASSUME ControlInvariant
  PROVE  /\ Held \subseteq published /\ published \subseteq Chunk /\ AimTime \in Int
         /\ Candidates \in SUBSET Chunk /\ Candidates \subseteq Held /\ IsFiniteSet(Candidates)
         /\ \A s \in Contributing :
              \E d \in Contributors(Candidates, AimTime) :
                d.seq = s /\ d \in Candidates /\ Covers(d, AimTime)
<1>1. /\ Held \subseteq published /\ published \subseteq Chunk
      /\ Candidates \subseteq Held
  BY DEF ControlInvariant, BufferInvariant, BufferTypeOK, HoldsNewest, Candidates, ValidChunks
<1>2. AimTime \in Int
  BY ChunkAssumption, LoopAssumption DEF ControlInvariant, LoopTypeOK, Time, AimTime
<1>3. IsFiniteSet(Held)
  <2> DEFINE f == [i \in 1..Len(chunks) |-> chunks[i]]
  <2>1. Len(chunks) \in Nat /\ DOMAIN chunks = 1..Len(chunks)
    BY DEF ControlInvariant, BufferInvariant, BufferTypeOK
  <2>2. f \in Surjection(1..Len(chunks), Held)
    BY <2>1 DEF Surjection, Held
  <2>3. 1 \in Int /\ Len(chunks) \in Int
    BY <2>1
  <2>4. IsFiniteSet(1..Len(chunks))
    BY <2>3, FS_Interval, Zenon
  <2> QED BY <2>2, <2>4, FS_Surjection
<1>4. IsFiniteSet(Candidates)
  BY <1>1, <1>3, FS_Subset
<1>5. \A s \in Contributing :
        \E d \in Contributors(Candidates, AimTime) :
          d.seq = s /\ d \in Candidates /\ Covers(d, AimTime)
  BY DEF Contributing, SequencesOf, Contributors, AimTime
<1> QED BY <1>1, <1>2, <1>4, <1>5

\* The heart of the refinement: a chunk of the last target that was not
\* rejected is blended again as long as any older chunk is.  It is still held
\* while an older one is; its observation is later, so it expires later and
\* covers longer; and the ensembler prefers it.
LEMMA NoWayBack ==
  ASSUME StreamInvariant, NEW p \in lastPrimary.seqs, p \notin rejected,
         NEW s \in Contributing
  PROVE  \E r \in Contributing : p <= r
<1> SUFFICES ASSUME \A r \in Contributing : ~(p <= r) PROVE FALSE
  OBVIOUS
<1>1. ControlInvariant
  BY DEF StreamInvariant
<1>2. PICK c \in published : c.seq = p
  BY DEF StreamInvariant, FromPublished, SequencesOf
<1>3. PICK d \in Contributors(Candidates, AimTime) :
        d.seq = s /\ d \in Candidates /\ Covers(d, AimTime)
  BY <1>1, BlendedChunks
<1>4. /\ c \in Chunk /\ d \in Chunk /\ d \in Held /\ d \in published
      /\ Candidates \in SUBSET Chunk /\ IsFiniteSet(Candidates) /\ AimTime \in Int
  BY <1>1, <1>2, <1>3, BlendedChunks
<1>5. c.seq \in Int /\ d.seq \in Int /\ c.obs \in Int /\ d.obs \in Int
  BY <1>4, ChunkTimes
<1>6. d.seq < c.seq
  BY <1>2, <1>3, <1>5
<1>7. d.obs < c.obs
  BY <1>2, <1>4, <1>6 DEF StreamInvariant, ObservationOrder
<1>8. c \in Held
  <2>1. c \notin Held => c.seq < d.seq
    BY <1>1, <1>2, <1>4 DEF ControlInvariant, BufferInvariant, HoldsNewest
  <2> QED BY <1>5, <1>6, <2>1
<1>9. c \in Candidates
  <2>1. actualStart \in Time
    BY <1>1 DEF ControlInvariant, LoopTypeOK
  <2>2. ~IsExpired(d, actualStart)
    BY <1>3 DEF Candidates, ValidChunks
  <2>3. ~IsExpired(c, actualStart)
    BY <1>4, <1>5, <1>7, <2>1, <2>2, LaterExpiresLater
  <2>4. c.seq \notin Pruned
    BY <1>2 DEF StreamInvariant, FromPublished, Pruned
  <2> QED BY <1>8, <2>3, <2>4 DEF Candidates, ValidChunks
<1>10. Covers(c, AimTime)
  <2>1. c.obs <= AimTime
    BY <1>2 DEF StreamInvariant, AimedPast, AimTime
  <2> QED BY <1>3, <1>4, <1>5, <1>7, <2>1, LaterCoversLonger
<1>11. c \in Contributors(Candidates, AimTime)
  BY <1>3, <1>4, <1>7, <1>9, <1>10, LaterContributes
<1>12. p \in Contributing
  BY <1>2, <1>11 DEF Contributing, SequencesOf, AimTime
<1> QED BY <1>2, <1>5, <1>12

-----------------------------------------------------------------------------
(***************************************************************************)
(* The loop's hands.                                                       *)
(***************************************************************************)
HandsInvariant == FromPublished /\ TargetShape /\ AimedPast

\* What the loop holds, and the chunks it was published with.
handVars == <<quarantine, rejected, command, lastPrimary, loopPC, outcome, actualStart>>

\* The worker may only add chunks, with numbers nothing in the loop's hands has.
LEMMA PublishKeepsHands ==
  ASSUME StreamInvariant, [ControlNext]_vars, UNCHANGED handVars
  PROVE  HandsInvariant'
<1>1. /\ ControlInvariant /\ FromPublished /\ TargetShape /\ AimedPast
      /\ latestSequence \in Int
      /\ \A c \in published : c \in Chunk /\ c.seq \in Int /\ c.seq <= latestSequence
  BY PublishedBelowLatest DEF StreamInvariant, ControlInvariant
<1>2. published' = published \/ \E c \in Chunk : c.seq > latestSequence /\ published' = published \cup {c}
  <2>1. CASE WorkerPublishes
    <3>1. inflight \in Chunk
      BY <1>1, <2>1 DEF ControlInvariant, ThreadShape, WorkerPublishes, At
    <3> QED BY <2>1, <3>1 DEF WorkerPublishes, Publish, PublishAccepted, PublishDiscarded, Accepts,
            bufferVars
  <2>2. CASE ~WorkerPublishes
    BY <2>2 DEF vars, wvars, ControlNext, Threads, Owns, OtherReaders, OwnsWorker, OwnsLoop,
         WorkerStep, LoopStep, ClockTicks, OthersRead, OthersLock, OthersRelease,
         StartWorker, SignalWorkerStop, JoinWorker, WorkerBegins, CameraFails,
         WorkerLocksState, WorkerReadsState, PredictSucceeds, PredictFails, WorkerRecords,
         WorkerExits, StartLoop, SignalLoopStop, JoinLoop, TickBegins, LoopLocksState,
         LoopReadsState, Plan, Decide, WriteExecuted, WriteFails, LoopExits, bufferVars
  <2> QED BY <2>1, <2>2
<1>3. SequencesOf(published) \subseteq SequencesOf(published')
  BY <1>2 DEF SequencesOf
<1>4. FromPublished' /\ TargetShape'
  BY <1>1, <1>3 DEF FromPublished, TargetShape, handVars
<1>5. AimedPast'
  <2>1. \A c \in published' : c \in published \/ c.seq \notin command.seqs \cup lastPrimary.seqs
    <3>1. \A q \in command.seqs \cup lastPrimary.seqs : q \in Int /\ q <= latestSequence
      BY <1>1 DEF FromPublished, SequencesOf
    <3> QED BY <1>1, <1>2, <3>1, ChunkTimes
  <2> QED BY <1>1, <2>1 DEF AimedPast, handVars
<1> QED BY <1>4, <1>5 DEF HandsInvariant

\* Planning: what contributes was published, aims at a time it has reached,
\* and a rejected number was among it.
LEMMA PlanKeepsHands ==
  ASSUME StreamInvariant, Plan
  PROVE  HandsInvariant'
<1>1. /\ ControlInvariant /\ FromPublished /\ TargetShape /\ AimedPast /\ ObservationOrder
      /\ loopPC = "plan" /\ loopPC' = "decide" /\ command.seqs = {}
      /\ UNCHANGED <<published, lastPrimary, actualStart>>
  BY DEF StreamInvariant, ControlInvariant, ThreadShape, Plan, LoopAt, wvars, bufferVars
<1>2. Contributing \subseteq SequencesOf(published)
  BY <1>1, BlendedChunks DEF SequencesOf
<1>3. Pruned \subseteq quarantine
  BY DEF Pruned
<1>4. Contributing # {} => Newest(Contributing) \in Contributing
  BY <1>1, TickSelection
<1>5. FromPublished'
  <2>1. CASE PlansTarget
    BY <1>1, <1>2, <1>3, <2>1 DEF PlansTarget, FromPublished, NoCommand
  <2>2. CASE PlansRejection
    BY <1>1, <1>2, <1>3, <1>4, <2>2 DEF PlansRejection, FromPublished
  <2>3. CASE PlansBlock \/ PlansFault
    BY <1>1, <1>3, <2>3 DEF PlansBlock, PlansFault, FromPublished
  <2> QED BY <2>1, <2>2, <2>3 DEF Plan
<1>6. TargetShape'
  <2>1. CASE PlansTarget
    <3>1. command'.seqs = Contributing
      BY <2>1 DEF PlansTarget, NoCommand
    <3>2. outcome' = "TARGET" <=> Contributing # {}
      <4>1. Candidates = {} => Contributing = {}
        BY <1>1, BlendedChunks
      <4> QED BY <2>1, <4>1 DEF PlansTarget
    <3> QED BY <1>1, <3>1, <3>2 DEF TargetShape
  <2>2. CASE PlansRejection \/ PlansBlock \/ PlansFault
    BY <1>1, <2>2 DEF PlansRejection, PlansBlock, PlansFault, TargetShape
  <2> QED BY <2>1, <2>2 DEF Plan
<1>7. AimedPast'
  <2>1. command'.seqs \subseteq Contributing
    BY <1>1 DEF Plan, PlansTarget, PlansRejection, PlansBlock, PlansFault, NoCommand
  <2>2. ASSUME NEW c \in published, c.seq \in Contributing
        PROVE  c.obs <= actualStart + Lookahead
    <3>1. PICK d \in Contributors(Candidates, AimTime) :
            d.seq = c.seq /\ d \in Candidates /\ Covers(d, AimTime)
      BY <1>1, <2>2, BlendedChunks
    <3>2. d \in published
      BY <1>1, <3>1, BlendedChunks
    <3>3. c = d
      BY <1>1, <3>1, <3>2 DEF ObservationOrder
    <3> QED BY <3>1, <3>3 DEF Covers, AimTime
  <2> QED BY <1>1, <2>1, <2>2 DEF AimedPast
<1> QED BY <1>5, <1>6, <1>7 DEF HandsInvariant

\* The other steps of the loop and of its owner: a target is passed on, sent
\* or dropped, and a new tick aims at a later time.
LEMMA LoopKeepsHands ==
  ASSUME StreamInvariant, LoopStep \/ OwnsLoop, ~Plan
  PROVE  HandsInvariant'
<1>1. /\ FromPublished /\ TargetShape /\ AimedPast
      /\ loopThread # "alive" => loopPC = "check"
      /\ loopPC \notin {"decide", "write"} => command.seqs = {}
  BY DEF StreamInvariant, ControlInvariant, ThreadShape
<1>2. /\ actualStart \in Int /\ now \in Int /\ Lookahead \in Int /\ actualStart <= now
      /\ \A c \in published : c.obs \in Int
  BY ChunkTimes, PublishedBelowLatest, ChunkAssumption, LoopAssumption
  DEF StreamInvariant, ControlInvariant, LoopTypeOK, WorkerTypeOK, RejectedIsGone, Time
<1>3. UNCHANGED <<published, rejected, quarantine>>
  BY DEF LoopStep, OwnsLoop, StartLoop, SignalLoopStop, JoinLoop, TickBegins, LoopLocksState,
     LoopReadsState, Decide, WriteExecuted, WriteFails, LoopExits, loopTick, loopHistory,
     wvars, bufferVars
<1>4. /\ command'.seqs \subseteq command.seqs
      /\ lastPrimary'.seqs \subseteq command.seqs \cup lastPrimary.seqs
      /\ actualStart' \in {actualStart, now}
  <2>1. CASE Decide
    BY <2>1 DEF Decide, DecidesPrimary, DecidesHold, DecidesNoWrite, BeginWrite, EndTick, NoCommand
  <2>2. CASE WriteExecuted
    BY <2>2 DEF WriteExecuted, EndTick, NoCommand
  <2>3. CASE ~Decide /\ ~WriteExecuted
    BY <2>3 DEF LoopStep, OwnsLoop, StartLoop, SignalLoopStop, JoinLoop, TickBegins,
       LoopLocksState, LoopReadsState, WriteFails, LoopExits, EndTick, NoCommand,
       loopTick, loopHistory
  <2> QED BY <2>1, <2>2, <2>3
<1>5. FromPublished'
  BY <1>1, <1>3, <1>4 DEF FromPublished
<1>6. AimedPast'
  BY <1>1, <1>2, <1>3, <1>4 DEF AimedPast
<1>7. TargetShape'
  <2> USE DEF TargetShape, LoopAt
  <2>1. CASE Decide
    <3>1. CASE DecidesPrimary
      BY <1>1, <2>1, <3>1 DEF Decide, DecidesPrimary, BeginWrite
    <3>2. CASE DecidesHold
      BY <1>1, <2>1, <3>2 DEF Decide, DecidesHold, BeginWrite
    <3>3. CASE DecidesNoWrite
      BY <2>1, <3>3 DEF Decide, DecidesNoWrite, EndTick
    <3> QED BY <2>1, <3>1, <3>2, <3>3 DEF Decide
  <2>2. CASE LoopReadsState
    BY <1>1, <2>2 DEF LoopReadsState
  <2>3. CASE ~Decide /\ ~LoopReadsState
    BY <1>1, <2>3 DEF LoopStep, OwnsLoop, StartLoop, SignalLoopStop, JoinLoop, TickBegins,
       LoopLocksState, WriteExecuted, WriteFails, LoopExits, EndTick, loopTick, loopHistory
  <2> QED BY <2>1, <2>2, <2>3
<1> QED BY <1>5, <1>6, <1>7 DEF HandsInvariant

\* The invariant of the refinement holds in every state.
THEOREM StreamCorrect == ControlSpec => []StreamInvariant
<1>1. ControlInit => StreamInvariant
  <2> SUFFICES ASSUME ControlInit PROVE StreamInvariant
    OBVIOUS
  <2>1. ControlInvariant
    BY ControlInitInvariant
  <2> QED BY <2>1
      DEF StreamInvariant, ObservationOrder, FreshAt, FromPublished, TargetShape, AimedPast,
          ControlInit, BufferInit, WorkerInit, LoopInit, NoCommand, SequencesOf
<1>2. StreamInvariant /\ [ControlNext]_vars /\ ControlInvariant' => StreamInvariant'
  <2> SUFFICES ASSUME StreamInvariant, [ControlNext]_vars, ControlInvariant'
               PROVE  StreamInvariant'
    OBVIOUS
  <2>1. ObservationOrder'
    BY WorkerStepOrder, OthersKeepOrder DEF StreamInvariant
  <2>2. HandsInvariant'
    <3>1. CASE LoopStep \/ OwnsLoop
      BY <3>1, PlanKeepsHands, LoopKeepsHands
    <3>2. CASE ~(LoopStep \/ OwnsLoop)
      <4>1. UNCHANGED handVars
        BY <3>2 DEF ControlNext, Threads, OtherReaders, Owns, vars, handVars, loopVars,
           loopControl, loopTick, loopHistory
      <4> QED BY <4>1, PublishKeepsHands
    <3> QED BY <3>1, <3>2
  <2> QED BY <2>1, <2>2 DEF StreamInvariant, HandsInvariant
<1> QED BY <1>1, <1>2, ControlCorrect, PTL DEF ControlSpec

-----------------------------------------------------------------------------
(***************************************************************************)
(* Step simulation.                                                        *)
(***************************************************************************)
\* A publication offers a number above all before, or changes nothing.
LEMMA PublishOffers ==
  ASSUME StreamInvariant, WorkerPublishes, UNCHANGED loopVars
  PROVE  [Stream!StreamNext]_(Stream!streamVars)
<1>1. UNCHANGED <<rejected, command, lastPrimary>>
  BY DEF loopVars, loopTick, loopHistory
<1>2. CASE PublishDiscarded(inflight)
  BY <1>1, <1>2 DEF PublishDiscarded, bufferVars, Stream!streamVars
<1>3. CASE PublishAccepted(inflight)
  <2>1. inflight \in Chunk
    BY DEF StreamInvariant, ControlInvariant, ThreadShape, WorkerPublishes, At
  <2>2. inflight.seq > latestSequence /\ published' = published \cup {inflight}
    BY <1>3 DEF PublishAccepted, Accepts
  <2>3. \A r \in SequencesOf(published) : r < inflight.seq
    BY <2>1, <2>2, ChunkTimes, PublishedBelowLatest DEF StreamInvariant, ControlInvariant, SequencesOf
  <2>4. SequencesOf(published') = SequencesOf(published) \cup {inflight.seq}
    BY <2>2 DEF SequencesOf
  <2>5. inflight.seq \in Sequence
    BY <2>1 DEF Chunk
  <2>6. Stream!Offer(inflight.seq)
    BY <1>1, <2>3, <2>4 DEF Stream!Offer
  <2> QED BY <2>5, <2>6 DEF Stream!StreamNext
<1> QED BY <1>2, <1>3 DEF WorkerPublishes, Publish

\* Planning a target blends, planning a rejection rejects.
LEMMA PlanBlends ==
  ASSUME StreamInvariant, Plan
  PROVE  [Stream!StreamNext]_(Stream!streamVars)
<1>1. /\ ControlInvariant /\ command.seqs = {}
      /\ UNCHANGED <<published, lastPrimary>>
  BY DEF StreamInvariant, ControlInvariant, ThreadShape, Plan, LoopAt, wvars, bufferVars
<1>2. Contributing \subseteq SequencesOf(published) \ rejected
  <2>1. Contributing \subseteq SequencesOf(published)
    BY <1>1, BlendedChunks DEF SequencesOf
  <2>2. ASSUME NEW r \in Contributing, r \in rejected PROVE FALSE
    <3>1. PICK c \in Held : c.seq = r /\ ~IsExpired(c, actualStart)
      BY <1>1, TickSelection
    <3>2. r \notin quarantine
      BY <1>1, TickSelection
    <3> QED BY <1>1, <2>2, <3>1, <3>2 DEF ControlInvariant, RejectedIsGone
  <2> QED BY <2>1, <2>2
<1>3. CASE PlansTarget
  <2>1. command'.seqs = Contributing /\ rejected' = rejected
    BY <1>3 DEF PlansTarget, NoCommand
  <2>2. CASE Contributing = {}
    BY <1>1, <2>1, <2>2 DEF Stream!streamVars
  <2>3. CASE Contributing # {}
    <3>1. \A p \in lastPrimary.seqs :
            (\E r \in Contributing : p <= r) \/ (\E q \in rejected : \A r \in Contributing : r < q)
      <4> SUFFICES ASSUME NEW p \in lastPrimary.seqs, \A r \in Contributing : ~(p <= r)
                   PROVE  \E q \in rejected : \A r \in Contributing : r < q
        OBVIOUS
      <4>1. p \in rejected
        BY <2>3, NoWayBack
      <4>2. p \in Int /\ \A r \in Contributing : r \in Int
        BY <1>1, <1>2, ChunkTimes, BlendedChunks
        DEF StreamInvariant, FromPublished, SequencesOf
      <4> QED BY <4>1, <4>2
    <3>2. Stream!Blend(Contributing)
      BY <1>1, <1>2, <2>1, <3>1 DEF Stream!Blend
    <3> QED BY <1>2, <3>2 DEF Stream!StreamNext
  <2> QED BY <2>2, <2>3
<1>4. CASE PlansRejection
  <2>1. Newest(Contributing) \in SequencesOf(published) \ rejected
    BY <1>1, <1>2, <1>4, TickSelection DEF PlansRejection
  <2>2. Newest(Contributing) \in Sequence
    BY <1>1, <1>4, TickSelection DEF PlansRejection
  <2>3. Stream!Reject(Newest(Contributing))
    BY <1>1, <1>4, <2>1 DEF PlansRejection, Stream!Reject
  <2> QED BY <2>2, <2>3 DEF Stream!StreamNext
<1>5. CASE PlansBlock \/ PlansFault
  BY <1>1, <1>5 DEF PlansBlock, PlansFault, Stream!streamVars
<1> QED BY <1>3, <1>4, <1>5 DEF Plan

\* A write that arrives or fails settles the target; a hold, a tick without a
\* target, and everything the owner does leave the stream alone.
LEMMA LoopSettles ==
  ASSUME StreamInvariant, LoopStep \/ OwnsLoop, ~Plan
  PROVE  [Stream!StreamNext]_(Stream!streamVars)
<1>1. /\ TargetShape /\ UNCHANGED <<published, rejected>>
      /\ loopPC \notin {"decide", "write"} => command.seqs = {}
      /\ loopThread # "alive" => loopPC = "check"
  BY DEF StreamInvariant, ControlInvariant, ThreadShape, LoopStep, OwnsLoop, StartLoop,
     SignalLoopStop, JoinLoop, TickBegins, LoopLocksState, LoopReadsState, Decide,
     WriteExecuted, WriteFails, LoopExits, loopTick, loopHistory, wvars, bufferVars
<1>2. CASE WriteExecuted \/ WriteFails
  <2>1. loopPC = "write" /\ command'.seqs = {}
    BY <1>2 DEF WriteExecuted, WriteFails, LoopAt, EndTick, NoCommand
  <2>2. CASE command.path = "primary"
    <3>1. command.seqs # {}
      BY <1>1, <2>1, <2>2 DEF TargetShape
    <3>2. lastPrimary'.seqs \in {lastPrimary.seqs, command.seqs}
      BY <1>2, <2>2 DEF WriteExecuted, WriteFails, loopHistory
    <3>3. Stream!Settle
      BY <1>1, <2>1, <3>1, <3>2 DEF Stream!Settle
    <3> QED BY <3>3 DEF Stream!StreamNext
  <2>3. CASE command.path # "primary"
    <3>1. command.seqs = {}
      BY <1>1, <2>1, <2>3 DEF TargetShape
    <3>2. lastPrimary' = lastPrimary
      BY <1>2, <2>3 DEF WriteExecuted, WriteFails, loopHistory
    <3> QED BY <1>1, <2>1, <3>1, <3>2 DEF Stream!streamVars
  <2> QED BY <2>2, <2>3
<1>3. CASE Decide
  <2>1. loopPC = "decide" /\ lastPrimary' = lastPrimary
    BY <1>3 DEF Decide, LoopAt
  <2>2. command'.seqs = command.seqs
    <3>1. CASE DecidesPrimary
      BY <3>1 DEF DecidesPrimary, BeginWrite
    <3>2. CASE DecidesHold
      BY <1>1, <2>1, <3>2 DEF DecidesHold, HoldAllowed, BeginWrite, TargetShape
    <3>3. CASE DecidesNoWrite
      BY <1>1, <2>1, <3>3 DEF DecidesNoWrite, EndTick, NoCommand, TargetShape
    <3> QED BY <1>3, <3>1, <3>2, <3>3 DEF Decide
  <2> QED BY <1>1, <2>1, <2>2 DEF Stream!streamVars
<1>4. CASE ~WriteExecuted /\ ~WriteFails /\ ~Decide
  <2>1. UNCHANGED <<command, lastPrimary>>
    BY <1>4 DEF LoopStep, OwnsLoop, StartLoop, SignalLoopStop, JoinLoop, TickBegins,
       LoopLocksState, LoopReadsState, LoopExits, loopTick, loopHistory
  <2> QED BY <1>1, <2>1 DEF Stream!streamVars
<1> QED BY <1>2, <1>3, <1>4

\* The other steps of the worker, other readers and the clock change nothing
\* the stream sees.
LEMMA OthersStutter ==
  ASSUME [ControlNext]_vars, ~WorkerPublishes, ~(LoopStep \/ OwnsLoop)
  PROVE  UNCHANGED Stream!streamVars
<1>1. UNCHANGED <<published, rejected, command, lastPrimary>>
  BY DEF vars, wvars, ControlNext, Threads, Owns, OtherReaders, OwnsWorker,
     WorkerStep, ClockTicks, OthersRead, OthersLock, OthersRelease,
     StartWorker, SignalWorkerStop, JoinWorker, WorkerBegins, CameraFails,
     WorkerLocksState, WorkerReadsState, PredictSucceeds, PredictFails, WorkerRecords,
     WorkerExits, bufferVars, loopVars, loopTick, loopHistory
<1> QED BY <1>1 DEF Stream!streamVars

\* Worker, buffer and loop implement the command stream, whatever their
\* interleaving and whatever their owner does: no rejected chunk is sent, and
\* the targets never go back to older chunks unless a newer one was rejected
\* (_do_tick, TemporalEnsembler._select_contributors, TrajectoryBuffer.publish).
THEOREM RuntimeImplementsStream == ControlSpec => ImplementsCommandStream
<1>1. ControlInit => Stream!StreamInit
  BY DEF ControlInit, BufferInit, LoopInit, NoCommand, SequencesOf, Stream!StreamInit
<1>2. StreamInvariant /\ [ControlNext]_vars => [Stream!StreamNext]_(Stream!streamVars)
  <2> SUFFICES ASSUME StreamInvariant, [ControlNext]_vars
               PROVE  [Stream!StreamNext]_(Stream!streamVars)
    OBVIOUS
  <2>1. CASE LoopStep \/ OwnsLoop
    BY <2>1, PlanBlends, LoopSettles
  <2>2. CASE WorkerPublishes /\ ~(LoopStep \/ OwnsLoop)
    <3>1. UNCHANGED loopVars
      BY <2>2 DEF ControlNext, Threads, OtherReaders, Owns, vars
    <3> QED BY <2>2, <3>1, PublishOffers
  <2>3. CASE ~WorkerPublishes /\ ~(LoopStep \/ OwnsLoop)
    BY <2>3, OthersStutter
  <2> QED BY <2>1, <2>2, <2>3
<1>3. ControlSpec => []StreamInvariant
  BY StreamCorrect
<1> QED BY <1>1, <1>2, <1>3, PTL DEF ControlSpec, ImplementsCommandStream, Stream!StreamSpec

(***************************************************************************)
(* The session: the strengthened invariant.                                *)
(***************************************************************************)
BeforeLoop == {"start", "await", "admit", "admitJoin", "admitCheck", "abort", "startLoop"}
AfterLoop == {"stopWorker", "joinWorker"}
Return == {"return", "returnRead", "returnWrite"}

\* Where the main thread is tells which of its threads can still be alive: the
\* loop does not exist before it is started, and behind a join a thread is
\* gone or known to be abandoned.
ThreadsByPlace ==
  /\ mainPC \in BeforeLoop => loopThread = "none"
  /\ mainPC = "admitCheck" => workerThread = "none"
  /\ mainPC \in AfterLoop \cup Return /\ "loop" \notin abandoned => loopThread = "none"
  /\ mainPC \in Return /\ "worker" \notin abandoned => workerThread = "none"
  /\ returning => mainPC = "returnWrite"
  /\ mainPC = "end" /\ abandoned = {} => loopThread # "alive" /\ workerThread # "alive"
  /\ loopThread = "alive" =>
       mainPC \in {"monitor", "stopLoop", "joinLoop"} \/ "loop" \in abandoned

\* What the main thread waited for stays true: something was published.
UsableSeen ==
  mainPC \in {"admit", "admitJoin", "admitCheck", "startLoop"} \/ loopThread # "none" =>
    published # {}

\* A single chunk that was admitted is all that was ever published.
OneAdmitted ==
  SingleChunk /\ (mainPC = "startLoop" \/ loopThread # "none") =>
    /\ workerThread = "none"
    /\ Len(chunks) = 1 /\ published = Held
    /\ SequencesOf(published) = {InitialSequence}

\* The worker counts upwards from InitialSequence.
NumbersFromInitial ==
  /\ \A c \in published : InitialSequence <= c.seq
  /\ workerPC # "loop" => InitialSequence <= inflight.seq

SessionInvariant == ThreadsByPlace /\ UsableSeen /\ OneAdmitted /\ NumbersFromInitial

-----------------------------------------------------------------------------
(***************************************************************************)
(* The session is an owner of the two threads.                             *)
(***************************************************************************)
\* Each step of the main thread is a call of start(), stop() or of the state
\* source, or touches nothing of the runtime.
LEMMA MainStepOwns ==
  ASSUME MainStep
  PROVE  Owns \/ OtherReaders \/ UNCHANGED vars
<1> USE DEF CallsWorker, Alone, Owns, OwnsWorker, OwnsLoop, OtherReaders, OthersRead
<1>1. CASE Starts \/ AwaitEnds \/ AwaitTimesOut \/ AdmitStops \/ AdmitJoins \/ AdmitFails
           \/ AdmitAccepts \/ AbortJoins \/ StartsLoop
  BY <1>1 DEF Starts, AwaitEnds, AwaitTimesOut, AdmitStops, AdmitJoins, AdmitFails,
     AdmitAccepts, AbortJoins, StartsLoop
<1>2. CASE (\E why \in Reasons : MonitorStops(why)) \/ MonitorRaises \/ ShutdownSignalsLoop
           \/ ShutdownJoinsLoop \/ ShutdownSignalsWorker \/ ShutdownJoinsWorker \/ Interrupted
  BY <1>2 DEF MonitorStops, MonitorRaises, ShutdownSignalsLoop, ShutdownJoinsLoop,
     ShutdownSignalsWorker, ShutdownJoinsWorker, Interrupted
<1>3. CASE ReturnLocks \/ ReturnReads \/ ReturnWrites
  BY <1>3 DEF ReturnLocks, ReturnReads, ReturnWrites
<1> QED BY <1>1, <1>2, <1>3 DEF MainStep

\* Every step of a session is one of the threads, of their owner, of another
\* reader of the follower, or leaves the runtime alone.
LEMMA SessionStepControls ==
  ASSUME [SessionNext]_svars
  PROVE  [ControlNext]_vars
<1>1. CASE MainStep
  BY <1>1, MainStepOwns DEF ControlNext
<1>2. CASE ~MainStep
  BY <1>2 DEF SessionNext, Finished, svars, ControlNext
<1> QED BY <1>1, <1>2

\* A session of any mode is a behaviour of RealtimeControl: the main thread
\* (run(), the orchestrators and the return to start) is one of the owners
\* its theorems quantify over.
THEOREM SessionRefinesControl == SessionSpec => ControlSpec
<1>1. SessionInit => ControlInit
  BY DEF SessionInit
<1>2. [SessionNext]_svars => [ControlNext]_vars
  BY SessionStepControls
<1> QED BY <1>1, <1>2, PTL DEF SessionSpec, ControlSpec

\* The same as the action property that is model-checked.
THEOREM SessionsUseControl == SessionSpec => SessionUsesControl
<1> QED BY SessionRefinesControl, PTL DEF SessionUsesControl, ControlSpec

-----------------------------------------------------------------------------
(***************************************************************************)
(* The threads.                                                            *)
(***************************************************************************)
\* By themselves the threads only end, and only a thread that is alive
\* publishes.
LEMMA ThreadsOnlyEnd ==
  ASSUME Threads
  PROVE  /\ loopThread' = loopThread \/ (loopThread = "alive" /\ loopThread' = "ended")
         /\ workerThread' = workerThread \/ (workerThread = "alive" /\ workerThread' = "ended")
         /\ published \subseteq published'
         /\ workerThread # "alive" => UNCHANGED bufferVars
<1> USE DEF At, LoopAt, loopVars, loopControl, wvars, workerVars, bufferVars
<1>1. CASE WorkerStep /\ UNCHANGED loopVars
  BY <1>1 DEF WorkerStep, WorkerBegins, CameraFails, WorkerLocksState, WorkerReadsState,
     PredictSucceeds, PredictFails, RecordFailure, WorkerPublishes, Publish, PublishAccepted,
     PublishDiscarded, WorkerRecords, WorkerExits
<1>2. CASE LoopStep
  BY <1>2 DEF LoopStep, TickBegins, LoopLocksState, LoopReadsState, Plan, Decide,
     WriteExecuted, WriteFails, LoopExits
<1>3. CASE ClockTicks /\ UNCHANGED loopVars
  BY <1>3 DEF ClockTicks
<1> QED BY <1>1, <1>2, <1>3 DEF Threads

\* The main thread never touches the buffer.
LEMMA MainKeepsBuffer ==
  ASSUME MainStep
  PROVE  UNCHANGED bufferVars
<1> USE DEF Owns, OwnsWorker, OwnsLoop, OtherReaders, OthersRead, vars, wvars
<1>1. CASE Owns
  BY <1>1 DEF StartWorker, SignalWorkerStop, JoinWorker, StartLoop, SignalLoopStop, JoinLoop
<1>2. CASE OtherReaders
  BY <1>2 DEF OthersLock, OthersRelease
<1> QED BY <1>1, <1>2, MainStepOwns

\* No number below InitialSequence is ever given out or published.
LEMMA NumbersKeepInitial ==
  ASSUME ControlInvariant, NumbersFromInitial, [ControlNext]_vars
  PROVE  NumbersFromInitial'
<1>1. /\ nextSequence \in Int /\ InitialSequence \in Int /\ InitialSequence <= nextSequence
      /\ workerThread # "alive" => workerPC = "loop"
  <2>1. InitialSequence \in Int /\ MaxSequence \in Int
    BY ChunkAssumption, WorkerAssumption DEF Sequence
  <2> QED BY <2>1 DEF ControlInvariant, WorkerTypeOK, ThreadShape
<1> USE DEF NumbersFromInitial, At
<1>2. CASE WorkerBegins
  BY <1>1, <1>2 DEF WorkerBegins, bufferVars
<1>3. CASE PredictSucceeds
  <2>1. inflight'.seq = inflight.seq
    <3>1. inflight \in Chunk
      BY <1>3 DEF PredictSucceeds, ControlInvariant, ThreadShape
    <3> QED BY <1>3, <3>1 DEF PredictSucceeds, Chunk
  <2> QED BY <1>3, <2>1 DEF PredictSucceeds, bufferVars
<1>4. CASE WorkerPublishes
  BY <1>4 DEF WorkerPublishes, Publish, PublishAccepted, PublishDiscarded, bufferVars
<1>5. CASE ~(WorkerBegins \/ PredictSucceeds \/ WorkerPublishes)
  <2>1. published' = published /\ (workerPC' # "loop" => workerPC # "loop" /\ inflight' = inflight)
    BY <1>1, <1>5 DEF ControlNext, Threads, OtherReaders, Owns, OwnsWorker, OwnsLoop, OthersRead,
       OthersLock, OthersRelease, ClockTicks, StartWorker, SignalWorkerStop, JoinWorker,
       WorkerStep, CameraFails, WorkerLocksState, WorkerReadsState, PredictFails, RecordFailure,
       WorkerRecords, WorkerExits,
       LoopStep, StartLoop, SignalLoopStop, JoinLoop, TickBegins, LoopLocksState,
       LoopReadsState, Plan, Decide, WriteExecuted, WriteFails, LoopExits,
       vars, wvars, workerVars, bufferVars
  <2> QED BY <2>1
<1> QED BY <1>2, <1>3, <1>4, <1>5

-----------------------------------------------------------------------------
(***************************************************************************)
(* The main thread.                                                        *)
(***************************************************************************)
\* A usable chunk was published.
LEMMA UsableIsPublished ==
  ASSUME ControlInvariant, Usable
  PROVE  published # {}
BY DEF ControlInvariant, BufferInvariant, HoldsNewest, Usable, ValidChunks

\* What the admission check establishes: one request and one published chunk,
\* the worker gone, so the chunk is the first of this worker and nothing else
\* was published.
LEMMA AdmissionIsExact ==
  ASSUME RuntimeInvariant, NumbersFromInitial, workerThread = "none",
         TotalRequests = 1, health.published = 1, Len(chunks) = 1
  PROVE  published = Held /\ SequencesOf(published) = {InitialSequence}
<1>1. Cardinality(published) = 1 /\ IsFiniteSet(published)
  BY DEF RuntimeInvariant, ControlInvariant, ThreadShape, WorkerBooks, HealthAgrees
<1>2. PICK m : published = {m}
  BY <1>1, FS_Singleton
<1>3. published = Held
  <2>1. Held \subseteq published /\ chunks \in Seq(Chunk)
    BY DEF RuntimeInvariant, ControlInvariant, BufferInvariant, BufferTypeOK, HoldsNewest
  <2>2. chunks[1] \in Held
    BY <2>1 DEF Held
  <2> QED BY <1>2, <2>1, <2>2
<1>4. m.seq = InitialSequence
  <2>1. m.seq <= latestSequence
    BY <1>2, PublishedBelowLatest DEF RuntimeInvariant, ControlInvariant
  <2>2. latestSequence < nextSequence /\ nextSequence = InitialSequence + 1
    <3>1. latestSequence < nextSequence
      BY DEF RuntimeInvariant, ControlInvariant, ThreadShape, WorkerBooks, RequestNumber
    <3>2. InitialSequence \in Int /\ nextSequence \in Int
      BY NumbersAreIntegers, WorkerAssumption, ChunkAssumption
      DEF RuntimeInvariant, ControlInvariant, WorkerTypeOK
    <3> QED BY <3>1, <3>2 DEF TotalRequests
  <2>3. /\ m.seq \in Int /\ latestSequence \in Int /\ InitialSequence \in Int
    <3>1. m \in Chunk /\ latestSequence \in Sequence \cup {NoSequence}
      BY <1>2 DEF RuntimeInvariant, ControlInvariant, BufferInvariant, BufferTypeOK
    <3> QED BY <3>1, NumbersAreIntegers, WorkerAssumption
  <2>4. InitialSequence <= m.seq
    BY <1>2 DEF NumbersFromInitial
  <2> QED BY <2>1, <2>2, <2>3, <2>4
<1> QED BY <1>2, <1>3, <1>4 DEF SequencesOf

\* Every step of the main thread moves it to a place where the threads are as
\* that place says, and it starts the loop only on what it has seen.
LEMMA MainStepKeeps ==
  ASSUME RuntimeInvariant, SessionInvariant, MainStep
  PROVE  ThreadsByPlace' /\ UsableSeen' /\ OneAdmitted'
<1>1. /\ ControlInvariant /\ ThreadsByPlace /\ UsableSeen /\ OneAdmitted /\ NumbersFromInitial
      /\ UNCHANGED <<chunks, published>> /\ Held' = Held
      /\ SequencesOf(published)' = SequencesOf(published)
  BY MainKeepsBuffer DEF RuntimeInvariant, SessionInvariant, bufferVars, Held, SequencesOf
<1> USE DEF Goto, CallsWorker, Alone, SingleChunk, ThreadsByPlace, UsableSeen, OneAdmitted,
            BeforeLoop, AfterLoop, Return, vars, wvars, workerVars, loopVars, loopControl
<1>2. CASE Starts
  BY <1>1, <1>2 DEF Starts, StartWorker
<1>3. CASE AwaitEnds
  BY <1>1, <1>3, UsableIsPublished DEF AwaitEnds
<1>4. CASE AwaitTimesOut \/ AdmitStops
  BY <1>1, <1>4 DEF AwaitTimesOut, AdmitStops, SignalWorkerStop
<1>5. CASE AdmitJoins
  BY <1>1, <1>5 DEF AdmitJoins, JoinWorker
<1>6. CASE AdmitFails
  BY <1>1, <1>6 DEF AdmitFails
<1>7. CASE AdmitAccepts
  <2>1. published = Held /\ SequencesOf(published) = {InitialSequence}
    BY <1>1, <1>7, AdmissionIsExact DEF AdmitAccepts
  <2> QED BY <1>1, <1>7, <2>1 DEF AdmitAccepts
<1>8. CASE AbortJoins
  BY <1>1, <1>8 DEF AbortJoins, JoinWorker
<1>9. CASE StartsLoop
  BY <1>1, <1>9 DEF StartsLoop, StartLoop
<1>10. CASE \E why \in Reasons : MonitorStops(why)
  BY <1>1, <1>10 DEF MonitorStops
<1>11. CASE MonitorRaises
  BY <1>1, <1>11 DEF MonitorRaises
<1>12. CASE ShutdownSignalsLoop
  BY <1>1, <1>12 DEF ShutdownSignalsLoop, SignalLoopStop
<1>13. CASE ShutdownJoinsLoop
  BY <1>1, <1>13 DEF ShutdownJoinsLoop, JoinLoop
<1>14. CASE ShutdownSignalsWorker
  BY <1>1, <1>14 DEF ShutdownSignalsWorker, SignalWorkerStop
<1>15. CASE ShutdownJoinsWorker
  BY <1>1, <1>15 DEF ShutdownJoinsWorker, JoinWorker
<1>16. CASE Interrupted
  BY <1>1, <1>16 DEF Interrupted, Interruptible
<1>17. CASE ReturnLocks \/ ReturnReads \/ ReturnWrites
  BY <1>1, <1>17 DEF ReturnLocks, ReturnReads, ReturnWrites, OthersLock, OthersRelease
<1> QED BY <1>2, <1>3, <1>4, <1>5, <1>6, <1>7, <1>8, <1>9, <1>10, <1>11, <1>12, <1>13,
           <1>14, <1>15, <1>16, <1>17 DEF MainStep

\* The threads can only end, publish more, or, once the single chunk was
\* admitted, publish no more.
LEMMA ThreadsKeepPlaces ==
  ASSUME RuntimeInvariant, SessionInvariant, Threads, UNCHANGED sessionVars
  PROVE  ThreadsByPlace' /\ UsableSeen' /\ OneAdmitted'
<1>1. ThreadsByPlace' /\ UsableSeen'
  BY ThreadsOnlyEnd DEF SessionInvariant, sessionVars, ThreadsByPlace, UsableSeen, BeforeLoop,
     AfterLoop, Return
<1>2. OneAdmitted'
  <2>1. CASE workerThread = "none"
    <3>1. UNCHANGED <<chunks, published, workerThread>> /\ Held' = Held
      BY <2>1, ThreadsOnlyEnd DEF bufferVars, Held
    <3> QED BY <3>1, ThreadsOnlyEnd DEF SessionInvariant, sessionVars, OneAdmitted, SequencesOf
  <2>2. CASE workerThread # "none"
    BY <2>2, ThreadsOnlyEnd DEF SessionInvariant, sessionVars, OneAdmitted
  <2> QED BY <2>1, <2>2
<1> QED BY <1>1, <1>2

-----------------------------------------------------------------------------
(***************************************************************************)
(* The theorems.                                                           *)
(***************************************************************************)
\* The strengthened invariant holds in every session: continuous, single and
\* sequential, interrupted at any time, with every join that may time out.
THEOREM SessionCorrect == SessionSpec => []SessionInvariant
<1>1. SessionInit => SessionInvariant
  BY DEF SessionInit, ControlInit, BufferInit, WorkerInit, LoopInit, SessionInvariant,
     ThreadsByPlace, UsableSeen, OneAdmitted, NumbersFromInitial, AfterLoop, Return
<1>2. RuntimeInvariant /\ SessionInvariant /\ [SessionNext]_svars => SessionInvariant'
  <2> SUFFICES ASSUME RuntimeInvariant, SessionInvariant, [SessionNext]_svars
               PROVE  SessionInvariant'
    OBVIOUS
  <2>1. NumbersFromInitial'
    BY NumbersKeepInitial, SessionStepControls DEF RuntimeInvariant, SessionInvariant
  <2>2. CASE MainStep
    BY <2>1, <2>2, MainStepKeeps DEF SessionInvariant
  <2>3. CASE Threads /\ UNCHANGED sessionVars
    BY <2>1, <2>3, ThreadsKeepPlaces DEF SessionInvariant
  <2>4. CASE UNCHANGED svars
    <3>1. UNCHANGED <<chunks, published, loopThread, workerThread, workerPC, inflight, mainPC,
                      abandoned, returning>>
      BY <2>4 DEF svars, sessionVars, vars, wvars, workerVars, bufferVars, loopVars, loopControl
    <3> QED BY <3>1 DEF SessionInvariant, ThreadsByPlace, UsableSeen, OneAdmitted,
               NumbersFromInitial, SequencesOf, Held
  <2> QED BY <2>2, <2>3, <2>4 DEF SessionNext, Finished
<1> QED BY <1>1, <1>2, SessionRefinesControl, RuntimeCorrect, PTL DEF SessionSpec

\* The loop runs only between its start and its join, on something usable, and
\* a session that ended without abandoning a thread left none behind
\* (run_real_pick_drop_realtime.py, run() and shutdown()).
THEOREM LoopRunsWithinSession == SessionSpec => []LoopWithinSession
<1>1. SessionInvariant => LoopWithinSession
  BY DEF SessionInvariant, ThreadsByPlace, UsableSeen, LoopWithinSession
<1> QED BY <1>1, SessionCorrect, PTL

\* In single-chunk runs the loop executes exactly the chunk that was admitted
\* (the admission check of run() with single_chunk).
THEOREM AdmittedChunkOnly == SessionSpec => []OnlyTheAdmittedChunk
<1>1. SessionInvariant /\ StreamInvariant => OnlyTheAdmittedChunk
  BY DEF SessionInvariant, OneAdmitted, OnlyTheAdmittedChunk, StreamInvariant, FromPublished
<1> QED BY <1>1, SessionCorrect, SessionRefinesControl, StreamCorrect, PTL

\* The return to start is alone with the arm when every stop() returned, and
\* otherwise shares it with at most one write of a loop that was abandoned
\* (SequentialChunksOrchestrator and execute_return_to_start).
THEOREM ReturnIsUndisturbed == SessionSpec => []ReturnsUndisturbed
<1>1. SessionInvariant => ReturnsAloneAfterCleanStop
  BY DEF SessionInvariant, ThreadsByPlace, Return, ReturnsAloneAfterCleanStop
<1>2. RuntimeInvariant => AtMostOneForeignWrite
  BY DEF RuntimeInvariant, ControlInvariant, LastWrite, AtMostOneForeignWrite
<1> QED BY <1>1, <1>2, SessionCorrect, SessionRefinesControl, RuntimeCorrect, PTL
        DEF ReturnsUndisturbed
=============================================================================
