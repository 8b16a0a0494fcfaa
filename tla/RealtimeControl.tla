--------------------------- MODULE RealtimeControl ---------------------------
(***************************************************************************)
(* Inference worker, trajectory buffer, control loop, state lock and clock *)
(* put together.  The owner of the two threads is arbitrary: it may call   *)
(* start() and stop() of either at any time and again, which is all the    *)
(* two classes allow their callers.  RealtimeSession restricts it to what  *)
(* the real runs do.                                                       *)
(***************************************************************************)
EXTENDS ControlLoop

vars == <<wvars, loopVars>>

ControlInit == BufferInit /\ WorkerInit /\ LoopInit

Owns == (OwnsWorker /\ UNCHANGED loopVars) \/ OwnsLoop

Threads ==
  \/ WorkerStep /\ UNCHANGED loopVars
  \/ LoopStep
  \/ ClockTicks /\ UNCHANGED loopVars

\* Any other thread that reads the follower: the main thread does.
OtherReaders == OthersRead /\ UNCHANGED loopVars

ControlNext == Threads \/ OtherReaders \/ Owns

\* Both threads are scheduled, the reads, the writes and the requests return,
\* and a lock that is released again and again is obtained in the end.
ControlFairness ==
  /\ WorkerFairness /\ WF_wvars(OthersRelease)
  /\ WF_vars(TickBegins) /\ SF_vars(LoopLocksState) /\ WF_vars(LoopReadsState)
  /\ WF_vars(Plan) /\ WF_vars(Decide)
  /\ WF_vars(WriteExecuted \/ WriteFails) /\ WF_vars(LoopExits)

ControlSpec == ControlInit /\ [][ControlNext]_vars
FairControlSpec == ControlSpec /\ ControlFairness

-----------------------------------------------------------------------------
LoopTypeOK ==
  /\ loopThread \in {"none", "alive", "ended"}
  /\ loopStop \in BOOLEAN
  /\ loopState \in States
  /\ loopPC \in {"check", "lock", "read", "plan", "decide", "write"}
  /\ actualStart \in Time
  /\ quarantine \subseteq Sequence
  /\ outcome \in DOMAIN StateOf
  /\ lastValid \in Time \cup {Never}
  /\ command \in [path : {"none", "primary", "hold"}, seqs : SUBSET Sequence, state : States]
  /\ rejected \subseteq Sequence
  /\ lastPrimary \in [seqs : SUBSET Sequence, at : Time \cup {Never}]
  /\ writesAfterStop \in Nat

ControlTypeOK == WorkerTypeOK /\ LoopTypeOK

\* A chunk whose target intent validation rejected never contributes to a
\* write again, although its number leaves the quarantine as soon as the
\* chunk is missing from one snapshot of the buffer.
RejectedNeverContributes == command.seqs \cap rejected = {}

\* The quarantine is cut down to the live chunks on every tick, so it cannot
\* grow over a session.
QuarantineBounded == Cardinality(quarantine) <= MaxChunks

\* Whatever the tick in progress, at most one write is begun after stop() has
\* signalled the thread.
AtMostOneWriteAfterStop == writesAfterStop <= 1

\* A loop that reports STOPPED has no thread left that could still write,
\* although a tick in progress overwrites STOPPING with its own state.
StoppedIsQuiet == loopState = "STOPPED" => loopThread # "alive"

\* A hold write repeats or freezes something that was really commanded: it is
\* never the first write of a loop.
HoldNeedsPrimary == LoopAt("write") /\ command.path = "hold" => lastPrimary.at # Never

\* hold_timeout_s as its comment states it: "trajectory 끊긴 뒤 이 시간까지만
\* hold-write를 시도(그 이후는 순수 NO_WRITE로 degrade)", a hold write happens
\* only within the timeout after the last target of the trajectory.
HoldTimesOut ==
  LoopAt("write") /\ command.path = "hold" => actualStart - lastPrimary.at <= HoldTimeout

\* stop() returns: a signalled thread ends unless it is started again, even
\* when it has to compete with the worker for the state lock.
LoopStopTakesEffect == loopStop ~> (loopThread # "alive" \/ ~loopStop)

\* Both stop() take effect, whichever thread holds the state lock then.
StopsTakeEffect == StopTakesEffect /\ LoopStopTakesEffect

\* Every tick ends: no path through a request of the worker leaves the loop
\* waiting for the state lock for ever.
TickEnds == LoopAt("lock") ~> loopPC = "check"

-----------------------------------------------------------------------------
(***************************************************************************)
(* The strengthening that makes RejectedNeverContributes, and the bound on *)
(* the writes after stop(), inductive.                                     *)
(***************************************************************************)
\* A thread dies only between two requests or ticks, and only a request in
\* progress has a chunk, only a planned tick a command.
ThreadShape ==
  /\ workerThread # "alive" => workerPC = "loop"
  /\ workerPC # "loop" => inflight \in Chunk
  /\ loopThread # "alive" => loopPC = "check"
  /\ loopPC \notin {"decide", "write"} => command.seqs = {}

\* A rejected number is still quarantined, or the chunk it named is gone from
\* the buffer or already expired; and no later chunk can carry it again.
RejectedIsGone ==
  /\ actualStart <= now
  /\ \A r \in rejected :
       /\ r <= latestSequence
       /\ r \in quarantine \/ \A c \in Held : c.seq = r => IsExpired(c, actualStart)

\* Once stop() is signalled a write can only be the one of the tick that had
\* begun, and no tick begins.
LastWrite ==
  /\ writesAfterStop \in {0, 1}
  /\ writesAfterStop = 1 => loopStop /\ loopPC \in {"check", "write"}

ControlInvariant ==
  /\ WorkerTypeOK /\ LoopTypeOK /\ BufferInvariant
  /\ ThreadShape /\ RejectedIsGone /\ LastWrite
  /\ RejectedNeverContributes

-----------------------------------------------------------------------------
(***************************************************************************)
(* The runtime implements the command stream.                              *)
(***************************************************************************)
Stream == INSTANCE CommandStream WITH
  offered <- SequencesOf(published),
  target  <- command.seqs,
  sent    <- lastPrimary.seqs

\* Every step of the threads and of their owner is a step of the command
\* stream, or leaves it alone.
ImplementsCommandStream == Stream!StreamSpec
=============================================================================
