-------------------------- MODULE SequentialChunks --------------------------
(***************************************************************************)
(* SequentialChunksOrchestrator.run and execute_return_to_start            *)
(* (scripts/run_real_pick_drop_realtime.py): cycle after cycle a new child *)
(* session is made, each with threads of its own and all of them with the  *)
(* same follower and the same LockedFollowerStateSource, whose lock has no  *)
(* timeout.  RealtimeSession looks into one child; here a child is the one *)
(* thread it has at a time (the worker is joined before there is a loop),  *)
(* how it ends, and whether its stop() returned.                           *)
(*                                                                         *)
(* A thread may keep the lock for ever, in a read that hangs.  A read of   *)
(* the main thread is a step that needs the lock to be free; it returns,   *)
(* or raises and ends run().                                               *)
(***************************************************************************)
EXTENDS Naturals, FiniteSets

CONSTANTS
  ChunkLimit,      \* max_sequential_chunks
  Duration,       \* of the return, in ticks
  SettleTicks     \* RETURN_SETTLE_TICKS

ASSUME SequentialAssumption == {ChunkLimit, Duration, SettleTicks} \subseteq Nat \ {0}

ReturnTimeout == 2 * Duration + 1

VARIABLES
  seqPC,          \* where run() is
  cycle,          \* index of the child, 0 before the first
  threads,        \* of each cycle: its worker, then its loop
  reading,        \* the cycle whose thread holds the lock of the state, or 0
  childEnd,       \* the child's stop_reason
  inHandler,      \* inside except KeyboardInterrupt
  seqReason,      \* stop_reason
  gaveUp,         \* history: cycles whose loop.stop() raised
  back            \* execute_return_to_start: time, settled, calls, and how it ended

seqVars == <<seqPC, cycle, threads, reading, childEnd, inHandler, seqReason, gaveUp, back>>

Cycles == 1 .. ChunkLimit

\* A loop that was told to stop has its tick to end: it may have its read before it
\* ("told") or behind it ("leaving").
LoopAlive(c) == threads[c] \in {"running", "told", "leaving"}

SeqInit ==
  /\ seqPC = "begin" /\ cycle = 0
  /\ threads = [c \in Cycles |-> "none"] /\ reading = 0
  /\ childEnd = "none" /\ inHandler = FALSE /\ seqReason = "SEQUENTIAL_RUNNING"
  /\ gaveUp = {}
  /\ back = [time |-> 0, settled |-> 0, calls |-> 0, stop |-> "none"]

SeqGoto(from, to) == seqPC = from /\ seqPC' = to
StateFree == reading = 0
Thread(c, from, to) == threads[c] = from /\ threads' = [threads EXCEPT ![c] = to]

-----------------------------------------------------------------------------
(***************************************************************************)
(* The threads of the children, at the lock of the state.                  *)
(***************************************************************************)
ThreadLocks(c) ==
  /\ StateFree /\ threads[c] \in {"worker", "oldWorker", "running", "told"}
  /\ reading' = c
  /\ UNCHANGED <<seqPC, cycle, threads, childEnd, inHandler, seqReason, gaveUp, back>>

\* Mutant of ThreadReads: a loop that was told to stop begins the next tick.
ThreadReadsOn(c) ==
  /\ reading = c /\ reading' = 0
  /\ UNCHANGED <<seqPC, cycle, threads, childEnd, inHandler, seqReason, gaveUp, back>>

\* The read returns or raises.  Whoever was told to stop does not read again.
ThreadReads(c) ==
  /\ reading = c /\ reading' = 0
  /\ \/ Thread(c, "told", "leaving") \/ Thread(c, "oldWorker", "ended")
     \/ threads[c] \in {"worker", "running"} /\ UNCHANGED threads
  /\ UNCHANGED <<seqPC, cycle, childEnd, inHandler, seqReason, gaveUp, back>>

\* A loop that was told to stop ends after its tick, unless it hangs.
LoopEnds(c) ==
  /\ reading # c
  /\ Thread(c, "told", "ended") \/ Thread(c, "leaving", "ended")
  /\ UNCHANGED <<seqPC, cycle, reading, childEnd, inHandler, seqReason, gaveUp, back>>

-----------------------------------------------------------------------------
\* The start state is read before anything else, outside of the try.
ReadsStart ==
  /\ StateFree /\ (SeqGoto("begin", "next") \/ SeqGoto("begin", "end"))
  /\ UNCHANGED <<cycle, threads, reading, childEnd, inHandler, seqReason, gaveUp, back>>

\* A new child and its worker, while there are cycles left and there is time.
NextCycle ==
  /\ \/ /\ SeqGoto("next", "child") /\ cycle < ChunkLimit
        /\ cycle' = cycle + 1 /\ childEnd' = "none" /\ UNCHANGED seqReason
        /\ threads' = [threads EXCEPT ![cycle + 1] = "worker"]
     \/ /\ SeqGoto("next", "end")
        /\ \/ seqReason' = "NORMAL_MAX_RUNTIME"
           \/ cycle = ChunkLimit /\ seqReason' = "MAX_CHUNKS_REACHED"
        /\ UNCHANGED <<cycle, threads, childEnd>>
  /\ UNCHANGED <<reading, inHandler, gaveUp, back>>

\* The child joins its worker and starts its loop, or raises before it has one.
ChildStarts ==
  /\ \/ SeqGoto("child", "running") /\ reading # cycle /\ Thread(cycle, "worker", "running")
     \/ SeqGoto("child", "end") /\ UNCHANGED threads
  /\ UNCHANGED <<cycle, reading, childEnd, inHandler, seqReason, gaveUp, back>>

\* The child's monitor ends, by Ctrl-C too, and its loop is told to stop; or the
\* monitor raises, past the shutdown of the child.
ChildStops ==
  /\ \/ /\ SeqGoto("running", "joining")
        /\ childEnd' \in {"SINGLE_CHUNK_COMPLETE", "KEYBOARD_INTERRUPT", "fatal"}
        /\ Thread(cycle, "running", "told")
     \/ SeqGoto("running", "end") /\ UNCHANGED <<childEnd, threads>>
  /\ UNCHANGED <<cycle, reading, inHandler, seqReason, gaveUp, back>>

\* Mutant of AfterChild: what is not a complete chunk is an interrupt.
AfterChildReturning == IF childEnd = "SINGLE_CHUNK_COMPLETE" THEN "endRead" ELSE "return"

\* An interrupt leads to the return, anything else to the read of the end state.
AfterChild == IF childEnd = "KEYBOARD_INTERRUPT" THEN "return" ELSE "endRead"

\* stop() of the loop returns, or raises TimeoutError: a warning is printed.
ChildJoins ==
  /\ SeqGoto("joining", AfterChild)
  /\ gaveUp' = IF LoopAlive(cycle) THEN gaveUp \cup {cycle} ELSE gaveUp
  /\ seqReason' = IF childEnd = "KEYBOARD_INTERRUPT" THEN childEnd ELSE seqReason
  /\ UNCHANGED <<cycle, threads, reading, childEnd, inHandler, back>>

\* The end state is read, behind whichever thread has the lock.  A complete chunk
\* leads to the next; without an observation, or a state, run() raises.
CycleEnds ==
  /\ StateFree
  /\ \/ SeqGoto("endRead", "next") /\ childEnd = "SINGLE_CHUNK_COMPLETE" /\ UNCHANGED seqReason
     \/ SeqGoto("endRead", "end") /\ childEnd = "fatal" /\ seqReason' = childEnd
     \/ SeqGoto("endRead", "end") /\ UNCHANGED seqReason
  /\ UNCHANGED <<cycle, threads, reading, childEnd, inHandler, gaveUp, back>>

-----------------------------------------------------------------------------
(***************************************************************************)
(* Ctrl-C, also while the main thread waits for the lock.  Inside the try  *)
(* it leads to the handler, which stops the child first; outside of it, or *)
(* inside the handler, it ends run().  The return catches it in its own    *)
(* loop only: its first and its last read are outside, so that the handler *)
(* begins the return once more.  The monitor's own catch covers the        *)
(* monitor loop, not the steps around it.                                  *)
(***************************************************************************)
InTry == {"next", "child", "running", "joining", "endRead", "return", "lastRead"}

SeqInterrupted ==
  /\ seqPC \in InTry \cup {"begin", "handler", "handlerJoin"}
  /\ IF seqPC \in InTry /\ ~inHandler
     THEN seqPC' = "handler" /\ inHandler' = TRUE
     ELSE seqPC' = "end" /\ UNCHANGED inHandler
  /\ UNCHANGED <<cycle, threads, reading, childEnd, seqReason, gaveUp, back>>

\* Mutant of HandlerTellsThreads: the child is only waited for.
HandlerTellsNobody ==
  /\ SeqGoto("handler", "handlerJoin")
  /\ seqReason' = "KEYBOARD_INTERRUPT"
  /\ UNCHANGED <<cycle, threads, reading, childEnd, inHandler, gaveUp, back>>

HandlerTellsThreads ==
  /\ SeqGoto("handler", "handlerJoin")
  /\ seqReason' = "KEYBOARD_INTERRUPT"
  /\ threads' = [c \in Cycles |-> CASE c # cycle -> threads[c]
                                   [] threads[c] = "running" -> "told"
                                   [] threads[c] = "worker" -> "oldWorker"
                                   [] OTHER -> threads[c]]
  /\ UNCHANGED <<cycle, reading, childEnd, inHandler, gaveUp, back>>

\* Both stops have a timeout, and what they raise is dropped.
HandlerJoins ==
  /\ SeqGoto("handlerJoin", "return")
  /\ gaveUp' = IF cycle # 0 /\ LoopAlive(cycle) THEN gaveUp \cup {cycle} ELSE gaveUp
  /\ UNCHANGED <<cycle, threads, reading, childEnd, inHandler, seqReason, back>>

-----------------------------------------------------------------------------
(***************************************************************************)
(* execute_return_to_start.  Only Ctrl-C is caught: a read that raises     *)
(* leaves it, and run() with it.                                           *)
(***************************************************************************)
ReturnBegins ==
  /\ StateFree /\ SeqGoto("return", "returning")
  /\ back' = [time |-> 0, settled |-> 0, calls |-> back.calls + 1, stop |-> "none"]
  /\ UNCHANGED <<cycle, threads, reading, childEnd, inHandler, seqReason, gaveUp>>

ReturnStopsWith(why) ==
  /\ seqPC' = "lastRead"
  /\ back' = [back EXCEPT !.stop = why]
  /\ UNCHANGED <<cycle, threads, reading, childEnd, inHandler, seqReason, gaveUp>>

\* Blocked by the guard or the gate, a write that did not execute, Ctrl-C.
ReturnIsRefused ==
  \/ seqPC = "returning" /\ StateFree /\ back.time <= ReturnTimeout
     /\ \E why \in {"BLOCKED", "WRITE_FAILED"} : ReturnStopsWith(why)
  \/ seqPC \in {"returning", "measuring"} /\ ReturnStopsWith("SECOND_CTRL_C")
ReturnTimesOut ==
  seqPC = "returning" /\ back.time > ReturnTimeout /\ ReturnStopsWith("TIMEOUT")

\* The encoders are read, and the arm is written one step towards the start.
ReturnWrites ==
  /\ StateFree /\ back.time <= ReturnTimeout
  /\ SeqGoto("returning", "measuring")
  /\ UNCHANGED <<cycle, threads, reading, childEnd, inHandler, seqReason, gaveUp, back>>

Settled(within) == IF back.time >= Duration /\ within THEN back.settled + 1 ELSE 0

\* The encoders are read again; the tick may have waited for the lock.
ReturnMeasures ==
  /\ StateFree /\ seqPC = "measuring"
  /\ \E within \in BOOLEAN :
       IF Settled(within) >= SettleTicks
       THEN /\ seqPC' = "lastRead"
            /\ back' = [back EXCEPT !.settled = Settled(within), !.stop = "COMPLETE"]
       ELSE /\ seqPC' = "returning"
            /\ \E time \in back.time + 1 .. ReturnTimeout + 1 :
                 back' = [back EXCEPT !.settled = Settled(within), !.time = time]
  /\ UNCHANGED <<cycle, threads, reading, childEnd, inHandler, seqReason, gaveUp>>

ReturnEnds ==
  /\ StateFree /\ SeqGoto("lastRead", "end")
  /\ UNCHANGED <<cycle, threads, reading, childEnd, inHandler, seqReason, gaveUp, back>>

ReturnRaises ==
  /\ StateFree /\ seqPC \in {"return", "returning", "measuring"} /\ seqPC' = "end"
  /\ UNCHANGED <<cycle, threads, reading, childEnd, inHandler, seqReason, gaveUp, back>>

SeqNext ==
  \/ ReadsStart \/ NextCycle \/ ChildStarts \/ ChildStops \/ ChildJoins \/ CycleEnds
  \/ \E c \in Cycles : ThreadLocks(c) \/ ThreadReads(c) \/ LoopEnds(c)
  \/ SeqInterrupted \/ HandlerTellsThreads \/ HandlerJoins
  \/ ReturnBegins \/ ReturnIsRefused \/ ReturnTimesOut \/ ReturnWrites \/ ReturnMeasures
  \/ ReturnEnds \/ ReturnRaises

\* The main thread alone is scheduled: a thread of a child may hang for ever.
SeqMain ==
  \/ NextCycle \/ ChildStarts \/ ChildStops \/ ChildJoins \/ CycleEnds
  \/ HandlerTellsThreads \/ HandlerJoins
  \/ ReturnBegins \/ ReturnTimesOut \/ ReturnWrites \/ ReturnMeasures \/ ReturnEnds

SeqSpec == SeqInit /\ [][SeqNext]_seqVars /\ WF_seqVars(SeqMain)

-----------------------------------------------------------------------------
SeqTypeOK ==
  /\ seqPC \in {"begin", "next", "child", "running", "joining", "endRead", "handler", "handlerJoin",
                "return", "returning", "measuring", "lastRead", "end"}
  /\ cycle \in 0 .. ChunkLimit
  /\ threads \in [Cycles -> {"none", "worker", "oldWorker", "running", "told", "leaving", "ended"}]
  /\ reading \in 0 .. ChunkLimit
  /\ gaveUp \subseteq Cycles
  /\ back.time \in 0 .. ReturnTimeout + 1 /\ back.settled \in 0 .. SettleTicks

Executing == {c \in Cycles : threads[c] = "running"}
Arm == {c \in Cycles : LoopAlive(c)}

\* Of all loops that can still write to the arm, the one of the current cycle alone
\* was not told to stop, and even that one was told before the return reads or
\* writes anything.  Every other one is a loop whose stop() timed out, which the
\* child or the handler swallowed: such a loop may end a tick beside the next cycle
\* or beside the return.
OthersWereGivenUp ==
  /\ Executing \subseteq {cycle}
  /\ seqPC \in {"endRead", "return", "returning", "measuring", "lastRead"} => Executing = {}
  /\ Arm \subseteq gaveUp \cup {cycle}

\* The arm is moved back after Ctrl-C only, and at most twice.
ReturnsForCtrlCOnly ==
  /\ back.calls > 0 => seqReason = "KEYBOARD_INTERRUPT"
  /\ back.calls <= 2

\* The session ends, although a loop hangs in its write and the arm never arrives,
\* provided no thread keeps the lock of the state for ever: a read that hangs in a
\* loop that was given up blocks the main thread at its own next read.
SequentialEnds == []<>StateFree => ((seqPC = "next") ~> (seqPC = "end"))
=============================================================================
