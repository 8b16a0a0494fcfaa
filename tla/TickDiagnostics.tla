-------------------------- MODULE TickDiagnostics ---------------------------
(***************************************************************************)
(* The tick log of a realtime session (diagnostic_jsonl_logger.py): the    *)
(* control thread captures what the generator computed, the main thread    *)
(* merges it with the record of the tick and writes one line, at its polls *)
(* and once more at the end.  Main and control thread are those of         *)
(* run_real_pick_drop_realtime.py, of which only what touches the log is   *)
(* here.  A set of quarantined sequences is known by a number.             *)
(***************************************************************************)
EXTENDS Naturals, Sequences, SequencesExt

CONSTANTS
  HistorySize,   \* tick_history_size
  Quarantines,   \* the values of the set of quarantined sequences
  MaxTicks       \* bound: ticks of a behaviour

ASSUME TickLogAssumption == HistorySize \in Nat \ {0} /\ 0 \in Quarantines /\ MaxTicks \in Nat

VARIABLES
  ticking,      \* the control thread: its tick, or between two, or ended
  tickIndex,    \* _tick_index
  tickHistory,  \* _tick_history
  quarantined,  \* _quarantined_sequences
  captures,     \* _pending: ticks whose capture waits for the record
  main,         \* what the main thread is doing
  polled,       \* the records the drain in progress was given
  nextLine,     \* _next_tick_index
  accumulator,  \* _quarantine_accumulator
  lines,        \* the file
  mainDelay     \* history: ticks that no completed poll was given, how the end came

tickLogVars == <<ticking, tickIndex, tickHistory, quarantined, captures, main, polled,
                 nextLine, accumulator, lines, mainDelay>>
loopSide == <<ticking, tickIndex, tickHistory, quarantined>>
logSide == <<nextLine, accumulator, lines>>

TickLogInit ==
  /\ ticking = "between" /\ tickIndex = 0 /\ tickHistory = <<>> /\ quarantined = 0
  /\ captures = {} /\ main = "watch" /\ polled = <<>>
  /\ nextLine = 0 /\ accumulator = 0 /\ lines = <<>>
  /\ mainDelay = [ticks |-> 0, tooLong |-> FALSE, joined |-> FALSE, torn |-> FALSE]

-----------------------------------------------------------------------------
(* The control thread.                                                     *)

\* The quarantine changes before the record is made.  No capture is taken of a
\* tick whose generator did not run or raised.
Ticks(q, captured) ==
  /\ ticking = "between" /\ tickIndex < MaxTicks
  /\ ticking' = IF captured THEN "captured" ELSE "bare"
  /\ captures' = captures \cup {t \in {tickIndex} : captured}
  /\ quarantined' = q
  /\ UNCHANGED <<tickIndex, tickHistory, main, polled, logSide, mainDelay>>

RecordOfTick == [tick |-> tickIndex, captured |-> ticking = "captured", after |-> quarantined]

\* Mutant of Kept: off by one.
KeptOneMore(h) == IF Len(h) > HistorySize + 1 THEN Tail(h) ELSE h

\* The oldest records go.
Kept(h) == IF Len(h) > HistorySize THEN Tail(h) ELSE h

RecordsTick ==
  /\ ticking \in {"captured", "bare"}
  /\ tickHistory' = Kept(Append(tickHistory, RecordOfTick))
  /\ tickIndex' = tickIndex + 1
  /\ ticking' = "between"
  /\ mainDelay' = [mainDelay EXCEPT !.ticks = @ + 1]
  /\ UNCHANGED <<quarantined, captures, main, polled, logSide>>

LoopEnds ==
  /\ ticking = "between" /\ main = "join"
  /\ ticking' = "ended"
  /\ UNCHANGED <<tickIndex, tickHistory, quarantined, captures, main, polled, logSide, mainDelay>>

-----------------------------------------------------------------------------
(* The main thread: polls, then stop() of the loop, then the last drain.   *)

Takes(phase) ==
  /\ main' = phase
  /\ polled' = tickHistory
  /\ mainDelay' = [mainDelay EXCEPT !.ticks = 0, !.tooLong = @ \/ mainDelay.ticks > HistorySize,
                                    !.joined = (ticking = "ended")]
  /\ UNCHANGED <<loopSide, captures, logSide>>

MainPolls == main = "watch" /\ Takes("drain")

\* Also Ctrl-C during a poll, between two lines.
MainStops ==
  /\ main \in {"watch", "drain"} /\ main' = "join"
  /\ mainDelay' = [mainDelay EXCEPT !.ticks = @ + Cardinality({r \in ToSet(polled) : r.tick >= nextLine})]
  /\ UNCHANGED <<loopSide, captures, polled, logSide>>

\* stop() returned, or its join timed out.
LastDrain == main = "join" /\ Takes("lastDrain")

\* A gap is passed over.
DueAnyLater == {r \in ToSet(polled) : r.tick >= nextLine}

\* Only the very next tick is written: one written before is skipped, and so is
\* one beyond a gap.
Due == {r \in ToSet(polled) : r.tick = nextLine}

\* A line carries the capture of its tick, taken out of _pending.
LineOf(r) == [tick |-> r.tick, captured |-> r.tick \in captures]

WritesLine ==
  /\ main \in {"drain", "lastDrain"}
  /\ \E r \in Due :
       /\ lines' = Append(lines, LineOf(r))
       /\ captures' = captures \ {r.tick}
       /\ accumulator' = r.after
       /\ nextLine' = r.tick + 1
  /\ UNCHANGED <<loopSide, main, polled, mainDelay>>

\* The file cannot be written.  At a poll the exception leaves run(), and the
\* loop is not stopped; in the last drain it is reported and the file closed.
WriteFails ==
  /\ main \in {"drain", "lastDrain"} /\ Due # {}
  /\ \E r \in Due : accumulator' = r.after /\ captures' = captures \ {r.tick}
  /\ main' = IF main = "drain" THEN "raised" ELSE "closed"
  /\ mainDelay' = [mainDelay EXCEPT !.torn = TRUE]
  /\ UNCHANGED <<loopSide, polled, nextLine, lines>>

\* Ctrl-C within a line, before _next_tick_index is set: the capture is gone, the
\* line may be in the file, and the last drain takes the tick again.
InterruptedInLine ==
  /\ main = "drain"
  /\ \E r \in Due :
       /\ captures' = captures \ {r.tick}
       /\ accumulator' = r.after
       /\ lines' \in {lines, Append(lines, LineOf(r))}
  /\ main' = "join"
  /\ mainDelay' = [mainDelay EXCEPT !.torn = TRUE]
  /\ UNCHANGED <<loopSide, polled, nextLine>>

DrainEnds ==
  /\ main \in {"drain", "lastDrain"} /\ Due = {}
  /\ main' = IF main = "drain" THEN "watch" ELSE "closed"
  /\ polled' = <<>>
  /\ UNCHANGED <<loopSide, captures, logSide, mainDelay>>

TickLogNext ==
  \/ \E q \in Quarantines, captured \in BOOLEAN : Ticks(q, captured)
  \/ RecordsTick \/ LoopEnds
  \/ MainPolls \/ MainStops \/ LastDrain \/ WritesLine \/ WriteFails \/ InterruptedInLine
  \/ DrainEnds

TickLogSpec == TickLogInit /\ [][TickLogNext]_tickLogVars

-----------------------------------------------------------------------------
TickLogTypeOK ==
  /\ ticking \in {"between", "captured", "bare", "ended"}
  /\ main \in {"watch", "drain", "join", "lastDrain", "closed", "raised"}
  /\ tickIndex \in 0 .. MaxTicks /\ nextLine \in 0 .. tickIndex
  /\ captures \subseteq 0 .. tickIndex
  /\ {quarantined, accumulator} \subseteq Quarantines
  /\ Len(tickHistory) <= HistorySize /\ Len(polled) <= HistorySize

\* The file holds the ticks in their order, each once and without a gap.
LinesInOrder == \A i \in 1 .. Len(lines) : lines[i].tick = i - 1

\* A line carries the capture of its own tick whenever there was one: the record
\* becomes visible to the main thread only after the capture.
CaptureIsMerged ==
  /\ \A r \in ToSet(tickHistory) : r.captured /\ r.tick >= nextLine => r.tick \in captures
  /\ \A r \in ToSet(polled) : r.tick < Len(lines) => lines[r.tick + 1].captured = r.captured

\* When the loop has ended before the last drain, every tick has its line and the
\* cross-check of the quarantine finds no difference ...
AllLogged == main = "closed" /\ mainDelay.joined => Len(lines) = tickIndex /\ accumulator = quarantined

\* ... provided that no line was broken off (a full disk, Ctrl-C) and, for the last,
\* that the main thread was never kept from polling for longer than the history of
\* ticks lasts.
TickLogSafe ==
  ~mainDelay.torn => LinesInOrder /\ CaptureIsMerged /\ (mainDelay.tooLong \/ AllLogged)
=============================================================================
