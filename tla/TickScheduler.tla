---------------------------- MODULE TickScheduler ----------------------------
(***************************************************************************)
(* When the 60 Hz loop starts its ticks: the deadlines, the catching up    *)
(* and the resynchronisation of _run_loop in                               *)
(* runtime/laptop/realtime_control_loop.py.  What a tick does is the       *)
(* business of ControlLoop; here it only takes time.                       *)
(*                                                                         *)
(* The clock advances between any two steps, so a tick lasts as long as it *)
(* likes and a sleeper is woken as late as it likes.                       *)
(***************************************************************************)
EXTENDS Integers

CONSTANTS
  Period,         \* period_s
  MaxLag,         \* max_catchup_periods * period_s
  MaxClock        \* bound of the model

ASSUME TickAssumption == Period \in Nat \ {0} /\ MaxLag \in Nat /\ MaxClock \in Nat

VARIABLES
  clock,          \* time.monotonic()
  tickPC,         \* "check" (at the while), "ticking", "sleeping", "stopped"
  deadline,       \* when this tick should have ended and the next one begins
  lastStart,      \* _last_actual_start
  ticksStop,      \* _stop_event
  window          \* history: an observer's stop-watch, and PERIOD per tick begun since

tickVars == <<clock, tickPC, deadline, lastStart, ticksStop, window>>

\* The observer has not pressed its stop-watch.
NoWindow == [open |-> FALSE, since |-> 0, due |-> 0]

TicksInit ==
  /\ clock = 0
  /\ tickPC = "check"
  /\ deadline = Period
  /\ lastStart = 0
  /\ ticksStop = FALSE
  /\ window = NoWindow

TimePasses ==
  /\ clock < MaxClock
  /\ clock' = clock + 1
  /\ UNCHANGED <<tickPC, deadline, lastStart, ticksStop, window>>

\* The observer may look at any moment.
WatchTicks ==
  /\ ~window.open
  /\ window' = [NoWindow EXCEPT !.open = TRUE, !.since = clock]
  /\ UNCHANGED <<clock, tickPC, deadline, lastStart, ticksStop>>

TickStarts ==
  /\ tickPC = "check" /\ ~ticksStop
  /\ tickPC' = "ticking"
  /\ lastStart' = clock
  /\ window' = IF window.open THEN [window EXCEPT !.due = @ + Period] ELSE window
  /\ UNCHANGED <<clock, deadline, ticksStop>>

TooLate == deadline + MaxLag < clock

\* Mutant of TickIsOver: no resynchronisation, all missed ticks are made up for.
TickIsOverCatchingUp ==
  /\ tickPC = "ticking"
  /\ deadline' = deadline + Period
  /\ tickPC' = IF deadline > clock THEN "sleeping" ELSE "check"
  /\ UNCHANGED <<clock, lastStart, ticksStop, window>>

\* A tick that ends far behind its deadline is not made up for: the schedule
\* starts again from now, without a sleep.
TickIsOver ==
  /\ tickPC = "ticking"
  /\ IF TooLate
     THEN deadline' = clock + Period /\ tickPC' = "check"
     ELSE deadline' = deadline + Period /\ tickPC' = IF deadline > clock THEN "sleeping" ELSE "check"
  /\ UNCHANGED <<clock, lastStart, ticksStop, window>>

\* Mutant of SleepUntil: the sleep goes on to the deadline just computed.
SleepUntilNext == deadline

\* The sleep of a tick lasts until the deadline that was in force for it.
SleepUntil == deadline - Period

\* Mutant of Wakes: a plain time.sleep().
WakesOnTimeOnly ==
  /\ tickPC = "sleeping" /\ clock >= SleepUntil
  /\ tickPC' = "check"
  /\ UNCHANGED <<clock, deadline, lastStart, ticksStop, window>>

Wakes ==
  /\ tickPC = "sleeping" /\ (clock >= SleepUntil \/ ticksStop)
  /\ tickPC' = "check"
  /\ UNCHANGED <<clock, deadline, lastStart, ticksStop, window>>

StopTicks ==
  /\ ~ticksStop
  /\ ticksStop' = TRUE
  /\ UNCHANGED <<clock, tickPC, deadline, lastStart, window>>

LastTickDone ==
  /\ tickPC = "check" /\ ticksStop
  /\ tickPC' = "stopped"
  /\ UNCHANGED <<clock, deadline, lastStart, ticksStop, window>>

TicksNext ==
  \/ TimePasses \/ WatchTicks \/ StopTicks
  \/ TickStarts \/ TickIsOver \/ Wakes \/ LastTickDone

\* A tick returns and a woken thread is scheduled; the clock need not advance.
TicksFairness == WF_tickVars(TickIsOver) /\ WF_tickVars(Wakes) /\ WF_tickVars(LastTickDone)

TicksSpec == TicksInit /\ [][TicksNext]_tickVars /\ TicksFairness

-----------------------------------------------------------------------------
TickTypeOK ==
  /\ clock \in 0 .. MaxClock
  /\ tickPC \in {"check", "ticking", "sleeping", "stopped"}
  /\ deadline \in Nat
  /\ lastStart \in 0 .. clock
  /\ ticksStop \in BOOLEAN
  /\ window \in [open : BOOLEAN, since : 0 .. clock, due : Nat]

\* However late ticks end and sleepers wake, no interval of time holds more
\* ticks than its length in periods, the catch-up the loop is allowed, and the
\* two at its edges: an overrun is never followed by a burst that makes up for
\* all the ticks it cost.
RateBounded ==
  window.open => window.due <= (clock - window.since) + MaxLag + 2 * Period

\* The sleep after a tick ends at most a period after that tick began, so that
\* an oversleep or a late tick is never followed by a slot that is left out.
NeverOversleeps == tickPC = "sleeping" => SleepUntil <= lastStart + Period

\* stop() wakes a loop that is waiting for its next tick: it need not wait for
\* any time to pass.
StopNeedsNoTime == ticksStop ~> (tickPC = "stopped")
=============================================================================
