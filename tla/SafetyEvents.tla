---------------------------- MODULE SafetyEvents ----------------------------
(***************************************************************************)
(* The log of safety events of the viewer                                  *)
(* (simulation/mujoco/safety_event_tracker.py), fed once per frame by the  *)
(* render thread of live_web_viewer.py, and the end of a session, when the *)
(* main thread closes the events and writes the report although the render *)
(* thread may still be in its last frame.                                  *)
(***************************************************************************)
EXTENDS Naturals, FiniteSets

CONSTANTS
  Keys,         \* pairs of a joint and a reason code
  Escalating,   \* those whose severity may be BLOCKED; the others only warn
  ClearAfter,   \* clear_after_samples
  MaxFrames     \* bound: frames of a session

ASSUME EventsAssumption ==
  ClearAfter \in Nat \ {0} /\ MaxFrames \in Nat /\ Escalating \subseteq Keys

VARIABLES
  active,      \* _active with _clear_counts: per key the event, or NoEvent
  completed,   \* _completed
  observed,    \* frames observed
  rendering,   \* the render thread: "frames", "finally", "over"
  stopping,    \* stop(): "no", "set" (the event is set), "joined", "reported"
  report,      \* the events of the report
  seen,        \* history: per key, the frames it occurred in, with the severity
  missed       \* history: frames observed after the report

eventVars == <<active, completed, observed, rendering, stopping, report, seen, missed>>

NoEvent == [samples |-> {}]
Issues ==
  {issues \in [Keys -> {"none", "WARN", "BLOCKED"}] :
     \A k \in Keys : issues[k] = "BLOCKED" => k \in Escalating}

EventsInit ==
  /\ active = [k \in Keys |-> NoEvent] /\ completed = {}
  /\ observed = 0 /\ rendering = "frames" /\ stopping = "no" /\ report = {}
  /\ seen = [k \in Keys |-> {}] /\ missed = 0

Current(k) == active[k] # NoEvent

-----------------------------------------------------------------------------
\* An event is known by the frames it was seen in: sample_count is their number.
Opened(k, severity) ==
  [key |-> k, samples |-> {observed + 1}, blocked |-> severity = "BLOCKED", clear |-> 0]

\* Mutant of Continued: a sample does not begin the count of clear ones again.
ContinuedUncleared(event, severity) ==
  [event EXCEPT !.samples = @ \cup {observed + 1}, !.blocked = @ \/ severity = "BLOCKED"]

\* The severity only rises.
Continued(event, severity) ==
  [event EXCEPT !.samples = @ \cup {observed + 1}, !.blocked = @ \/ severity = "BLOCKED", !.clear = 0]

Clears(k, issues) == issues[k] = "none" /\ Current(k) /\ active[k].clear + 1 >= ClearAfter

\* observe(): an event ends after ClearAfter samples without it.
Observe(issues) ==
  /\ active' = [k \in Keys |->
                  CASE issues[k] # "none" /\ ~Current(k) -> Opened(k, issues[k])
                    [] issues[k] # "none" /\ Current(k) -> Continued(active[k], issues[k])
                    [] Clears(k, issues) \/ (issues[k] = "none" /\ ~Current(k)) -> NoEvent
                    [] OTHER -> [active[k] EXCEPT !.clear = @ + 1]]
  /\ completed' = completed \cup {active[k] : k \in {k \in Keys : Clears(k, issues)}}
  /\ observed' = observed + 1
  /\ seen' = [k \in Keys |-> IF issues[k] = "none" THEN seen[k]
                            ELSE seen[k] \cup {<<observed + 1, issues[k]>>}]

FrameObserved ==
  /\ rendering = "frames" /\ observed < MaxFrames
  /\ \E issues \in Issues : Observe(issues)
  /\ missed' = IF stopping = "reported" THEN missed + 1 ELSE missed
  /\ rendering' = IF stopping = "no" THEN "frames" ELSE "finally"
  /\ UNCHANGED <<stopping, report>>

\* Between two frames the render thread sees the event, or it fails.
LeavesLoop ==
  /\ rendering = "frames"
  /\ rendering' = "finally"
  /\ UNCHANGED <<active, completed, observed, stopping, report, seen, missed>>

Finalized == completed \cup {active[k] : k \in {k \in Keys : Current(k)}}

\* Mutant of Finalizes: what is still going on is dropped.
FinalizesWithoutActive ==
  /\ active' = [k \in Keys |-> NoEvent] /\ completed' = completed

\* finalize()
Finalizes ==
  /\ active' = [k \in Keys |-> NoEvent] /\ completed' = Finalized

RenderFinally ==
  /\ rendering = "finally"
  /\ Finalizes /\ rendering' = "over"
  /\ UNCHANGED <<observed, stopping, report, seen, missed>>

-----------------------------------------------------------------------------
StopSet ==
  /\ stopping = "no" /\ stopping' = "set"
  /\ UNCHANGED <<active, completed, observed, rendering, report, seen, missed>>

\* join() with its timeout: in time the thread is over, but it need not be.
StopJoins ==
  /\ stopping = "set" /\ stopping' = "joined"
  /\ UNCHANGED <<active, completed, observed, rendering, report, seen, missed>>

\* finalize() once more, and the report.
StopReports ==
  /\ stopping = "joined" /\ stopping' = "reported"
  /\ Finalizes /\ report' = Finalized
  /\ UNCHANGED <<observed, rendering, seen, missed>>

EventsNext ==
  FrameObserved \/ LeavesLoop \/ RenderFinally \/ StopSet \/ StopJoins \/ StopReports

EventsSpec == EventsInit /\ [][EventsNext]_eventVars

-----------------------------------------------------------------------------
EventsTypeOK ==
  /\ \A k \in Keys : Current(k) => active[k].key = k /\ active[k].clear \in 0 .. ClearAfter - 1
  /\ observed \in 0 .. MaxFrames /\ rendering \in {"frames", "finally", "over"}
  /\ stopping \in {"no", "set", "joined", "reported"}

EventsOf(events, k) == {e \in events : e.key = k}
SamplesIn(events, k) == UNION {e.samples : e \in EventsOf(events, k)}
SeenFrames(k) == {s[1] : s \in seen[k]}

\* Every sample of an issue is in exactly one event of its key, also when the
\* session ends twice: once in the render thread, once in stop().  The event is as
\* severe as its worst sample.
SamplesKept ==
  \A k \in Keys :
    /\ SamplesIn(Finalized, k) = SeenFrames(k)
    /\ \A e, f \in EventsOf(Finalized, k) : e # f => e.samples \cap f.samples = {}
    /\ \A e \in EventsOf(Finalized, k) :
         e.blocked = \E frame \in e.samples : <<frame, "BLOCKED">> \in seen[k]

\* Two events of a key are at least ClearAfter samples apart, and an event has no
\* such gap in itself, unless the session was ended between them.
MergedWithinClear ==
  \A k \in Keys : \A e \in EventsOf(Finalized, k) : \A i, j \in e.samples :
    (i < j /\ \A n \in i + 1 .. j - 1 : n \notin e.samples) => j - i <= ClearAfter

SplitByClear ==
  stopping # "reported" /\ rendering # "over" =>
    \A k \in Keys : \A e, f \in EventsOf(Finalized, k) :
      e # f => \A i \in e.samples, j \in f.samples : i < j => j - i > ClearAfter

\* The report lacks at most the one frame the render thread was in when stop()
\* gave up waiting for it.
ReportLacksOneFrame ==
  /\ missed <= 1
  /\ stopping = "reported" =>
       \A k \in Keys :
         Cardinality(SeenFrames(k) \ SamplesIn(report, k)) <= missed

EventsSafe == SamplesKept /\ MergedWithinClear /\ SplitByClear /\ ReportLacksOneFrame
=============================================================================
