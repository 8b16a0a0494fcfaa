------------------------------ MODULE StatePoller ------------------------------
(***************************************************************************)
(* The hardware state server: hardware/state_server/state_service.py, its  *)
(* readers (readonly_so101_reader.py) and the life cycle that              *)
(* scripts/run_hardware_state_server.py gives them.  Three threads:        *)
(*   - the poller reads the leader and then the follower arm and keeps the *)
(*     last good sample of each;                                           *)
(*   - a request (or the status printer) builds /state or /health from     *)
(*     those samples, one arm after the other, taking the lock anew for    *)
(*     each and looking at the clock after it has let the lock go;         *)
(*   - the main thread connects, serves, stops and disconnects.            *)
(* A sample is the number of the poll that read it and its timestamp;      *)
(* joint values, raw ticks, messages and log lines are left out.           *)
(***************************************************************************)
EXTENDS Integers

CONSTANTS
    StaleAfter,     \* stale_after_ms
    MaxReadErrors,  \* max_read_errors
    MaxPolls,       \* bound: polls a run follows
    MaxNow          \* bound: how far the clock goes

ASSUME StaleAfterAssumption == StaleAfter \in Nat \ {0}
ASSUME MaxReadErrorsAssumption == MaxReadErrors \in Nat \ {0}
ASSUME PollBoundsAssumption == MaxPolls \in Nat \ {0} /\ MaxNow \in Nat

VARIABLES
    isOpen,     \* arm -> reader.is_connected: its serial port is open
    poll,       \* arm -> ArmPollState
    sequence,   \* _sequence
    pc,         \* where the poller thread is: the arm it is polling, or ...
    stage,      \* ... and how far _poll_arm has got with that arm
    stopEvent,  \* _stop_event
    main,       \* where main() of the script is
    request,    \* the views the request in progress has built so far
    now         \* time.time()

pollVars == <<poll, sequence>>
threadVars == <<pc, stage>>
vars == <<isOpen, pollVars, threadVars, stopEvent, main, request, now>>

Arms == {"leader", "follower"}

\* poll = -1: no read of this arm has ever succeeded.
NoSample == [poll |-> -1, stamp |-> -1]
Samples == [poll : -1 .. MaxPolls, stamp : -1 .. MaxNow]
ArmPollStates == [lastGood : Samples, errors : Nat, connected : BOOLEAN]
ArmViews == [sample : Samples, errors : Nat, connected : BOOLEAN, stale : BOOLEAN]
NoView == [sample |-> NoSample, errors |-> 0, connected |-> FALSE, stale |-> TRUE]
NoRequest == [at |-> "idle", leader |-> NoView, follower |-> NoView]

RequestPhases ==
    {"idle", "lockLeader", "ageLeader", "lockFollower", "ageFollower", "assemble"}

TypeOK ==
    /\ isOpen \in [Arms -> BOOLEAN]
    /\ poll \in [Arms -> ArmPollStates]
    /\ sequence \in 0 .. MaxPolls
    /\ pc \in {"off", "leader", "follower", "count", "wait"}
    /\ stage \in {"read", "store"}
    /\ stopEvent \in BOOLEAN
    /\ main \in {"connectLeader", "connectFollower", "start", "serving", "joining",
                 "disconnectLeader", "disconnectFollower", "exiting", "gone"}
    /\ request \in [at : RequestPhases, leader : ArmViews, follower : ArmViews]
    /\ now \in 0 .. MaxNow

Init ==
    /\ isOpen = [a \in Arms |-> FALSE]
    /\ poll = [a \in Arms |->
                [lastGood |-> NoSample, errors |-> 0, connected |-> FALSE]]
    /\ sequence = 0
    /\ pc = "off"
    /\ stage = "read"
    /\ stopEvent = FALSE
    /\ main = "connectLeader"
    /\ request = NoRequest
    /\ now = 0

-----------------------------------------------------------------------------
(***************************************************************************)
(* The poller thread: _run, poll_once, _poll_arm.  It is a daemon thread:  *)
(* it ends with the process.                                               *)
(***************************************************************************)
Alive == main # "gone"

\* The head of _run's loop, after its wait: the stop event, or the next poll.
\* When the wait ends is left open.  Bound: MaxPolls.
PollBegins ==
    /\ Alive
    /\ pc = "wait"
    /\ ~stopEvent
    /\ sequence < MaxPolls
    /\ pc' = "leader"
    /\ stage' = "read"
    /\ UNCHANGED <<isOpen, pollVars, stopEvent, main, request, now>>

PollerExits ==
    /\ Alive
    /\ pc = "wait"
    /\ stopEvent
    /\ pc' = "off"
    /\ UNCHANGED <<isOpen, pollVars, stage, stopEvent, main, request, now>>

NextArm(a) == IF a = "leader" THEN "follower" ELSE "count"

\* read_positions() and its validation succeed.
ArmRead(a) ==
    /\ Alive
    /\ pc = a
    /\ stage = "read"
    /\ isOpen[a]
    /\ stage' = "store"
    /\ UNCHANGED <<isOpen, pollVars, pc, stopEvent, main, request, now>>

\* Mutant of ReadFails: an exception in one arm ends the whole poll.
ReadFailsEndingPoll(a) ==
    /\ Alive
    /\ pc = a
    /\ stage = "read"
    /\ ~isOpen[a] \/ sequence < MaxPolls - 1
    /\ poll' = [poll EXCEPT ![a].errors = @ + 1]
    /\ pc' = "count"
    /\ UNCHANGED <<isOpen, sequence, stage, stopEvent, main, request, now>>

\* The port is closed, the read fails, or it returns values the validation
\* refuses.  Bound: on an open port the last poll meets no fault.
ReadFails(a) ==
    /\ Alive
    /\ pc = a
    /\ stage = "read"
    /\ ~isOpen[a] \/ sequence < MaxPolls - 1
    /\ poll' = [poll EXCEPT ![a].errors = @ + 1]
    /\ pc' = NextArm(a)
    /\ UNCHANGED <<isOpen, sequence, stage, stopEvent, main, request, now>>

\* Mutant of SampleStored: a good read does not end the run of errors.
SampleStoredKeepingErrors(a) ==
    /\ Alive
    /\ pc = a
    /\ stage = "store"
    /\ poll' = [poll EXCEPT ![a].lastGood = [poll |-> sequence, stamp |-> now],
                            ![a].connected = TRUE]
    /\ pc' = NextArm(a)
    /\ stage' = "read"
    /\ UNCHANGED <<isOpen, sequence, stopEvent, main, request, now>>

\* Mutant of SampleStored: a good read does not make the arm connected.
SampleStoredUnconnected(a) ==
    /\ Alive
    /\ pc = a
    /\ stage = "store"
    /\ poll' = [poll EXCEPT ![a].lastGood = [poll |-> sequence, stamp |-> now],
                            ![a].errors = 0]
    /\ pc' = NextArm(a)
    /\ stage' = "read"
    /\ UNCHANGED <<isOpen, sequence, stopEvent, main, request, now>>

\* read_raw_positions() returns or fails, which is ignored even when the port has
\* been closed since; the sample gets its timestamp and is stored.
SampleStored(a) ==
    /\ Alive
    /\ pc = a
    /\ stage = "store"
    /\ poll' = [poll EXCEPT ![a] =
                  [lastGood |-> [poll |-> sequence, stamp |-> now],
                   errors |-> 0, connected |-> TRUE]]
    /\ pc' = NextArm(a)
    /\ stage' = "read"
    /\ UNCHANGED <<isOpen, sequence, stopEvent, main, request, now>>

\* Mutant of PollCounts: counts the arms read, not the polls.
PollCountsArms ==
    /\ Alive
    /\ pc = "count"
    /\ sequence' = sequence + 2
    /\ pc' = "wait"
    /\ UNCHANGED <<isOpen, poll, stage, stopEvent, main, request, now>>

PollCounts ==
    /\ Alive
    /\ pc = "count"
    /\ sequence' = sequence + 1
    /\ pc' = "wait"
    /\ UNCHANGED <<isOpen, poll, stage, stopEvent, main, request, now>>

PollerSteps ==
    \/ PollBegins \/ PollerExits \/ PollCounts
    \/ \E a \in Arms : ArmRead(a) \/ ReadFails(a) \/ SampleStored(a)

-----------------------------------------------------------------------------
(***************************************************************************)
(* A request: _arm_view for the leader, _arm_view for the follower, then   *)
(* what snapshot() or health() makes of the two views.                     *)
(***************************************************************************)
RequestBegins ==
    /\ main = "serving"
    /\ request.at = "idle"
    /\ request' = [request EXCEPT !.at = "lockLeader"]
    /\ UNCHANGED <<isOpen, pollVars, threadVars, stopEvent, main, now>>

\* The part of _arm_view under the lock.
LockedView(a) ==
    [sample |-> poll[a].lastGood, errors |-> poll[a].errors,
     connected |-> poll[a].connected, stale |-> TRUE]

\* Mutant of IsStale: only the age decides.
IsStaleByAge(view) ==
    view.sample = NoSample \/ now - view.sample.stamp > StaleAfter

\* Mutant of IsStale: only read errors decide.
IsStaleByErrors(view) ==
    view.sample = NoSample \/ view.errors > 0

\* The rest of _arm_view: the age, from a clock read after the lock was let go.
IsStale(view) ==
    \/ view.sample = NoSample
    \/ now - view.sample.stamp > StaleAfter
    \/ view.errors > 0

RequestTakesViews ==
    /\ Alive
    /\ \/ /\ request.at = "lockLeader"
          /\ request' = [request EXCEPT !.at = "ageLeader", !.leader = LockedView("leader")]
       \/ /\ request.at = "ageLeader"
          /\ request' = [request EXCEPT !.at = "lockFollower",
                                        !.leader.stale = IsStale(request.leader)]
       \/ /\ request.at = "lockFollower"
          /\ request' = [request EXCEPT !.at = "ageFollower",
                                        !.follower = LockedView("follower")]
       \/ /\ request.at = "ageFollower"
          /\ request' = [request EXCEPT !.at = "assemble",
                                        !.follower.stale = IsStale(request.follower)]
    /\ UNCHANGED <<isOpen, pollVars, threadVars, stopEvent, main, now>>

\* health(): the errors it lists, and the status.
HasError(view) == ~view.connected \/ view.errors >= MaxReadErrors
Status(leader, follower) ==
    IF \E view \in {leader, follower} : HasError(view) \/ view.stale
    THEN "degraded" ELSE "ok"

\* snapshot() gives the views and their difference, health() the status of the same
\* two views.  The sequence number snapshot() adds is left out.
Answers ==
    /\ Alive
    /\ request.at = "assemble"
    /\ request' = NoRequest
    /\ UNCHANGED <<isOpen, pollVars, threadVars, stopEvent, main, now>>

RequestSteps == RequestBegins \/ RequestTakesViews \/ Answers

-----------------------------------------------------------------------------
(***************************************************************************)
(* The main thread.                                                        *)
(***************************************************************************)
Connecting(a) == IF a = "leader" THEN "connectLeader" ELSE "connectFollower"
Connected(a) == IF a = "leader" THEN "connectFollower" ELSE "start"

ConnectSucceeds(a) ==
    /\ main = Connecting(a)
    /\ main' = Connected(a)
    /\ isOpen' = [isOpen EXCEPT ![a] = TRUE]
    /\ poll' = [poll EXCEPT ![a].connected = TRUE]
    /\ UNCHANGED <<sequence, threadVars, stopEvent, request, now>>

\* The bus fails before or after it has opened its port; nothing retries it.
ConnectFails(a) ==
    /\ main = Connecting(a)
    /\ main' = Connected(a)
    /\ \E open \in BOOLEAN : isOpen' = [isOpen EXCEPT ![a] = open]
    /\ poll' = [poll EXCEPT ![a].connected = FALSE]
    /\ UNCHANGED <<sequence, threadVars, stopEvent, request, now>>

StartPoller ==
    /\ main = "start"
    /\ main' = "serving"
    /\ stopEvent' = FALSE
    /\ pc' = "wait"
    /\ UNCHANGED <<isOpen, pollVars, stage, request, now>>

\* SIGINT or SIGTERM ends server.run(); stop() sets the event.
StopPoller ==
    /\ main = "serving"
    /\ main' = "joining"
    /\ stopEvent' = TRUE
    /\ UNCHANGED <<isOpen, pollVars, threadVars, request, now>>

\* join(timeout): the thread has ended, or two seconds have passed and stop()
\* returns all the same.
JoinReturns ==
    /\ main = "joining"
    /\ main' = "disconnectLeader"
    /\ UNCHANGED <<isOpen, pollVars, threadVars, stopEvent, request, now>>

Disconnecting(a) == IF a = "leader" THEN "disconnectLeader" ELSE "disconnectFollower"
Disconnected(a) == IF a = "leader" THEN "disconnectFollower" ELSE "exiting"

\* Mutant of Disconnects: closing a port that is not open never comes back.
DisconnectsOpenOnly(a) ==
    /\ main = Disconnecting(a)
    /\ isOpen[a]
    /\ main' = Disconnected(a)
    /\ isOpen' = [isOpen EXCEPT ![a] = FALSE]
    /\ poll' = [poll EXCEPT ![a].connected = FALSE]
    /\ UNCHANGED <<sequence, pc, stage, stopEvent, request, now>>

\* disconnect_all: an error of the bus leaves the port as it may be.
Disconnects(a) ==
    /\ main = Disconnecting(a)
    /\ main' = Disconnected(a)
    /\ \E open \in {FALSE, isOpen[a]} : isOpen' = [isOpen EXCEPT ![a] = open]
    /\ poll' = [poll EXCEPT ![a].connected = FALSE]
    /\ UNCHANGED <<sequence, threadVars, stopEvent, request, now>>

ProcessExits ==
    /\ main = "exiting"
    /\ main' = "gone"
    /\ UNCHANGED <<isOpen, pollVars, threadVars, stopEvent, request, now>>

MainSteps ==
    \/ StartPoller \/ StopPoller \/ JoinReturns \/ ProcessExits
    \/ \E a \in Arms : ConnectSucceeds(a) \/ ConnectFails(a) \/ Disconnects(a)

\* Bound: MaxNow.
ClockTicks ==
    /\ now < MaxNow
    /\ now' = now + 1
    /\ UNCHANGED <<isOpen, pollVars, threadVars, stopEvent, main, request>>

Next == PollerSteps \/ RequestSteps \/ MainSteps \/ ClockTicks

Spec == Init /\ [][Next]_vars

\* The poller and the main thread are scheduled; nobody has to send a request or
\* a signal, and nothing makes a read succeed but that faults end (see ReadFails).
FairSpec ==
    /\ Spec
    /\ WF_vars(PollerSteps)
    /\ WF_vars(MainSteps /\ ~StopPoller)

-----------------------------------------------------------------------------
\* How many polls of arm a have come to an end.
Finished(a) ==
    sequence + IF pc = "count" \/ (a = "leader" /\ pc = "follower") THEN 1 ELSE 0

\* Every poll of an arm is accounted for: the errors counted are exactly the polls
\* since the last good sample was read, so a count of zero means that the sample
\* served is the latest poll's and otherwise no good sample was lost (_poll_arm).
Accounted == \A a \in Arms : poll[a].lastGood.poll + poll[a].errors + 1 = Finished(a)

\* An answer whose follower is not marked stale never pairs the leader with a
\* follower from more than one poll before, although the poller works between the
\* two views: what difference_deg and an "ok" are worth (snapshot, health).
SkewInPolls ==
    request.at = "assemble" /\ ~request.follower.stale =>
        request.follower.sample.poll >= request.leader.sample.poll - 1

\* Nor was that follower read more than StaleAfter before the leader was, although
\* the clock of each view is read at another moment (_arm_view).
SkewInTime ==
    request.at = "assemble" /\ ~request.follower.stale =>
        request.follower.sample.stamp >= request.leader.sample.stamp - StaleAfter

\* /health and /state agree: while the server runs, a "degraded" always comes with
\* an arm that /state marks stale; an arm that delivers is never called
\* disconnected, even when its connect had failed (health, connect_all, _poll_arm).
DegradedMeansStale ==
    request.at = "assemble" /\ main = "serving"
    /\ Status(request.leader, request.follower) = "degraded" =>
        request.leader.stale \/ request.follower.stale

\* What a comparison of the two arms is worth: an unmarked follower is at most one
\* poll and at most StaleAfter older than the leader it is answered with.
SkewBounded == SkewInPolls /\ SkewInTime

\* What /health is worth: the errors are exactly the polls since the last good
\* sample, and "degraded" is never said of two arms that /state calls fresh.
HealthHonest == Accounted /\ DegradedMeansStale

\* While the server runs, an arm whose port is open comes back from its read errors
\* once the faults end, whatever the other arm does (partial connection allowed).
ArmsServed ==
    \A a \in Arms :
        main = "serving" /\ isOpen[a]
            ~> stopEvent \/ (poll[a].lastGood # NoSample /\ poll[a].errors = 0)

\* A stop signal ends the process, even with the poller stuck in a read.
ShutdownEnds == main = "joining" ~> main = "gone"
=============================================================================
