---------------------------- MODULE RemoteViewer ----------------------------
(***************************************************************************)
(* The viewer on the desktop (simulation/mujoco/live_web_viewer.py): its   *)
(* network thread asks the state server of the laptop through              *)
(* remote_state_client.py, its render thread applies the latest state to   *)
(* the simulation: as it is ("raw-leader"), through the layer of           *)
(* so101_realistic_control.py ("realistic": raw-leader with --control-mode *)
(* realistic), or through the mapper of follower_safe_mapper.py            *)
(* ("follower-safe").  One joint stands for all: they are independent.     *)
(*                                                                         *)
(* Time is discrete.  What is compared are ages; each is counted up to the *)
(* first value that is too old.  How long an attempt of a call takes and   *)
(* how many there are is left open: the timeout of the client bounds       *)
(* connecting and each read of the socket, not the attempt.                *)
(***************************************************************************)
EXTENDS Integers

CONSTANTS
  StaleAge,       \* stale_after_ms
  Timeout,        \* what the properties call a prompt answer (timeout_ms)
  StallAfter,     \* stall_warn_after_s
  Delay,          \* latency_median_ms of the layer; 0: enable_latency is off
  Rate,           \* rate_limit_deg_per_sec
  RangeEnd,       \* the safe range is 0 .. RangeEnd
  Farthest,       \* positions of the arms are 0 .. Farthest
  LeaderAt,       \* those of the leader
  MaxReadings     \* bound: readings of the server, which is restarted while there are more

ASSUME ViewerAssumption ==
  /\ {StaleAge, Timeout, StallAfter, Rate} \subseteq Nat \ {0}
  /\ {Delay, RangeEnd, Farthest, MaxReadings} \subseteq Nat /\ RangeEnd <= Farthest
  /\ LeaderAt \subseteq 0 .. Farthest

VARIABLES
  source,       \* command_source, and control_mode
  server,       \* the state server: sequence, mode, its reading and that one's age
  call,         \* get_state() of the network thread: phase, answer, how long on its way
  snapshot,     \* _SharedSnapshot
  watchdog,     \* SequenceWatchdog: last sequence and how long it has not changed
  fatal,        \* a frame saw a mode that is not read_only
  layer,        \* the realistic layer: commands waiting, the delayed one, _last_output
  command,      \* what the simulation follows; of the mapper, NoPosition at first
  sinceStep,    \* time since the mapper's last step, NoStep before the first
  followed,     \* history: the reading the simulation last moved for
  violated      \* history: as fatal, but never forgotten

viewerVars == <<source, server, call, snapshot, watchdog, fatal, layer, command, sinceStep,
                followed, violated>>
renderVars == <<watchdog, fatal, layer, command, sinceStep, followed, violated>>

NoPosition == -1
NoSequence == -1
NoStep == -1
Unknown == -1
NoSnapshot == [present |-> FALSE]
NoCall == [phase |-> "idle"]
NoReading == [reading |-> 0, leader |-> NoPosition, recent |-> TRUE]
Sources == {"raw-leader", "realistic", "follower-safe"}
Modes == {"read_only", "other"}

\* An answer that was not longer than Timeout on its way and reaches the simulation
\* was read by the server at most this long ago.
Oldest == 2 * StaleAge + Timeout

Older(age, limit) == IF age > limit THEN age ELSE age + 1
RealOlder(age) == IF age = Unknown THEN Unknown ELSE Older(age, Oldest)
Least(a, b) == IF a < b THEN a ELSE b
Between(a, b) == IF a < b THEN a .. b ELSE b .. a

\* preflight(): both arms were read by the server.  MuJoCo starts at 0.
ViewerInit ==
  /\ source \in Sources
  /\ server = [sequence |-> 0, reading |-> 0, mode |-> "read_only", age |-> 0, leader |-> 0]
  /\ call = NoCall /\ snapshot = NoSnapshot
  /\ watchdog = [last |-> NoSequence, since |-> 0]
  /\ fatal = FALSE /\ violated = FALSE /\ sinceStep = NoStep
  /\ layer = [waiting |-> [w \in 0 .. Delay |-> NoReading], delayed |-> NoReading, out |-> NoPosition]
  /\ command = IF source = "follower-safe" THEN NoPosition ELSE 0
  /\ followed = NoReading

-----------------------------------------------------------------------------
(***************************************************************************)
(* The laptop (external): polls, stops polling, is started again in        *)
(* another mode.  A new server counts from zero and has read nothing.      *)
(* Readings are numbered through; the age is that of the arm read earlier. *)
(***************************************************************************)
ServerPolls ==
  /\ server.reading < MaxReadings
  /\ \E leader \in LeaderAt :
       server' = [server EXCEPT !.sequence = @ + 1, !.reading = @ + 1, !.age = 0, !.leader = leader]
  /\ UNCHANGED <<source, call, snapshot, renderVars>>

ServerRestarts ==
  /\ server.reading < MaxReadings
  /\ \E mode \in Modes \ {server.mode} :
       server' = [server EXCEPT !.sequence = 0, !.mode = mode, !.age = StaleAge + 1, !.leader = NoPosition]
  /\ UNCHANGED <<source, call, snapshot, renderVars>>

-----------------------------------------------------------------------------
(***************************************************************************)
(* _network_loop: one call at a time.                                      *)
(***************************************************************************)
Asks ==
  /\ call.phase = "idle"
  /\ call' = [phase |-> "asked"]
  /\ UNCHANGED <<source, server, snapshot, renderVars>>

\* The age in the answer is the one the server has computed for it; `way`, how long
\* the answer has been on its way, is history, and so is `real`, the age at any later
\* time, or Unknown if the answer was longer than Timeout on its way.
ServerAnswers ==
  /\ call.phase = "asked"
  /\ call' = [phase |-> "answered", sequence |-> server.sequence, reading |-> server.reading,
              mode |-> server.mode, age |-> server.age, leader |-> server.leader,
              real |-> server.age, way |-> 0]
  /\ UNCHANGED <<source, server, snapshot, renderVars>>

AnswerArrives ==
  /\ call.phase = "answered"
  /\ snapshot' = [present |-> TRUE, received |-> 0, sequence |-> call.sequence,
                  reading |-> call.reading, mode |-> call.mode, age |-> call.age,
                  leader |-> call.leader, real |-> call.real]
  /\ call' = NoCall
  /\ UNCHANGED <<source, server, renderVars>>

\* A refused connection, a bad answer or a timeout: asked again, or given up and
\* the snapshot keeps the state it has.
AskFails ==
  /\ call.phase # "idle"
  /\ call' \in {[phase |-> "asked"], NoCall}
  /\ UNCHANGED <<source, server, snapshot, renderVars>>

-----------------------------------------------------------------------------
(***************************************************************************)
(* One frame of _render_loop.                                              *)
(***************************************************************************)
\* Mutant of Stale: only the age the server has computed is looked at.
StaleAtServer == snapshot.age > StaleAge

\* compute_effective_stale, and the age since it was received.
Stale == snapshot.age > StaleAge \/ snapshot.received > StaleAge

OtherMode == snapshot.mode # "read_only"

\* SequenceWatchdog.observe: `since` is the time since the sequence changed.
Observed ==
  IF watchdog.last # snapshot.sequence THEN [last |-> snapshot.sequence, since |-> 0] ELSE watchdog

\* With "raw-leader" it is for the display only.
Stalled(w) == w.since >= StallAfter

\* The leader's position in the snapshot, and what history tells of it.
Wanted == [reading |-> snapshot.reading, leader |-> snapshot.leader,
           recent |-> snapshot.real <= Oldest]

\* check_frame_targets blocks a joint out of its range.
Follows(position, reading) ==
  IF position \in 0 .. RangeEnd
  THEN command' = position /\ followed' = reading
  ELSE UNCHANGED <<command, followed>>

\* _apply_latency.  What waits is kept by how long it has waited, Delay standing
\* for longer: of commands that became ready together only the newest is taken.
\* A hold does not empty the queue, so what was wanted before it is followed after it.
Delayed(new) ==
  LET waiting == [layer.waiting EXCEPT ![0] = new]
  IN  IF layer.delayed = NoReading THEN [layer EXCEPT !.delayed = new]
      ELSE IF waiting[Delay] = NoReading THEN [layer EXCEPT !.waiting = waiting]
      ELSE [layer EXCEPT !.waiting = [waiting EXCEPT ![Delay] = NoReading], !.delayed = waiting[Delay]]

\* process().  The deadband and the limit of a frame's change (RealisticControl)
\* leave the output somewhere on the way to the delayed command.
Processes ==
  LET next == Delayed(Wanted)
      from == IF layer.out = NoPosition THEN next.delayed.leader ELSE layer.out
  IN  \E out \in Between(from, next.delayed.leader) :
        /\ layer' = [next EXCEPT !.out = out]
        /\ Follows(out, next.delayed)

\* Mutant of StepLimit: the time since the snapshot was received.
StepLimitSinceReceived == Rate * snapshot.received

Elapsed == IF sinceStep = NoStep THEN 0 ELSE sinceStep

\* max_step: the time since the last frame, held or not.
StepLimit == Rate * Elapsed

Limited(from, to) ==
  IF from < to THEN from + Least(to - from, StepLimit) ELSE from - Least(from - to, StepLimit)

\* Mutant of MapperHolds: the range is not looked at.
MapperHoldsForConnection == OtherMode \/ Stalled(Observed) \/ Stale

\* FollowerSafeMapper.step.
MapperHolds == OtherMode \/ Stalled(Observed) \/ Stale \/ snapshot.leader > RangeEnd

\* At first the position of the follower or, if there is none, of the leader; neither
\* is held to the range.
MapperStarts ==
  IF command # NoPosition THEN {command}
  ELSE 0 .. Farthest \cup (IF snapshot.leader = NoPosition THEN {NoPosition} ELSE {})

MapperSteps ==
  \E from \in MapperStarts :
    IF MapperHolds THEN command' = from /\ UNCHANGED followed
    ELSE command' = Limited(from, snapshot.leader) /\ followed' = Wanted

\* Mutant of Fatal: the mode of this frame only.
FatalNow == OtherMode

\* fatal is not reset.
Fatal == fatal \/ OtherMode

Held == Stale \/ Fatal

Frame ==
  /\ snapshot.present
  /\ fatal' = Fatal /\ violated' = (violated \/ OtherMode)
  /\ \/ /\ source = "follower-safe" /\ MapperSteps
        /\ watchdog' = Observed /\ sinceStep' = 0
        /\ UNCHANGED layer
     \/ /\ source # "follower-safe" /\ UNCHANGED <<watchdog, sinceStep>>
        /\ \/ Held /\ UNCHANGED <<layer, command, followed>>
           \/ ~Held /\ source = "raw-leader" /\ Follows(snapshot.leader, Wanted) /\ UNCHANGED layer
           \/ ~Held /\ source = "realistic" /\ Processes
  /\ UNCHANGED <<source, server, call, snapshot>>

\* Before the first answer; the mapper's clock runs.
FrameWithoutState ==
  /\ ~snapshot.present /\ source = "follower-safe"
  /\ sinceStep' = 0
  /\ UNCHANGED <<source, server, call, snapshot, watchdog, fatal, layer, command, followed, violated>>

-----------------------------------------------------------------------------
LayerAges ==
  LET old == layer.waiting
  IN  [layer EXCEPT !.waiting =
         [w \in 0 .. Delay |->
            IF w > 0 /\ (w < Delay \/ old[w - 1] # NoReading) THEN old[w - 1]
            ELSE IF w = Delay THEN old[w] ELSE NoReading]]

TimePasses ==
  /\ server' = [server EXCEPT !.age = Older(@, StaleAge)]
  /\ call' = IF call.phase # "answered" THEN call
             ELSE [call EXCEPT !.way = Least(Timeout, @ + 1),
                               !.real = IF call.way < Timeout THEN RealOlder(@) ELSE Unknown]
  /\ snapshot' = IF ~snapshot.present THEN snapshot
                 ELSE [snapshot EXCEPT !.received = Older(@, StaleAge), !.real = RealOlder(@)]
  /\ watchdog' = IF watchdog.last = NoSequence THEN watchdog
                 ELSE [watchdog EXCEPT !.since = Least(StallAfter, @ + 1)]
  /\ sinceStep' = IF sinceStep = NoStep THEN NoStep ELSE Least(Farthest, sinceStep + 1)
  /\ layer' = LayerAges
  /\ UNCHANGED <<source, fatal, command, followed, violated>>

ViewerNext ==
  \/ ServerPolls \/ ServerRestarts
  \/ Asks \/ ServerAnswers \/ AnswerArrives \/ AskFails
  \/ Frame \/ FrameWithoutState \/ TimePasses

ViewerSpec == ViewerInit /\ [][ViewerNext]_viewerVars

-----------------------------------------------------------------------------
ViewerTypeOK ==
  /\ source \in Sources /\ server.mode \in Modes
  /\ server.sequence \in 0 .. MaxReadings /\ server.reading \in 0 .. MaxReadings
  /\ server.age \in 0 .. StaleAge + 1
  /\ call.phase \in {"idle", "asked", "answered"}
  /\ command \in 0 .. Farthest \cup {NoPosition}
  /\ sinceStep \in 0 .. Farthest \cup {NoStep}

Begun == command # NoPosition
InRange == command \in 0 .. RangeEnd

\* The simulation moves only for a reading that was at most Oldest old when a frame
\* took it, if its answer was prompt, and never for an older reading than before:
\* however calls are delayed, repeated or fail, servers are replaced, commands wait
\* in the latency queue and frames are held.  (The server's age does not count the
\* way of the answer; nor does anything in the client.)
MovesOnRecentState ==
  [][Begun /\ command' # command =>
       followed'.recent /\ followed'.reading >= followed.reading]_viewerVars

\* Once a frame saw another mode, the simulation of the leader never moves again,
\* though later servers are read_only and commands still wait.
NeverMovesAfterViolation ==
  [][source # "follower-safe" /\ violated => UNCHANGED command]_viewerVars

\* A hold of any length ends without a jump: a frame moves the mapped command no
\* further than the rate allows for the time since the frame before.
NoJumpAfterHold ==
  [][source = "follower-safe" /\ Begun /\ command' # command =>
       command' - command <= Rate * Elapsed /\ command - command' <= Rate * Elapsed]_viewerVars

\* What is within the safe range stays there, as the simulation of the leader is from
\* the start.  A mapped command may begin outside: where the arm is is not checked.
StaysInRange == [][InRange => InRange']_viewerVars

ViewerSafe == MovesOnRecentState /\ NeverMovesAfterViolation /\ NoJumpAfterHold /\ StaysInRange

\* What docs/remote_mujoco_diagnostic.md says of the viewer, for both sources: no
\* update after a violation of the mode.
ViolationIsForEver == [][Begun /\ violated => UNCHANGED command]_viewerVars
=============================================================================
