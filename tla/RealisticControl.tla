-------------------------- MODULE RealisticControl --------------------------
(***************************************************************************)
(* The layer between a command and MuJoCo's actuators                      *)
(* (so101_realistic_control.py): latency, the deadband of the wrist, the   *)
(* limit on a frame's change.  Joints do not meet in it, so it is modelled *)
(* for one, which may be the wrist.                                        *)
(***************************************************************************)
EXTENDS Integers, Sequences, FiniteSetsExt

CONSTANTS
  NoPosition,    \* None where a position could be
  CtlValues,     \* commands and positions
  Delay,         \* the profile's median latency; 0: enable_latency is off
  SoftLimit,     \* frame_delta_soft_limit of the joint
  Deadband,      \* no_response_upper_deg of the wrist
  CtlEnd         \* bound: the clock's last value, and commands between two resets

ASSUME CtlAssumption ==
  /\ {Delay, SoftLimit, Deadband, CtlEnd} \subseteq Nat
  /\ CtlValues \subseteq Int /\ (\A a, b \in CtlValues : a .. b \subseteq CtlValues)
  /\ NoPosition \notin Int

VARIABLES
  channel,   \* what the layer keeps of the joint: wrist, pending, delayed, out
  ctlClock,
  begun,     \* what reset() was given
  given,     \* the commands processed since, with their times
  before     \* _last_output before the last of them

ctlVars == <<channel, ctlClock, begun, given, before>>

Distance(a, b) == IF a > b THEN a - b ELSE b - a

\* With no initial state the first command becomes the point of reference.
Emptied(wrist, position) ==
  [wrist |-> wrist, pending |-> <<>>, delayed |-> position, out |-> position]

\* Waiting for the delay to be exceeded.
ApplyLatencyLate(c, value, now) ==
  LET queue == Append(c.pending, [at |-> now, value |-> value])
      ready == Cardinality({i \in DOMAIN queue : now - queue[i].at > Delay})
  IN  IF c.delayed = NoPosition THEN [c EXCEPT !.delayed = value]
      ELSE [c EXCEPT !.delayed = IF ready = 0 THEN @ ELSE queue[ready].value,
                     !.pending = SubSeq(queue, ready + 1, Len(queue))]

\* The newest command that has waited long enough; older ones are dropped.
ApplyLatency(c, value, now) ==
  LET queue == Append(c.pending, [at |-> now, value |-> value])
      ready == Cardinality({i \in DOMAIN queue : now - queue[i].at >= Delay})
  IN  IF c.delayed = NoPosition THEN [c EXCEPT !.delayed = value]
      ELSE [c EXCEPT !.delayed = IF ready = 0 THEN @ ELSE queue[ready].value,
                     !.pending = SubSeq(queue, ready + 1, Len(queue))]

\* Measured from where the joint is, if that is known, yet the last output is kept.
ApplyDeadband(c, actual) ==
  LET reference == IF actual # NoPosition THEN actual ELSE c.out
  IN  IF c.wrist /\ reference # NoPosition /\ c.out # NoPosition
           /\ Distance(c.delayed, reference) <= Deadband
      THEN c.out ELSE c.delayed

ApplyRateLimit(c, value) ==
  IF c.out = NoPosition \/ Distance(value, c.out) <= SoftLimit THEN value
  ELSE IF value > c.out THEN c.out + SoftLimit ELSE c.out - SoftLimit

\* process() for one joint.
Processed(c, value, now, actual) ==
  LET late == ApplyLatency(c, value, now)
  IN  [late EXCEPT !.out = ApplyRateLimit(c, ApplyDeadband(late, actual))]

-----------------------------------------------------------------------------
CtlInit ==
  /\ channel \in {Emptied(w, p) : w \in BOOLEAN, p \in CtlValues \union {NoPosition}}
  /\ begun = channel.out
  /\ ctlClock = 0 /\ given = <<>> /\ before = NoPosition

LayerReset ==
  /\ given # <<>>
  /\ \E p \in CtlValues \union {NoPosition} : channel' = Emptied(channel.wrist, p) /\ begun' = p
  /\ given' = <<>> /\ before' = NoPosition
  /\ UNCHANGED ctlClock

ProcessCommand ==
  /\ Len(given) < CtlEnd
  /\ \E value \in CtlValues, actual \in CtlValues \union {NoPosition} :
       /\ channel' = Processed(channel, value, ctlClock, actual)
       /\ given' = Append(given, [at |-> ctlClock, value |-> value])
  /\ before' = channel.out
  /\ UNCHANGED <<ctlClock, begun>>

ClockPasses ==
  /\ ctlClock < CtlEnd /\ ctlClock' = ctlClock + 1
  /\ UNCHANGED <<channel, begun, given, before>>

CtlNext == LayerReset \/ ProcessCommand \/ ClockPasses
CtlSpec == CtlInit /\ [][CtlNext]_ctlVars

-----------------------------------------------------------------------------
(* The types of the layer's state: positions the joint can have, a queue   *)
(* no longer than what was given.                                          *)
CtlTypeOK ==
  /\ channel.wrist \in BOOLEAN
  /\ {channel.delayed, channel.out, begun, before} \subseteq CtlValues \union {NoPosition}
  /\ Len(channel.pending) <= Len(given) /\ Len(given) <= CtlEnd
  /\ ctlClock \in 0 .. CtlEnd

\* Which commands count as arrived at the time of the last one.
Arrived ==
  {i \in DOMAIN given :
     given[Len(given)].at - given[i].at >= Delay \/ (i = 1 /\ begun = NoPosition)}

\* What is delayed is the newest command that has arrived and nothing that was
\* overtaken or reset; what waits is what has not arrived (_apply_latency).
DelayIsTheDelay ==
  given # <<>> =>
    /\ channel.delayed = IF Arrived = {} THEN begun ELSE given[Max(Arrived)].value
    /\ Len(channel.pending) = Len(given) - (IF Arrived = {} THEN 0 ELSE Max(Arrived))

\* No frame changes the output by more than the limit, and the output, the deadband
\* and the limit notwithstanding, never leaves what lies between the commands.
OutputIsSmooth ==
  LET seen == {given[i].value : i \in DOMAIN given} \union ({begun} \ {NoPosition})
  IN  given # <<>> =>
        /\ before # NoPosition => Distance(channel.out, before) <= SoftLimit
        /\ Min(seen) <= channel.out /\ channel.out <= Max(seen)
        /\ (~channel.wrist /\ channel.out # channel.delayed) =>
             Distance(before, channel.delayed) > SoftLimit

\* The layer delays and limits a command and does nothing else to it.
LayerHonest == DelayIsTheDelay /\ OutputIsSmooth
=============================================================================
