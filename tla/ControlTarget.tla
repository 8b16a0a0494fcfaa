---------------------------- MODULE ControlTarget ----------------------------
(***************************************************************************)
(* How one tick turns the blended prediction into a target for the motors: *)
(* RealTimeControlTargetGenerator.tick (realtime_control_target.py) with   *)
(* the intent validation, the coordinated motion guard and the safety gate *)
(* it calls.  ControlLoop knows only the outcomes; here is the state that  *)
(* is carried from one tick to the next.                                   *)
(*                                                                         *)
(* Positions, velocities and times are integers.  The velocity wanted by   *)
(* the trajectory is an input.  A velocity the guard chooses is any one    *)
(* along the wanted one that it takes for feasible: that the common scale  *)
(* is the largest one is left open.  Feasible is what the code checks: it  *)
(* never notices that an interval of velocities is empty, see Feasible.  A *)
(* raw prediction is a number, two of them are too far apart when they     *)
(* differ by more than JumpLimit.                                          *)
(***************************************************************************)
EXTENDS Integers, FiniteSetsExt, Functions

CONSTANTS
  Joints,
  Lead, Soft,                     \* tracking lead at which a joint stops, and slows, the others
  Velocity, Acceleration, Jerk,   \* limits, the same for every joint
  Full, Recovery,                 \* steps of the phase scale, and those regained per unit of time
  Threshold,                      \* encoder movement that counts as a response
  NoResponseTimeout, OppositeTimeout,
  TickPeriod,                     \* dt of a tick without history
  RangeLow, RangeHigh, Gross,     \* mechanical range, and how far outside is a rejection
  JumpLimit,                      \* temporal_single_hard
  Positions, Wanted, Targets, Contexts, MaxGap      \* inputs and bounds of the model

ASSUME TargetAssumption ==
  /\ Lead \in Nat \ {0} /\ Soft \in 1 .. Lead /\ Velocity \in Nat /\ Acceleration \in Nat /\ Jerk \in Nat
  /\ Full \in Nat \ {0} /\ Recovery \in Nat /\ Threshold \in Nat
  /\ NoResponseTimeout \in Nat \ {0} /\ OppositeTimeout \in Nat \ {0}
  /\ TickPeriod \in Nat \ {0} /\ MaxGap \in Nat /\ JumpLimit \in Nat
  /\ RangeLow \in Int /\ RangeHigh \in Int /\ RangeLow <= RangeHigh /\ Gross \in Nat
  /\ Positions \subseteq Int /\ Wanted \subseteq Int /\ Targets \subseteq Int

VARIABLES
  guard,          \* _coordinated_guard_state, or NoGuard
  sinceTick,      \* now - _last_tick_time_monotonic, or NoTick
  intent,         \* _previous_valid_raw_target and its contributing chunks, or NoIntent
  out,            \* the result of the last tick
  accepted        \* history: the last raw target accepted since the trajectory was lost

targetVars == <<guard, sinceTick, intent, out, accepted>>

NoGuard == [present |-> FALSE]
NoTick == -1
NoIntent == [present |-> FALSE]
Nothing == [outcome |-> "none"]

Abs(x) == IF x < 0 THEN -x ELSE x
Within(x, low, high) == IF x < low THEN low ELSE IF x > high THEN high ELSE x
Sign(x) == IF x > 0 THEN 1 ELSE -1

TargetInit ==
  /\ guard = NoGuard
  /\ sinceTick = NoTick
  /\ intent = NoIntent
  /\ out = Nothing
  /\ accepted = NoIntent

\* What a tick without history starts from: the encoders, at rest.  The last
\* acceleration is kept as a change of velocity and the dt it took.
Bootstrap(actual) ==
  [present |-> TRUE, positions |-> actual, velocities |-> [j \in Joints |-> 0],
   change |-> [j \in Joints |-> 0], over |-> TickPeriod,
   phase |-> Full, anchor |-> actual, noResponse |-> 0, opposite |-> 0]

Before(actual) == IF guard.present THEN guard ELSE Bootstrap(actual)

-----------------------------------------------------------------------------
(***************************************************************************)
(* The motion guard.                                                       *)
(***************************************************************************)
\* How far the command is ahead of the encoder.
Lag(g, actual, j) == g.positions[j] - actual[j]

\* The joints whose trajectory increases a lag they already have.
Pushing(g, actual, wanted) == {j \in Joints : Lag(g, actual, j) * wanted[j] > 0}

LagScales(g, actual, wanted) ==
  LET P == Pushing(g, actual, wanted)
  IN  IF \E j \in P : Abs(Lag(g, actual, j)) >= Lead THEN {0}
      ELSE IF \E j \in P : Abs(Lag(g, actual, j)) > Soft THEN 1 .. Full - 1
      ELSE {Full}

\* Slowing down is immediate, recovery is gradual.
NextPhase(previous, lagScale, dt) ==
  IF lagScale < previous \/ lagScale < previous + Recovery * dt THEN lagScale
  ELSE previous + Recovery * dt

\* How far velocity v of joint j is inside the upper (side = 1) or lower (-1) limits:
\* those of velocity, of acceleration and of jerk (times the dt of the last tick),
\* and, in Room, the one that keeps the command within the lead of its encoder.
DynamicRoom(g, v, dt, j, side) ==
  LET change == side * (v - g.velocities[j])
  IN  {Velocity - side * v, Acceleration * dt - change,
       (side * g.change[j] + Jerk * dt * g.over) * dt - change * g.over}

Room(g, actual, v, dt, j, side) ==
  DynamicRoom(g, v, dt, j, side) \cup {Lead - side * (Lag(g, actual, j) + v * dt)}

\* The lowest velocity may be above the highest, when the command is beyond its
\* lead or too fast.  Divided by a wanted velocity, the two bounds are sorted:
\* what lies between them is feasible then, outside the limits of both sides.
Feasible(g, actual, wanted, v, phase, dt, j) ==
  LET low == Room(g, actual, v, dt, j, -1)
      high == Room(g, actual, v, dt, j, 1)
  IN  \/ (\A room \in low : room >= 0) /\ (\A room \in high : room >= 0)
      \/ wanted[j] * phase # 0 /\ (\E room \in low : room <= 0) /\ (\E room \in high : room <= 0)

\* The wanted velocity of a joint at a phase, or a part of it.
Along(wanted, phase, j) ==
  {v \in -Abs(wanted[j]) .. Abs(wanted[j]) : v * wanted[j] >= 0 /\ Abs(v) * Full <= Abs(wanted[j]) * phase}

\* Mutant of Moves: the lead of the encoders does not bound the velocity.
MovesWithoutLead(g, actual, wanted, phase, dt) ==
  {v \in [Joints -> UNION {Along(wanted, phase, j) : j \in Joints}] :
     \A j \in Joints :
       /\ v[j] \in Along(wanted, phase, j)
       /\ \A side \in {-1, 1} : \A room \in DynamicRoom(g, v[j], dt, j, side) : room >= 0}

\* One time scale for all joints: the direction of the trajectory is kept.
Moves(g, actual, wanted, phase, dt) ==
  {v \in [Joints -> UNION {Along(wanted, phase, j) : j \in Joints}] :
     /\ \A i, j \in Joints : v[i] * wanted[j] = v[j] * wanted[i]
     /\ \A j \in Joints :
          v[j] \in Along(wanted, phase, j) /\ Feasible(g, actual, wanted, v[j], phase, dt, j)}

\* Towards rest as hard as acceleration allows, or, for the jerk, less so: between
\* that change of velocity and the last one.
Braked(g, dt, j) ==
  LET stop == Within(-g.velocities[j], -Acceleration * dt, Acceleration * dt)
  IN  {Within(g.velocities[j] + c, -Velocity, Velocity) :
       c \in {c \in -Acceleration * dt .. Acceleration * dt :
                (c - stop) * (c * g.over - g.change[j] * dt) <= 0}}

\* No common scale is feasible, so that rest is not: all joints brake together.
Brakes(g, actual, wanted, phase, dt) ==
  IF \A j \in Joints : Feasible(g, actual, wanted, 0, phase, dt, j) THEN {}
  ELSE {v \in [Joints -> -Velocity .. Velocity] :
          \A j \in Joints : v[j] \in Braked(g, dt, j)}

\* Mutant of Advanced: the emergency envelope is forgotten.
AdvancedUnbounded(g, actual, v, phase, dt) == [j \in Joints |-> g.positions[j] + v[j] * dt]

\* On hold the command stays within the lead of an encoder that moves away.
Advanced(g, actual, v, phase, dt) ==
  [j \in Joints |->
     IF phase = 0 THEN Within(g.positions[j] + v[j] * dt, actual[j] - Lead, actual[j] + Lead)
     ELSE g.positions[j] + v[j] * dt]

Blocking(g, actual, wanted) ==
  {j \in Pushing(g, actual, wanted) : Abs(Lag(g, actual, j)) >= Lead - Threshold}

\* The best response of a blocking joint, in its wanted direction.
Response(g, actual, wanted) ==
  Max({(actual[j] - g.anchor[j]) * Sign(wanted[j]) : j \in Blocking(g, actual, wanted)})

\* Mutant of Watched: the opposite movement is counted but never forgotten.
WatchedForEver(g, actual, wanted, dt) ==
  IF Blocking(g, actual, wanted) = {} THEN [anchor |-> g.anchor, noResponse |-> 0, opposite |-> g.opposite]
  ELSE IF Response(g, actual, wanted) >= Threshold THEN [anchor |-> actual, noResponse |-> 0, opposite |-> g.opposite]
  ELSE [anchor |-> g.anchor, noResponse |-> g.noResponse + dt,
        opposite |-> IF Response(g, actual, wanted) < 0 THEN g.opposite + dt ELSE 0]

\* How long the blocking joints have not responded, and moved the other way.
Watched(g, actual, wanted, dt) ==
  IF Blocking(g, actual, wanted) = {} THEN [anchor |-> g.anchor, noResponse |-> 0, opposite |-> 0]
  ELSE IF Response(g, actual, wanted) >= Threshold THEN [anchor |-> actual, noResponse |-> 0, opposite |-> 0]
  ELSE [anchor |-> g.anchor, noResponse |-> g.noResponse + dt,
        opposite |-> IF Response(g, actual, wanted) < 0 THEN g.opposite + dt ELSE 0]

\* Mutant of TimedOut: movement the wrong way alone is never given up on.
TimedOutInSilence(w) == w.noResponse >= NoResponseTimeout

TimedOut(w) == w.opposite >= OppositeTimeout \/ w.noResponse >= NoResponseTimeout

Guarded(g, actual, w, v, phase, dt) ==
  [present |-> TRUE, positions |-> Advanced(g, actual, v, phase, dt), velocities |-> v,
   change |-> [j \in Joints |-> v[j] - g.velocities[j]], over |-> dt,
   phase |-> phase, anchor |-> w.anchor, noResponse |-> w.noResponse, opposite |-> w.opposite]

\* Moving along the wanted velocities at a phase the lag allows, or on hold, all
\* joints braking.
AtPhase(g, actual, wanted, phase, dt) ==
  LET w == Watched(g, actual, wanted, dt)
  IN  {Guarded(g, actual, w, v, phase, dt) : v \in Moves(g, actual, wanted, phase, dt)}
      \cup {Guarded(g, actual, w, v, 0, dt) : v \in Brakes(g, actual, wanted, phase, dt)}

\* Every state one application of the guard may end in.
GuardStates(g, actual, wanted, dt) ==
  IF dt <= 0 \/ TimedOut(Watched(g, actual, wanted, dt)) THEN {}
  ELSE UNION {AtPhase(g, actual, wanted, NextPhase(g.phase, s, dt), dt) : s \in LagScales(g, actual, wanted)}

-----------------------------------------------------------------------------
(***************************************************************************)
(* The safety gate, on a guarded target: slightly outside the mechanical   *)
(* range is clamped and sent, far outside is rejected.                     *)
(***************************************************************************)
GateRejects(p) == \E j \in Joints : p[j] < RangeLow - Gross \/ p[j] > RangeHigh + Gross
\* Mutant of Saturated: a target that would be clamped is sent as it is.
SaturatedInNameOnly(p) == p

Saturated(p) == [j \in Joints |-> Within(p[j], RangeLow, RangeHigh)]

-----------------------------------------------------------------------------
(***************************************************************************)
(* tick(): its time is `step` after the previous call.  The encoders, the  *)
(* velocities wanted and the raw predictions are its inputs.               *)
(***************************************************************************)
ClockTo(step) == sinceTick' = IF sinceTick = NoTick THEN NoTick ELSE sinceTick + step
Dt(step) == IF sinceTick = NoTick THEN TickPeriod ELSE sinceTick + step

\* No chunk, or none that covers the time: reset_guard_state().
TrajectoryLost ==
  /\ guard' = NoGuard /\ sinceTick' = NoTick /\ intent' = NoIntent
  /\ out' = [outcome |-> "no_target"]
  /\ accepted' = NoIntent

\* Mutant of IntentRejected: the whole history is reset, as when the trajectory is lost.
IntentRejectedForgetting ==
  /\ guard' = NoGuard /\ sinceTick' = NoTick /\ intent' = NoIntent
  /\ out' = [outcome |-> "intent"]
  /\ UNCHANGED accepted

\* Mutant of IntentRejected: the time of the last tick is kept.
IntentRejectedKeepingTime ==
  /\ guard' = NoGuard
  /\ out' = [outcome |-> "intent"]
  /\ UNCHANGED <<sinceTick, intent, accepted>>

\* The raw target is refused: too far from the encoders or from the last one
\* that was accepted, or grossly out of range.  That last one is remembered.
IntentRejected ==
  /\ guard' = NoGuard /\ sinceTick' = NoTick
  /\ out' = [outcome |-> "intent"]
  /\ UNCHANGED <<intent, accepted>>

\* Only targets blended from the same chunks are compared.
IntentAccepts(raw, context) ==
  /\ intent.present /\ intent.context = context => Abs(raw - intent.raw) <= JumpLimit
  /\ intent' = [present |-> TRUE, raw |-> raw, context |-> context]
  /\ accepted' = intent'

\* Nothing but the history of the validation is changed; the time of the last
\* tick is not, so that dt grows.
GuardFails(actual, wanted, step) ==
  /\ Dt(step) <= 0 \/ TimedOut(Watched(Before(actual), actual, wanted, Dt(step)))
  /\ out' = [outcome |-> "guard"]
  /\ ClockTo(step)
  /\ UNCHANGED guard

\* Committed before the gate decides, and before anything is written.
GuardMoves(actual, wanted, step) ==
  \E g \in GuardStates(Before(actual), actual, wanted, Dt(step)) :
    /\ guard' = g
    /\ sinceTick' = 0
    /\ out' = IF GateRejects(g.positions)
              THEN [outcome |-> "safety", actual |-> actual]
              ELSE [outcome |-> "valid", actual |-> actual, final |-> Saturated(g.positions)]

TargetTick(positions, velocities, targets, contexts) ==
  \/ TrajectoryLost
  \/ IntentRejected
  \/ \E actual \in [Joints -> positions], wanted \in [Joints -> velocities],
        step \in 0 .. MaxGap, raw \in targets, context \in contexts :
       /\ IF sinceTick = NoTick THEN step = 0 ELSE sinceTick + step <= MaxGap
       /\ IntentAccepts(raw, context)
       /\ GuardFails(actual, wanted, step) \/ GuardMoves(actual, wanted, step)

TargetNext == TargetTick(Positions, Wanted, Targets, Contexts)

TargetSpec == TargetInit /\ [][TargetNext]_targetVars

-----------------------------------------------------------------------------
GuardMemory ==
  [present : {TRUE}, positions : [Joints -> Int], velocities : [Joints -> Int],
   change : [Joints -> Int], over : Nat \ {0}, phase : 0 .. Full, anchor : [Joints -> Int],
   noResponse : 0 .. NoResponseTimeout - 1, opposite : 0 .. OppositeTimeout - 1]

TargetTypeOK ==
  /\ guard = NoGuard \/ guard \in GuardMemory
  /\ sinceTick \in {NoTick} \cup 0 .. MaxGap
  /\ out.outcome \in {"none", "no_target", "intent", "guard", "safety", "valid"}

\* On hold, wherever the arm was pushed to, however long the last tick is ago and
\* whether or not earlier targets were sent: the command that is remembered is not
\* farther from the encoders it was computed from than the tracking lead.
HeldWithinLead ==
  out.outcome \in {"safety", "valid"} /\ guard.phase = 0 =>
    \A j \in Joints : Abs(guard.positions[j] - out.actual[j]) <= Lead

\* What is sent is in range, and on hold no farther from the encoders than the
\* tracking lead, except that a joint outside its range is led back to it.
FinalWithinReach ==
  out.outcome = "valid" =>
    \A j \in Joints :
      /\ out.final[j] \in RangeLow .. RangeHigh
      /\ \/ guard.phase # 0
         \/ Abs(out.final[j] - out.actual[j]) <= Lead
         \/ out.final[j] = Within(out.actual[j], RangeLow, RangeHigh)

\* From g to h: a command beyond its lead is turning back at least as hard as one
\* of the dynamic limits allows.
Turning(g, h, actual) ==
  \A j \in Joints :
    LET lag == Lag(h, actual, j)
    IN  Abs(lag) > Lead => \E room \in DynamicRoom(g, h.velocities[j], h.over, j, Sign(-lag)) : room <= 0

\* A tick that moves the command leaves it beyond the tracking lead of an encoder
\* only when it could not be stopped: no trajectory drives it there.
LeftByMomentumOnly ==
  [][out'.outcome \in {"safety", "valid"} /\ guard'.phase # 0 =>
       Turning(Before(out'.actual), guard', out'.actual)]_targetVars

\* After a gap (no trajectory, a refused prediction) the arm restarts from
\* where it is: the first command is one period at full speed away at most,
\* however long the gap was.
RestartsGently ==
  [][~guard.present /\ guard'.present =>
       \A j \in Joints : Abs(guard'.positions[j] - out'.actual[j]) <= Velocity * TickPeriod]_targetVars

\* Two accepted predictions of the same chunks, with any number of refused ones
\* between them, never differ by more than the limit.
NoJumpWithinContext ==
  [][accepted.present /\ accepted'.present /\ accepted'.context = accepted.context =>
       Abs(accepted'.raw - accepted.raw) <= JumpLimit]_targetVars

\* An encoder that moves away from its command is given up on only if it kept
\* doing so: a tick in which nothing blocks, or the arm responds, starts the
\* measurement again.
OppositeIsPartOfSilence == guard.present => guard.opposite <= guard.noResponse

\* The command of an arm on hold stays near it, what is sent is in range, and the
\* guard gives up on an encoder only for what it kept doing.
TargetWithinReach == HeldWithinLead /\ FinalWithinReach /\ OppositeIsPartOfSilence

\* Targets move gently: a dt never spans what no tick has seen, no trajectory
\* drives a command out of its lead, and within one context the accepted targets
\* do not jump.
TargetsGentle == RestartsGently /\ LeftByMomentumOnly /\ NoJumpWithinContext
=============================================================================
