--------------------------- MODULE MCControlTarget ---------------------------
(***************************************************************************)
(* The trajectory pulls the joints one way, which may turn from one tick   *)
(* to the next; each joint lags or is ahead by itself.  Which predictions  *)
(* are accepted does not depend on positions: two parts, one with all      *)
(* positions and velocities, one with all predictions, keep the number of  *)
(* states down.  TargetSpec has no such limits, MotorWritersProofs has     *)
(* both.                                                                   *)
(***************************************************************************)
EXTENDS ControlTarget, TLC

VARIABLE part

OneWay == \E velocity \in Wanted : TargetTick(Positions, {velocity}, Targets, Contexts)
OnePosition == TargetTick({0}, {1}, {0, 2}, {1, 2})

MCInit == TargetInit /\ part \in {"positions", "predictions"}
MCNext ==
  /\ UNCHANGED part
  /\ (part = "positions" /\ OneWay) \/ (part = "predictions" /\ OnePosition)

MCSpec == MCInit /\ [][MCNext]_<<part, targetVars>>

SlowOrFast == {-1, 2}
EitherJoint == Permutations(Joints)
=============================================================================
