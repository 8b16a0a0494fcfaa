---------------------------- MODULE MotorWriters ----------------------------
(***************************************************************************)
(* From the policy to the motors, for one run of TLC: the policy server    *)
(* and its clients, the armed test of one joint, and the targets of the    *)
(* realtime control, which are two parts (see MCControlTarget).  They      *)
(* share no variable; a behaviour is one of `part`.                        *)
(***************************************************************************)
EXTENDS VlaService, SingleJoint, MCControlTarget

writerVars == <<part, vlaVars, jointVars, targetVars>>

WritersInit ==
  /\ part \in {"policy", "joint", "positions", "predictions"}
  /\ VlaInit /\ JointInit /\ TargetInit
  /\ part # "policy" => remote /\ ready
  /\ part # "joint" => position = 0 /\ engaged /\ \A r \in Runs : run[r].mode = "armed"

PolicyPart == part = "policy" /\ VlaNext /\ UNCHANGED <<part, jointVars, targetVars>>
JointPart == part = "joint" /\ JointNext /\ UNCHANGED <<part, vlaVars, targetVars>>
TargetPart == MCNext /\ UNCHANGED <<vlaVars, jointVars>>

WritersNext == PolicyPart \/ JointPart \/ TargetPart

WritersSpec == WritersInit /\ [][WritersNext]_writerVars

\* Neither clients nor joints are told apart.
EitherOne == Permutations(Clients) \cup EitherJoint

-----------------------------------------------------------------------------
WritersTypeOK == VlaTypeOK /\ JointTypeOK /\ TargetTypeOK

\* The policy answers with what was asked, whatever is lost or sent again: a chunk
\* is of its own observation, a reported ack has arrived, and no prediction after
\* a reset is of a call that was over when the reset was executed.
PolicyAnswers == []ChunkIsOfItsObservation /\ []AcksArrive /\ NothingFromBeforeReset
=============================================================================
