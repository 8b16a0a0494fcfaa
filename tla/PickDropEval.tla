---------------------------- MODULE PickDropEval ----------------------------
(***************************************************************************)
(* What a pick-and-drop rollout is judged to be (pick_drop_eval.py): the   *)
(* kinematic track from the gripper and the end effector, the physics      *)
(* track from contacts, and the reason given for a failure.  A rollout is  *)
(* grown step by step and judged as it stands after each.  A distance is   *)
(* known by the narrowest threshold it is within:                          *)
(*   cube  0 grasp pose, 1 approach, 2 neither                             *)
(*   bin   0 BIN_VICINITY_DIST_M, 1 one and a half of it, 2 neither        *)
(***************************************************************************)
EXTENDS Naturals, Sequences, FiniteSetsExt

CONSTANTS
  LiftWindow,   \* LIFT_WINDOW_STEPS
  Secured,      \* SECURED_MIN_CONSECUTIVE_CONTACT_STEPS
  MaxArmSteps,  \* bounds: length of a rollout, in each track
  MaxCubeSteps

ASSUME EvalAssumption == LiftWindow \in Nat /\ Secured \in Nat \ {0}

VARIABLES
  kinematic,  \* per step: gripper, distances and height of the end effector
  physics     \* per step: contact, height and place of the cube

evalVars == <<kinematic, physics>>

Grips == {"closed", "between", "open"}   \* at most 20, between, at least 40 percent
Near(a, b) == a <= b + 1 /\ b <= a + 1

KinematicStep == [grip : Grips, cube : 0 .. 2, bin : 0 .. 2, high : BOOLEAN]
PhysicsStep == [contact : BOOLEAN, high : BOOLEAN, bin : 0 .. 2]

\* A step moves the arm by one class in one respect at most; the gripper may go anywhere.
MovesTo(a, b) ==
  /\ Near(a.cube, b.cube) /\ Near(a.bin, b.bin)
  /\ Cardinality({f \in {"cube", "bin", "high"} : a[f] # b[f]}) <= 1

EvalInit ==
  /\ kinematic \in {<<[grip |-> g, cube |-> 1, bin |-> 1, high |-> FALSE]>> : g \in {"open", "closed"}}
                    \union {<<[grip |-> "open", cube |-> 2, bin |-> 2, high |-> FALSE]>>}
  /\ physics \in {<<[contact |-> c, high |-> FALSE, bin |-> 2]>> : c \in BOOLEAN}

ArmSteps ==
  /\ Len(physics) = 1 /\ Len(kinematic) < MaxArmSteps
  /\ \E s \in KinematicStep : MovesTo(kinematic[Len(kinematic)], s) /\ kinematic' = Append(kinematic, s)
  /\ UNCHANGED physics

CubeSteps ==
  /\ Len(kinematic) = 1 /\ Len(physics) < MaxCubeSteps
  /\ \E s \in PhysicsStep :
       Near(physics[Len(physics)].bin, s.bin) /\ physics' = Append(physics, s)
  /\ UNCHANGED kinematic

EvalNext == ArmSteps \/ CubeSteps
EvalSpec == EvalInit /\ [][EvalNext]_evalVars

-----------------------------------------------------------------------------
(* The kinematic track.  A step that does not exist is 0.                  *)

FirstOf(S) == IF S = {} THEN 0 ELSE Min(S)

\* was_open at the step before i: a latch, never taken back.
OpenBefore(k, i) == \E j \in 1 .. i - 1 : k[j].grip = "open"

CloseStep(k) == FirstOf({i \in 2 .. Len(k) : k[i].grip = "closed" /\ OpenBefore(k, i)})

\* A lift counts whenever it happens after the close.
LiftStepLate(k, closed) ==
  FirstOf({i \in closed .. Len(k) : closed > 0 /\ k[i].high /\ ~k[closed].high})

\* Above the height at the close, by LIFT_HEIGHT_M, within the window.
LiftStep(k, closed) ==
  FirstOf({i \in closed .. Len(k) :
             closed > 0 /\ i <= closed + LiftWindow /\ k[i].high /\ ~k[closed].high})

\* was_closed looks at the step before only, and is true right after the close.
ReleaseStep(k, closed) ==
  FirstOf({i \in closed + 1 .. Len(k) :
             closed > 0 /\ k[i].grip = "open" /\ (i = closed + 1 \/ k[i - 1].grip = "closed")})

StagesOf(k) ==
  LET nearest == Min({k[i].cube : i \in 1 .. Len(k)})
      closed == CloseStep(k)
      lift == LiftStep(k, closed)
      release == ReleaseStep(k, closed)
  IN  [approach |-> nearest <= 1,
       grasp    |-> nearest = 0,
       close    |-> closed > 0,
       lift     |-> lift > 0,
       carry    |-> lift > 0 /\ k[Len(k)].bin < k[lift].bin,
       vicinity |-> \E i \in 1 .. Len(k) : k[i].bin = 0,
       release  |-> release > 0,
       inTime   |-> release > 0 /\ k[release].bin <= 1]

KinematicSuccess(s) == \A f \in DOMAIN s : s[f]

-----------------------------------------------------------------------------
(* The physics track.                                                      *)

\* Contacts add up, whatever lies between them.
SecuredStepScattered(p) ==
  FirstOf({i \in 1 .. Len(p) : Cardinality({j \in 1 .. i : p[j].contact}) >= Secured})

\* The end of the first run of contacts that is long enough.
SecuredStep(p) ==
  FirstOf({i \in Secured .. Len(p) : \A j \in i - Secured + 1 .. i : p[j].contact})

CubeLifted(p, held) ==
  FirstOf({i \in held .. Len(p) : held > 0 /\ p[i].contact /\ p[i].high /\ ~p[held].high})

\* The first contact that ends after the cube was secured.
CubeReleased(p, held) == FirstOf({i \in held + 1 .. Len(p) : held > 0 /\ ~p[i].contact})

PhysicsSuccess(p) ==
  LET held == SecuredStep(p)
      lifted == CubeLifted(p, held)
  IN  /\ lifted > 0 /\ p[Len(p)].bin < p[lifted].bin
      /\ CubeReleased(p, held) > 0
      /\ p[Len(p)].bin = 0

-----------------------------------------------------------------------------
(* classify_failure.  `phys` is [success, contact, inBin].                 *)

Classify(s, phys, rejected, timeout) ==
  CASE rejected -> "safety_reject"
    [] ~rejected /\ KinematicSuccess(s) ->
         IF phys.success THEN "none"
         ELSE IF phys.contact /\ ~phys.inBin THEN "dropped_early" ELSE "missed_grasp"
    [] OTHER ->
         IF ~s.approach THEN "failed_approach"
         ELSE IF ~s.grasp \/ ~s.close THEN "missed_grasp"
         ELSE IF ~s.lift THEN "failed_lift"
         ELSE IF ~s.carry THEN "wrong_direction"
         ELSE IF ~s.vicinity THEN "failed_bin_reach"
         ELSE IF ~s.release \/ ~s.inTime THEN "failed_release"
         ELSE IF timeout THEN "timeout" ELSE "other"

-----------------------------------------------------------------------------
EvalTypeOK == kinematic[Len(kinematic)] \in KinematicStep /\ physics[Len(physics)] \in PhysicsStep

\* A rollout that is called a kinematic success tells one story, in this order: the
\* gripper was open, closed, the arm rose within the window of the close, and it was
\* opened again near the bin, with the end nearer to the bin than the lift.
SuccessIsAStory ==
  KinematicSuccess(StagesOf(kinematic)) =>
    \E opened, closed, lifted, released \in 1 .. Len(kinematic) :
      /\ opened < closed /\ closed < lifted /\ closed < released
      /\ kinematic[opened].grip = "open" /\ kinematic[closed].grip = "closed"
      /\ lifted <= closed + LiftWindow /\ kinematic[lifted].high
      /\ kinematic[released].grip = "open" /\ kinematic[released].bin <= 1
      /\ kinematic[Len(kinematic)].bin < kinematic[lifted].bin

\* A rollout that is called a physics success held the cube without a break for as
\* long as it takes, then had it high and in contact, lost it, and left it in the bin.
CubeIsAStory ==
  PhysicsSuccess(physics) =>
    /\ \E held \in 1 .. Len(physics), lifted \in 1 .. Len(physics) :
         /\ held + Secured - 1 < lifted /\ physics[lifted].contact /\ physics[lifted].high
         /\ \A i \in held .. held + Secured - 1 : physics[i].contact
    /\ \E lost \in 1 .. Len(physics) : ~physics[lost].contact
    /\ physics[Len(physics)].bin = 0

\* A failure is put down to the first stage that is missing, and to the simulation
\* only when the kinematic track succeeded; "other" and, for a rollout that got as far
\* as the approach, "timeout" are never given.
ReasonNamesTheStage ==
  LET s == StagesOf(kinematic) IN
  \A success, contact, inBin, rejected, timeout \in BOOLEAN :
    LET reason == Classify(s, [success |-> success, contact |-> contact, inBin |-> inBin],
                           rejected, timeout)
    IN  /\ reason \notin {"timeout", "other"}
        /\ reason = "dropped_early" => KinematicSuccess(s) /\ ~success
        /\ reason = "failed_release" => s.close /\ s.lift /\ s.carry /\ s.vicinity
        /\ reason = "none" <=> ~rejected /\ KinematicSuccess(s) /\ success

JudgedRightly == SuccessIsAStory /\ CubeIsAStory /\ ReasonNamesTheStage
=============================================================================
