---------------------------- MODULE StagedRollout ----------------------------
(***************************************************************************)
(* The staged test on the real follower: the script                        *)
(* (scripts/run_real_follower_staged_safety_test.py), which is run again   *)
(* and again, one stage at a time; the runner (runtime/laptop/             *)
(* staged_real_rollout.py); the writer with its budget                     *)
(* (hardware/safety/staged_follower_writer.py).                            *)
(*                                                                         *)
(* An action is known by the observation it was made from: the one of this *)
(* step ("now") or an earlier one ("before").                              *)
(*                                                                         *)
(* With --vla-mode http the policy is behind a server that outlives the    *)
(* process, and an attempt of the client that timed out may be executed    *)
(* later, in this step or in another run (VLAHttpClient._request; the      *)
(* reset of the server does not take the lock of its predictions).  No     *)
(* other client talks to the server; VlaService has several.               *)
(***************************************************************************)
EXTENDS Naturals, Sequences, SequencesExt

CONSTANTS
  ActionSteps,  \* actions of one inference, kept by the policy (external)
  StageLimit    \* steps of the last stage, 15

ASSUME StagedAssumption == {ActionSteps, StageLimit} \subseteq Nat \ {0}

VARIABLES
  process,    \* phase of the script, its stage, its number of steps, step reached
  receipts,   \* stages with a receipt in receipt_dir
  held,       \* devices this process has opened
  connected,  \* the writer's _connected
  torque,     \* the follower's motors hold their position
  budget,     \* the writer's _budget
  viaServer,  \* --vla-mode http; or the policy lives in the process
  actions,    \* the policy's queue
  stray,      \* attempts without an answer that may still be executed: resets, and
              \* predictions by the age of their observation
  fresh,      \* history: no earlier prediction was stray at the reset of this step
  chosen,     \* the action of this step, to be written: the observation it was made from
  earned,     \* history: stages that wrote every step of a run
  sends       \* history: send_action() of this run, raised ones included

stagedVars == <<process, receipts, held, connected, torque, budget,
                viaServer, actions, stray, fresh, chosen, earned, sends>>
devices == <<held, connected, torque>>
results == <<receipts, earned>>
policy == <<actions, stray>>
stepOf == <<fresh, chosen>>

Stages == 1 .. 3
StageSteps == <<{1}, 3 .. 5, 1 .. StageLimit>>
Phases == {"none", "camera", "state", "follower", "observe", "reset", "predict", "write", "passed",
           "release", "closeState", "closeCamera"}

In(phase) == process.phase = phase
Goto(phase) == process' = [process EXCEPT !.phase = phase]

StagedInit ==
  /\ process = [phase |-> "none", stage |-> 1, steps |-> 1, step |-> 0]
  /\ receipts = {} /\ earned = {}
  /\ held = {} /\ connected = FALSE /\ torque = FALSE
  /\ budget = 0 /\ chosen = "now" /\ sends = 0
  /\ viaServer \in BOOLEAN /\ actions = <<>> /\ stray = {} /\ fresh = TRUE

-----------------------------------------------------------------------------
(***************************************************************************)
(* The script up to the first step.                                        *)
(***************************************************************************)
\* _check_previous_stage_receipt
StageAllowed(stage) == stage = 1 \/ stage - 1 \in receipts

\* Arguments, receipt, confirmation and /health are in order; otherwise the
\* script ends here and nothing has changed.
RunBegins(stage, steps) ==
  /\ In("none")
  /\ StageAllowed(stage) /\ steps \in StageSteps[stage]
  /\ process' = [phase |-> "camera", stage |-> stage, steps |-> steps, step |-> 0]
  /\ held' = {} /\ connected' = FALSE
  /\ budget' = 0 /\ sends' = 0
  /\ actions' = IF viaServer THEN actions ELSE <<>>
  /\ UNCHANGED <<results, torque, viaServer, stray, stepOf>>

Opens(device, next) ==
  /\ \/ held' = held \cup {device} /\ Goto(next)
     \/ Goto("release") /\ UNCHANGED held
  /\ UNCHANGED <<results, connected, torque, budget, viaServer, policy, stepOf, sends>>

OpensCamera == In("camera") /\ Opens("camera", "state")
ConnectsState == In("state") /\ Opens("state", "follower")

\* SOFollower.connect() may raise before or after it enabled the motors.
ConnectsFollower ==
  /\ In("follower")
  /\ \/ /\ held' = held \cup {"follower"} /\ connected' = TRUE /\ torque' = TRUE
        /\ Goto("observe")
     \/ /\ \/ held' = held \cup {"follower"} /\ torque' = TRUE
           \/ UNCHANGED <<held, torque>>
        /\ Goto("release") /\ UNCHANGED connected
  /\ UNCHANGED <<results, budget, viaServer, policy, stepOf, sends>>

-----------------------------------------------------------------------------
(***************************************************************************)
(* _run_one_step: each failure halts the stage.                            *)
(***************************************************************************)
Halts == Goto("release")

\* What the step had of its own is gone with it.
StepIsOver == fresh' = TRUE /\ chosen' = "now"

\* Camera, state and schema.  What the policy has, or is still asked for, is of an
\* earlier observation from now on.
Observes ==
  /\ In("observe")
  /\ Goto("reset") \/ Halts
  /\ actions' = [i \in DOMAIN actions |-> "before"]
  /\ stray' = {IF what = "now" THEN "before" ELSE what : what \in stray}
  /\ UNCHANGED <<results, devices, budget, viaServer, fresh, chosen, sends>>

\* An attempt times out: the client asks again, and the server may do as well.
AttemptTimesOut ==
  /\ viaServer
  /\ \/ In("reset") /\ stray' = stray \cup {"reset"}
     \/ In("predict") /\ stray' = stray \cup {"now"}
  /\ UNCHANGED <<process, results, devices, budget, viaServer, actions, fresh, chosen, sends>>

\* Mutant of ResetsSession: the session is reset once, before the first step.
ResetsSessionOnce ==
  /\ In("reset")
  /\ \/ /\ Goto("predict") /\ fresh' = ("before" \notin stray)
        /\ actions' = IF process.step = 0 THEN <<>> ELSE actions
     \/ Halts /\ UNCHANGED fresh /\ actions' \in {<<>>, actions}
  /\ UNCHANGED <<results, devices, budget, viaServer, stray, chosen, sends>>

\* A reset that is reported as failed may have been executed.
ResetsSession ==
  /\ In("reset")
  /\ \/ Goto("predict") /\ actions' = <<>> /\ fresh' = ("before" \notin stray)
     \/ Halts /\ UNCHANGED fresh /\ actions' \in {<<>>, actions}
  /\ UNCHANGED <<results, devices, budget, viaServer, stray, chosen, sends>>

FilledWith(age) == IF actions = <<>> THEN [i \in 1 .. ActionSteps |-> age] ELSE actions

\* The attempt that is answered, and the action adapter, which may refuse.
Predicts ==
  /\ In("predict")
  /\ \/ /\ actions' = Tail(FilledWith("now"))
        /\ \/ Goto("write") /\ chosen' = Head(FilledWith("now")) /\ UNCHANGED fresh
           \/ Halts /\ StepIsOver
     \/ Halts /\ StepIsOver /\ UNCHANGED actions
  /\ UNCHANGED <<results, devices, budget, viaServer, stray, sends>>

\* The server executes an attempt nobody waits for, whatever the script is doing;
\* there may be more of its kind.
StrayAttemptExecuted ==
  /\ \E what \in stray :
       /\ actions' = IF what = "reset" THEN <<>> ELSE Tail(FilledWith(what))
       /\ stray' \in {stray, stray \ {what}}
  /\ UNCHANGED <<process, results, devices, budget, viaServer, fresh, chosen, sends>>

Sent ==
  /\ sends' = sends + 1 /\ StepIsOver
  /\ UNCHANGED <<held, connected, torque, receipts, viaServer, policy>>

StagedBudgetLeft == budget < process.steps

\* The gate does not accept, or the budget is used up: nothing is sent.
DoesNotWrite ==
  /\ In("write") /\ Halts /\ StepIsOver
  /\ UNCHANGED <<results, devices, budget, viaServer, policy, sends>>

\* The budget was consumed, and the motors may have moved.
WriteRaises ==
  /\ In("write") /\ StagedBudgetLeft
  /\ Sent /\ budget' = budget + 1 /\ Halts /\ UNCHANGED earned

\* write_action_once() succeeds; a failed read-back is only noted.
Writes ==
  /\ In("write") /\ StagedBudgetLeft
  /\ Sent /\ budget' = budget + 1
  /\ LET last == process.step + 1 = process.steps
     IN /\ process' = [process EXCEPT !.step = @ + 1, !.phase = IF last THEN "passed" ELSE "observe"]
        /\ earned' = IF last THEN earned \cup {process.stage} ELSE earned

WritesReceipt ==
  /\ In("passed")
  /\ receipts' = receipts \cup {process.stage}
  /\ Goto("release")
  /\ UNCHANGED <<earned, devices, budget, viaServer, policy, stepOf, sends>>

-----------------------------------------------------------------------------
(***************************************************************************)
(* finally; also after Ctrl-C or an exception that is not caught.          *)
(***************************************************************************)
Interrupted ==
  /\ process.phase \notin {"none", "release", "closeState", "closeCamera"}
  /\ Goto("release") /\ StepIsOver
  /\ UNCHANGED <<results, devices, budget, viaServer, policy, sends>>

\* writer.disconnect(): nothing without _connected; when it raises, the state
\* source and the camera are not closed.
DisconnectsFollower ==
  /\ In("release")
  /\ \/ ~connected /\ Goto("closeState") /\ UNCHANGED devices
     \/ /\ connected
        /\ held' = held \ {"follower"} /\ connected' = FALSE /\ torque' = FALSE
        /\ Goto("closeState")
     \/ connected /\ Goto("none") /\ UNCHANGED devices
  /\ UNCHANGED <<results, budget, viaServer, policy, stepOf, sends>>

Closes(phase, device, next) ==
  /\ In(phase) /\ Goto(next)
  /\ held' \in {held \ {device}, held}
  /\ UNCHANGED <<results, connected, torque, budget, viaServer, policy, stepOf, sends>>

ClosesDevices == Closes("closeState", "state", "closeCamera") \/ Closes("closeCamera", "camera", "none")

StagedNext ==
  \/ \E stage \in Stages : \E steps \in StageSteps[stage] : RunBegins(stage, steps)
  \/ OpensCamera \/ ConnectsState \/ ConnectsFollower
  \/ Observes \/ AttemptTimesOut \/ ResetsSession \/ Predicts \/ StrayAttemptExecuted
  \/ DoesNotWrite \/ WriteRaises \/ Writes \/ WritesReceipt
  \/ Interrupted \/ DisconnectsFollower \/ ClosesDevices

StagedSpec == StagedInit /\ [][StagedNext]_stagedVars

-----------------------------------------------------------------------------
StagedTypeOK ==
  /\ process.phase \in Phases /\ process.stage \in Stages /\ process.step \in 0 .. process.steps
  /\ receipts \subseteq Stages /\ earned \subseteq Stages
  /\ held \subseteq {"camera", "state", "follower"} /\ connected \in BOOLEAN /\ torque \in BOOLEAN
  /\ Len(actions) <= ActionSteps /\ stray \subseteq {"reset", "now", "before"}

\* A run sends the motors no more actions than its stage allows: one that raised counts.
SendsWithinStage == sends = budget /\ sends <= process.steps

\* What is to be sent was made from the observation of its own step, though the policy
\* keeps actions of earlier steps and runs: unless a prediction of an earlier step
\* was still to be executed when the session was reset, in which case it may fill
\* the queue again behind the reset.  Stray attempts of this step do no harm.
ActsOnThisObservation == In("write") /\ fresh => chosen = "now"

\* A stage is entered only after every step of some run of the stage before was
\* executed.
StagesEarned ==
  /\ receipts \subseteq earned
  /\ ~In("none") /\ process.stage > 1 => process.stage - 1 \in earned

\* The motors are sent something only while the writer is connected, and a process
\* that sent something has released the motors when it closes the other devices.
\* (A connect() or a disconnect() that raises may leave them as they are.)
WritesWhileConnected ==
  /\ In("write") => connected /\ torque
  /\ process.phase \in {"closeState", "closeCamera"} /\ sends > 0 => ~torque

\* Whatever fails or is interrupted: a run stays within its stage, acts on what it
\* has just observed unless an earlier prediction was stray, had the stage before
\* earned, and releases the motors it moved before anything else.
StagedSafe == SendsWithinStage /\ ActsOnThisObservation /\ StagesEarned /\ WritesWhileConnected
=============================================================================
