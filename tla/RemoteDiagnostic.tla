-------------------------- MODULE RemoteDiagnostic --------------------------
(***************************************************************************)
(* The diagnosis on the desktop (simulation/mujoco/remote_diagnostic.py):  *)
(* a loop that asks the state server of the laptop, lets the simulated arm *)
(* follow the leader joint by joint (safety_checks.py), pauses when the    *)
(* network or the server cannot be trusted, and ends with a verdict.       *)
(*                                                                         *)
(* A sequence that no longer advances is no case of its own: the loop      *)
(* creates its SequenceWatchdog and never asks it.                         *)
(***************************************************************************)
EXTENDS Naturals, FiniteSets

CONSTANTS
  DiagJoints,
  DiagEnd,         \* the range of a joint is 0 .. DiagEnd
  DiagLeaderAt,    \* positions of a joint of the leader
  ResumeAfter,     \* resume_after_consecutive_ok
  MaxAsked         \* bound: requests of a session

ASSUME DiagnosticAssumption ==
  /\ IsFiniteSet(DiagJoints) /\ DiagLeaderAt \subseteq Nat /\ DiagEnd \in Nat
  /\ ResumeAfter \in Nat \ {0} /\ MaxAsked \in Nat

VARIABLES
  diagPhase,    \* "preflight", "loop", "over"
  policy,       \* NetworkSafetyConfig and stop_on_joint_limit
  paused, fatalDiag,
  okCount,      \* consecutive_ok_after_pause
  counted,      \* the counters of the session that are above zero
  followed,     \* previous_safe_targets, which data.ctrl is set to
  stoppedJoints,   \* currently_blocked_joints
  diagResult,   \* final_result, or "none" without a report
  asked,        \* requests so far
  checked,      \* history: joints with a target that passed the check
  troubles      \* history: what went wrong in this session

diagVars == <<diagPhase, policy, paused, fatalDiag, okCount, counted, followed, stoppedJoints,
              diagResult, asked, checked, troubles>>
pauseVars == <<paused, fatalDiag, okCount>>

Policies == [onTimeout : BOOLEAN, onStale : BOOLEAN, onDisconnect : BOOLEAN,
             autoResume : BOOLEAN, stopOnLimit : BOOLEAN]
Counters == {"timeouts", "stales", "pauses", "blocked", "suspicions"}

DiagInit ==
  /\ diagPhase = "preflight" /\ policy \in Policies
  /\ paused = FALSE /\ fatalDiag = FALSE /\ okCount = 0
  /\ counted = {}
  /\ followed = [j \in DiagJoints |-> 0] /\ stoppedJoints = {} /\ checked = {}
  /\ diagResult = "none" /\ asked = 0 /\ troubles = {}

-----------------------------------------------------------------------------
\* /health and /state are in order.  The simulation starts where the leader is;
\* that position is not checked.
PreflightPasses ==
  /\ diagPhase = "preflight"
  /\ diagPhase' = "loop"
  /\ followed' \in [DiagJoints -> DiagLeaderAt]
  /\ UNCHANGED <<policy, pauseVars, counted, stoppedJoints, diagResult, asked, checked, troubles>>

PreflightAborts ==
  /\ diagPhase = "preflight"
  /\ diagPhase' = "over" /\ diagResult' = "BLOCKED"
  /\ UNCHANGED <<policy, pauseVars, counted, followed, stoppedJoints, asked, checked, troubles>>

-----------------------------------------------------------------------------
Asks == diagPhase = "loop" /\ asked < MaxAsked /\ asked' = asked + 1

\* Whether this kind of trouble pauses; a change of the mode always does.
PausesOn(kind) ==
  CASE kind = "timeout" -> policy.onTimeout
    [] kind = "stale" -> policy.onStale
    [] kind = "invalid" -> policy.onDisconnect
    [] kind = "mode" -> TRUE

CounterOf(kind) ==
  CASE kind = "timeout" -> {"timeouts"}
    [] kind = "stale" -> {"stales"}
    [] OTHER -> {}

FatalBy(kind) == kind = "mode"

\* Mutant of Troubled: what is already paused is not looked at any more.
TroubledOnce(kind) ==
  /\ fatalDiag' = (fatalDiag \/ (FatalBy(kind) /\ ~paused))
  /\ paused' = (paused \/ PausesOn(kind))
  /\ counted' = counted \cup CounterOf(kind) \cup (IF PausesOn(kind) /\ ~paused THEN {"pauses"} ELSE {})
  /\ UNCHANGED okCount

\* The count of good answers is left as it is.
Troubled(kind) ==
  /\ fatalDiag' = (fatalDiag \/ FatalBy(kind))
  /\ paused' = (paused \/ PausesOn(kind))
  /\ counted' = counted \cup CounterOf(kind) \cup (IF PausesOn(kind) /\ ~paused THEN {"pauses"} ELSE {})
  /\ UNCHANGED okCount

\* get_state() fails, or its answer is not to be used: nothing is applied.
AnswerIsBad ==
  /\ Asks
  /\ \E kind \in {"timeout", "stale", "invalid", "mode"} :
       Troubled(kind) /\ troubles' = troubles \cup {kind}
  /\ UNCHANGED <<diagPhase, policy, followed, stoppedJoints, diagResult, checked>>

\* Mutant of Resumes: also what is to stay paused for ever.
ResumesAlways == paused /\ policy.autoResume /\ okCount + 1 >= ResumeAfter

Resumes == paused /\ ~fatalDiag /\ policy.autoResume /\ okCount + 1 >= ResumeAfter

Stays == paused /\ ~Resumes

OkCounted ==
  okCount' = IF Resumes THEN 0
             ELSE IF paused /\ ~fatalDiag /\ policy.autoResume THEN okCount + 1 ELSE okCount

OutOfRange(v) == v > DiagEnd

\* check_frame_targets with filter_active_blocking
Blocked(leader) == {j \in DiagJoints : policy.stopOnLimit /\ OutOfRange(leader[j])}

\* Mutant of Applied: one joint out of range stops none of them.
AppliedAll(leader) == leader

\* A joint that is blocked keeps its last target, the others follow.
Applied(leader) == [j \in DiagJoints |-> IF j \in Blocked(leader) THEN followed[j] ELSE leader[j]]

\* mujoco_blocked_events counts a joint when it becomes blocked.
NewlyBlocked(leader) == IF Blocked(leader) \subseteq stoppedJoints THEN {} ELSE {"blocked"}

\* One frame of the simulation.
Follows(leader) ==
  /\ followed' = Applied(leader)
  /\ stoppedJoints' = Blocked(leader)
  /\ checked' = checked \cup (DiagJoints \ Blocked(leader))
  /\ troubles' = IF Blocked(leader) = {} THEN troubles ELSE troubles \cup {"range"}

\* The diagnosis of the differences goes on while the simulation is paused, and
\* may have something to report (DifferenceAnalyzer).
AnswerIsGood ==
  /\ Asks
  /\ OkCounted /\ paused' = Stays /\ UNCHANGED fatalDiag
  /\ \E leader \in [DiagJoints -> DiagLeaderAt], suspicion \in BOOLEAN :
       /\ IF Stays THEN UNCHANGED <<followed, stoppedJoints, checked, troubles>> ELSE Follows(leader)
       /\ counted' = counted \cup (IF suspicion THEN {"suspicions"} ELSE {})
                              \cup (IF Stays THEN {} ELSE NewlyBlocked(leader))
  /\ UNCHANGED <<diagPhase, policy, diagResult>>

\* A frame that was applied cannot be recorded: the loop ends; the verdict does
\* not look at it.
RecorderFails ==
  /\ Asks /\ ~Stays
  /\ OkCounted /\ paused' = FALSE /\ fatalDiag' = TRUE
  /\ \E leader \in [DiagJoints -> DiagLeaderAt] :
       /\ followed' = Applied(leader) /\ stoppedJoints' = Blocked(leader)
       /\ checked' = checked \cup (DiagJoints \ Blocked(leader))
       /\ troubles' = troubles \cup {"recorder"} \cup (IF Blocked(leader) = {} THEN {} ELSE {"range"})
       /\ counted' = counted \cup NewlyBlocked(leader)
  /\ diagPhase' = "finalize"
  /\ UNCHANGED <<policy, diagResult>>

\* The time is up, or the window was closed.
DurationElapses ==
  /\ diagPhase = "loop"
  /\ diagPhase' = "finalize"
  /\ UNCHANGED <<policy, pauseVars, counted, followed, stoppedJoints, diagResult, asked, checked, troubles>>

\* Ctrl-C passes through: there is no report.
DiagInterrupted ==
  /\ diagPhase \in {"preflight", "loop"}
  /\ diagPhase' = "over"
  /\ UNCHANGED <<policy, pauseVars, counted, followed, stoppedJoints, diagResult, asked, checked, troubles>>

\* Mutant of Verdict: only what stopped a joint or the simulation is looked at.
VerdictOfStops ==
  IF counted \cap {"blocked", "pauses", "suspicions"} # {} THEN "WARN" ELSE "PASS"

Verdict == IF counted # {} THEN "WARN" ELSE "PASS"

Finalize ==
  /\ diagPhase = "finalize"
  /\ diagPhase' = "over" /\ diagResult' = Verdict
  /\ UNCHANGED <<policy, pauseVars, counted, followed, stoppedJoints, asked, checked, troubles>>

DiagNext ==
  \/ PreflightPasses \/ PreflightAborts \/ AnswerIsBad \/ AnswerIsGood
  \/ RecorderFails \/ DurationElapses \/ DiagInterrupted \/ Finalize

DiagSpec == DiagInit /\ [][DiagNext]_diagVars

-----------------------------------------------------------------------------
DiagTypeOK ==
  /\ diagPhase \in {"preflight", "loop", "finalize", "over"} /\ policy \in Policies
  /\ paused \in BOOLEAN /\ fatalDiag \in BOOLEAN /\ okCount \in 0 .. ResumeAfter - 1
  /\ counted \subseteq Counters /\ followed \in [DiagJoints -> DiagLeaderAt \cup {0}]
  /\ stoppedJoints \subseteq DiagJoints /\ diagResult \in {"none", "PASS", "WARN", "BLOCKED"}

\* A joint the simulation was ever let follow is in its range, whatever is paused,
\* resumed and blocked in between; one that was never let is where the leader was
\* at the start, in range or not.
FollowsInRange ==
  policy.stopOnLimit => \A j \in checked : ~OutOfRange(followed[j])

\* Whatever comes later, a server that once was not read_only is never followed again.
NeverFollowedAgain ==
  "mode" \in troubles => paused /\ fatalDiag

Pausing == {kind \in troubles \ {"recorder", "range"} : PausesOn(kind)}

\* A session that is paused had a reason to, and one that does not resume by itself
\* is paused from the first one on.
PausedForAReason == (paused => Pausing # {}) /\ (~policy.autoResume /\ Pausing # {} => paused)

\* PASS: every answer was there, fresh and trusted, and no joint was out of range,
\* except that an arm that was disconnected is not held against a session that
\* does not pause for it.
PassMeansUntroubled ==
  diagResult = "PASS" =>
    /\ troubles \subseteq {"invalid", "recorder"}
    /\ "invalid" \in troubles => ~policy.onDisconnect

DiagnosisSafe == FollowsInRange /\ NeverFollowedAgain /\ PausedForAReason /\ PassMeansUntroubled
=============================================================================
