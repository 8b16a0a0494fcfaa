------------------------- MODULE InstrumentedTeleop -------------------------
(***************************************************************************)
(* Teleoperation that is measured while it runs                            *)
(* (hardware/diagnostics/instrumented_teleop.py, started by                *)
(* scripts/run_instrumented_teleop.py): the follower is sent what the      *)
(* leader says in every cycle, registers are read behind that, and the     *)
(* samples are analysed when the arms are released.                        *)
(*                                                                         *)
(* One joint.  A register read may fail and is then NoRead.  The dashboard *)
(* and the acceleration registers are left out, and so are the statistics  *)
(* of the analysis.                                                        *)
(***************************************************************************)
EXTENDS Integers, Sequences, FiniteSetsExt

CONSTANTS
  TeleopCommands,        \* what the leader may say, and what a register may hold
  TeleopSteps,           \* time from one cycle to the next
  MaxDelta, MaxJump,     \* WarningThresholds
  Noise, Lookahead, Stationary,    \* of the causal analysis
  MaxCycles              \* bound

ASSUME TeleopAssumption ==
  /\ TeleopCommands \subseteq Nat /\ TeleopSteps \subseteq Nat
  /\ {MaxDelta, MaxJump, Lookahead, MaxCycles} \subseteq Nat
  /\ Noise \in Nat \ {0} /\ Stationary \in Nat \ {0}

VARIABLES
  teleopPhase,    \* "ports", "connect", "start", "cycle", "send", "measure", "close", "over"
  arms,           \* "closed", "half" (connect() raised inside), "open", for each arm
  csvOpen,
  spoken,         \* raw_action of this cycle
  sentAll,        \* history: everything the follower was sent
  teleopSamples,  \* samples
  presentStart,   \* follower_start_present_raw
  prevPresent,    \* prev_present_raw
  stopReason,     \* stopped_reason, or "none" while there is no result
  teleopReport    \* the report was written

teleopVars == <<teleopPhase, arms, csvOpen, spoken, sentAll, teleopSamples, presentStart, prevPresent,
                stopReason, teleopReport>>
loopVars == <<spoken, sentAll, teleopSamples, presentStart, prevPresent>>

NoRead == -1
Registers == TeleopCommands \cup {NoRead}

TeleopInit ==
  /\ teleopPhase = "ports" /\ arms = [leader |-> "closed", follower |-> "closed"] /\ csvOpen = FALSE
  /\ spoken = NoRead /\ sentAll = <<>> /\ teleopSamples = <<>>
  /\ presentStart = NoRead /\ prevPresent = NoRead
  /\ stopReason = "none" /\ teleopReport = FALSE

-----------------------------------------------------------------------------
\* Ports, calibration files and the CSV file.
PortsChecked ==
  /\ teleopPhase = "ports"
  /\ \/ teleopPhase' = "over" /\ UNCHANGED csvOpen
     \/ teleopPhase' = "connect" /\ csvOpen' = TRUE
  /\ UNCHANGED <<arms, loopVars, stopReason, teleopReport>>

NextArm == IF arms.leader = "closed" THEN "leader" ELSE "follower"

\* connect() may raise after it opened the port and wrote registers; only an
\* arm whose connect() returned is disconnected later.
Connects ==
  /\ teleopPhase = "connect"
  /\ \/ /\ arms' = [arms EXCEPT ![NextArm] = "open"]
        /\ teleopPhase' = IF NextArm = "leader" THEN "connect" ELSE "start"
     \/ /\ \E left \in {"closed", "half"} : arms' = [arms EXCEPT ![NextArm] = left]
        /\ teleopPhase' = "close"
  /\ UNCHANGED <<csvOpen, loopVars, stopReason, teleopReport>>

\* The registers are read once before the loop; it is entered whether or not
\* that succeeds.
StartRead ==
  /\ teleopPhase = "start"
  /\ \E p \in Registers : presentStart' = p /\ prevPresent' = p
  /\ teleopPhase' = "cycle"
  /\ UNCHANGED <<arms, csvOpen, spoken, sentAll, teleopSamples, stopReason, teleopReport>>

Stops(reason) ==
  /\ teleopPhase' = "close" /\ stopReason' = reason
  /\ UNCHANGED <<arms, csvOpen, loopVars, teleopReport>>

TeleopElapses == teleopPhase = "cycle" /\ Stops("DURATION_ELAPSED")

\* get_observation(), get_action() and the processors
CycleReads ==
  /\ teleopPhase = "cycle" /\ Len(teleopSamples) < MaxCycles
  /\ \/ Stops("READ_FAILURE")
     \/ /\ \E c \in TeleopCommands : spoken' = c
        /\ teleopPhase' = "send"
        /\ UNCHANGED <<arms, csvOpen, sentAll, teleopSamples, presentStart, prevPresent, stopReason, teleopReport>>

\* How far the command is from where the follower was at the start.
FarFromStart(c) ==
  presentStart # NoRead /\ (IF c > presentStart THEN c - presentStart ELSE presentStart - c) > MaxDelta

\* Mutant of SentFor: a command that is worth a warning is held back.
SentUnlessFar(c) == IF FarFromStart(c) THEN <<>> ELSE <<c>>

\* What goes out for a command, whatever it is.
SentFor(c) == <<c>>

\* send_action(); when it raises it may have written.
Sends ==
  /\ teleopPhase = "send"
  /\ \/ /\ sentAll' = sentAll \o SentFor(spoken)
        /\ teleopPhase' = "measure" /\ UNCHANGED stopReason
     \/ /\ \E written \in BOOLEAN : sentAll' = IF written THEN sentAll \o SentFor(spoken) ELSE sentAll
        /\ teleopPhase' = "close" /\ stopReason' = "READ_FAILURE"
  /\ UNCHANGED <<arms, csvOpen, spoken, teleopSamples, presentStart, prevPresent, teleopReport>>

Difference(a, b) == IF a = NoRead \/ b = NoRead THEN <<>> ELSE <<a - b>>

Beyond(d, limit) == d # <<>> /\ (d[1] > limit \/ d[1] < -limit)

\* Mutant of Remembered: a read that failed is remembered as well.
RememberedAlways(present) == present

\* The last position that could be read.
Remembered(present) == IF present # NoRead THEN present ELSE prevPresent

\* The goal register holds the command, if it can be read.
SampleOf(at, goal, present) ==
  [at |-> at, error |-> Difference(goal, present), present |-> present,
   moved |-> Difference(present, prevPresent),
   warnings |-> (IF FarFromStart(spoken) THEN {"LARGE_COMMAND_DELTA"} ELSE {})
                  \cup (IF Beyond(Difference(present, prevPresent), MaxJump) THEN {"POSITION_JUMP"} ELSE {})]

LastAt == IF teleopSamples = <<>> THEN 0 ELSE teleopSamples[Len(teleopSamples)].at

\* Behind send_action(): read, warn, record.  A sample that cannot be written to
\* the CSV file ends the run without a result.
Measures ==
  /\ teleopPhase = "measure"
  /\ \E step \in TeleopSteps, goal \in {spoken, NoRead}, present \in Registers :
       teleopSamples' = Append(teleopSamples, SampleOf(LastAt + step, goal, present))
  /\ LET present == teleopSamples'[Len(teleopSamples')].present
     IN  \/ teleopPhase' = "cycle" /\ prevPresent' = Remembered(present)
         \/ teleopPhase' = "close" /\ UNCHANGED prevPresent
  /\ UNCHANGED <<arms, csvOpen, spoken, sentAll, presentStart, stopReason, teleopReport>>

\* Ctrl-C: in the loop it is one of the ends, before it there is no result.
TeleopInterrupted ==
  /\ teleopPhase \in {"connect", "start", "cycle", "send", "measure"}
  /\ Stops(IF teleopPhase \in {"connect", "start"} THEN "none" ELSE "KEYBOARD_INTERRUPT")

-----------------------------------------------------------------------------
\* Mutant of Released: an arm whose disconnect() raises leaves the other one alone.
ReleasedInOneTry(a) ==
  {[arm \in {"leader", "follower"} |-> IF a[arm] = "open" THEN "closed" ELSE a[arm]],
   [a EXCEPT !.follower = IF @ = "open" THEN "gone" ELSE @]}

\* Each connected arm is asked to disconnect, even if the other one raised.
Released(a) ==
  {r \in [{"leader", "follower"} -> {"closed", "half", "gone"}] :
     \A arm \in DOMAIN r : IF a[arm] = "open" THEN r[arm] \in {"closed", "gone"} ELSE r[arm] = a[arm]}

\* finally: follower, leader, CSV file; "gone" is an arm whose disconnect() raised.
Closes ==
  /\ teleopPhase = "close"
  /\ arms' \in Released(arms) /\ csvOpen' = FALSE
  /\ teleopPhase' = "over" /\ teleopReport' = (stopReason # "none")
  /\ UNCHANGED <<loopVars, stopReason>>

TeleopNext ==
  \/ PortsChecked \/ Connects \/ StartRead \/ TeleopElapses \/ CycleReads \/ Sends \/ Measures
  \/ TeleopInterrupted \/ Closes

TeleopSpec == TeleopInit /\ [][TeleopNext]_teleopVars

-----------------------------------------------------------------------------
(***************************************************************************)
(* The causal analysis: _find_lookahead_end_index, compute_deadband_summary*)
(* and compute_motion_onset_analysis.                                      *)
(***************************************************************************)
\* The first index from j on that is behind the time, or behind the samples.
LastWithin(s, j, until) == Min({k \in j .. j + Len(s) : k > Len(s) \/ s[k].at > until})

\* Mutant of Hinted: the next search starts behind what was found.
HintedBehind(s, i, hint) == Max({hint + 1, i + 1})

\* Where the search for sample i begins: where the last search ended.
Hinted(s, i, hint) == Max({hint, i + 1})

EndHint(s, i, hint) == LastWithin(s, Hinted(s, i, hint), s[i].at + Lookahead)

\* The hint when sample i is reached, if the samples in `skipped` are not looked at.
HintAt(s, i, skipped) ==
  LET hint[k \in 0 .. i] ==
        IF k = 0 THEN 1 ELSE IF k \in skipped THEN hint[k - 1] ELSE EndHint(s, k, hint[k - 1])
  IN  hint[i - 1]

EndIndex(s, i, skipped) == EndHint(s, i, HintAt(s, i, skipped)) - 1

Unreadable(s) == {i \in DOMAIN s : s[i].error = <<>>}

\* classify_causal_response
Response(error, moved) ==
  IF moved < Noise /\ moved > -Noise THEN "NO_RESPONSE"
  ELSE IF error = 0 THEN "NO_RESPONSE"
  ELSE IF (error > 0) = (moved > 0) THEN "RESPONSE" ELSE "OPPOSITE_MOTION"

\* The label of sample i that ends at sample e.
LabelTo(s, i, e) ==
  IF e <= i \/ s[e].present = NoRead THEN "none"
  ELSE Response(s[i].error[1], s[e].present - s[i].present)

\* The samples the summary counts, with their labels.
DeadbandLabels(s) ==
  [i \in DOMAIN s \ Unreadable(s) |-> LabelTo(s, i, EndIndex(s, i, Unreadable(s)))]

Quiet(d) == d # <<>> /\ ~Beyond(d, Noise - 1)

\* At rest and without an error for the whole window, and now there is one.
NewError(s, i) ==
  /\ i > Stationary /\ s[i].error # <<>> /\ ~Quiet(s[i].error)
  /\ \A k \in i - Stationary .. i - 1 : Quiet(s[k].moved) /\ Quiet(s[k].error)

\* The samples the onset is looked for at: only they move the hint.
OnsetLabel(s, i) == LabelTo(s, i, EndIndex(s, i, {k \in DOMAIN s : ~NewError(s, k)}))

Onsets(s) ==
  IF Len(s) < Stationary + 2 THEN {} ELSE {i \in DOMAIN s : NewError(s, i) /\ OnsetLabel(s, i) = "RESPONSE"}

-----------------------------------------------------------------------------
TeleopTypeOK ==
  /\ teleopPhase \in {"ports", "connect", "start", "cycle", "send", "measure", "close", "over"}
  /\ arms \in [{"leader", "follower"} -> {"closed", "half", "open", "gone"}]
  /\ csvOpen \in BOOLEAN /\ teleopReport \in BOOLEAN
  /\ spoken \in Registers /\ presentStart \in Registers /\ prevPresent \in Registers
  /\ stopReason \in {"none", "DURATION_ELAPSED", "READ_FAILURE", "KEYBOARD_INTERRUPT"}

\* Measuring takes nothing away: there is one command sent for every sample, and
\* at most one more, of the cycle that was ended before it was measured.
NothingHeldBack == Len(sentAll) - Len(teleopSamples) \in {0, 1}

\* The position read before sample i, over all reads that failed.
ReadBefore(i) ==
  LET read == {k \in 1 .. i - 1 : teleopSamples[k].present # NoRead}
  IN  IF read = {} THEN presentStart
      ELSE teleopSamples[CHOOSE k \in read : \A m \in read : m <= k].present

\* The movement of a sample is counted from the last position that was read,
\* so that no movement is lost, or counted twice, over failed reads.
MovementComplete ==
  \A i \in DOMAIN teleopSamples :
    teleopSamples[i].moved = Difference(teleopSamples[i].present, ReadBefore(i))

\* The last sample within the lookahead, by definition.
LastInTime(s, i) ==
  CHOOSE e \in DOMAIN s :
    /\ s[e].at <= s[i].at + Lookahead
    /\ \A k \in DOMAIN s : s[k].at <= s[i].at + Lookahead => k <= e

\* Looking each end up from where the last search ended finds the right ones,
\* whatever samples are skipped, in both analyses.
EndsFound ==
  \A i \in DOMAIN teleopSamples, skipped \in SUBSET DOMAIN teleopSamples :
    EndIndex(teleopSamples, i, skipped) = LastInTime(teleopSamples, i)

\* An onset the analysis reports is one of the responses the summary counts, and
\* nothing moved in the window before it.
OnsetsAreResponses ==
  \A i \in Onsets(teleopSamples) :
    /\ DeadbandLabels(teleopSamples)[i] = "RESPONSE"
    /\ \A k \in i - Stationary .. i - 1 :
         Quiet(Difference(teleopSamples[k].present, ReadBefore(k)))

\* When the run is over, every arm that was connected was asked to disconnect and
\* the file is closed, and there is a report if the loop came to one of its ends.
ArmsReleased ==
  teleopPhase = "over" =>
    /\ "open" \notin {arms.leader, arms.follower} /\ ~csvOpen
    /\ teleopReport <=> stopReason # "none"

TeleopSafe ==
  /\ NothingHeldBack /\ MovementComplete /\ ArmsReleased
  /\ teleopPhase = "close" => EndsFound /\ OnsetsAreResponses
=============================================================================
