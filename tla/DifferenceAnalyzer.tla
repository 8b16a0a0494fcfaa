------------------------- MODULE DifferenceAnalyzer -------------------------
(***************************************************************************)
(* The online analysis of one joint in the remote diagnosis:               *)
(* DiagnosticAnalyzer.update (simulation/mujoco/diagnostic_analysis.py).   *)
(* Four detectors keep a few words of state each and report an event once; *)
(* the properties compare them with what they stand for, read off the      *)
(* whole series of samples.  Angles and times are integers.  The event     *)
(* leader_out_of_mujoco_range keeps no state and is left out.              *)
(***************************************************************************)
EXTENDS Integers, SequencesExt, FiniteSetsExt

CONSTANTS
  Apart, ApartFor,          \* persistent_difference_deg, persistent_duration_sec
  SatWindow, Moving, Still, \* saturation_duration_sec, leader_motion_, follower_stationary_delta_deg
  SignMemory, SignWindow, SignCount, SignStep,   \* sign_mismatch_*; the deque holds SignMemory
  OffWindow, OffSamples, OffPoses, OffSpread,    \* offset_*; OffSpread is a variance
  Steps, LeaderAngles, FollowerAngles, MaxSamples    \* inputs and bound of the model

ASSUME AnalyzerAssumption ==
  /\ {Apart, ApartFor, SatWindow, Moving, Still, OffWindow, OffPoses, OffSpread, MaxSamples} \subseteq Nat
  /\ {SignMemory, SignWindow, SignCount, SignStep, OffSamples} \subseteq Nat
  /\ ApartFor > 0 /\ SignMemory >= SignWindow /\ SignCount >= 1 /\ SignStep > 0 /\ OffSamples > 0
  /\ Steps \subseteq Nat /\ LeaderAngles \subseteq Int /\ FollowerAngles \subseteq Int

VARIABLES
  samples,     \* the deques times, leader and follower
  run,         \* persistent_run_start, _sign and persistent_active
  saturation,  \* saturation_active
  signRecent,  \* sign_mismatch_recent
  signActive,  \* sign_mismatch_active
  offsetSeen,  \* offset_reported
  reported     \* history: for every sample the codes of its events

analyzerVars == <<samples, run, saturation, signRecent, signActive, offsetSeen, reported>>

NoRun == [start |-> -1, sign |-> 0, active |-> FALSE]

AnalyzerInit ==
  /\ samples = <<>> /\ run = NoRun /\ saturation = FALSE
  /\ signRecent = <<>> /\ signActive = FALSE /\ offsetSeen = FALSE
  /\ reported = <<>>

Magnitude(x) == IF x < 0 THEN -x ELSE x
Diff(s) == s.leader - s.follower
SignOf(x) == IF x > 0 THEN 1 ELSE IF x < 0 THEN -1 ELSE 0

-----------------------------------------------------------------------------
(***************************************************************************)
(* The detectors, on the series s that ends in the new sample.             *)
(***************************************************************************)
\* Mutant of PersistentRun: a difference that changes its sign goes on.
PersistentRunEitherSign(s) ==
  LET d == Diff(Last(s))
  IN  IF Magnitude(d) <= Apart THEN NoRun
      ELSE IF run.start = -1 THEN [start |-> Last(s).at, sign |-> SignOf(d), active |-> FALSE]
      ELSE [run EXCEPT !.active = @ \/ Last(s).at - run.start >= ApartFor]

\* _check_persistent_difference
PersistentRun(s) ==
  LET d == Diff(Last(s))
  IN  IF Magnitude(d) <= Apart THEN NoRun
      ELSE IF run.start = -1 \/ SignOf(d) # run.sign
           THEN [start |-> Last(s).at, sign |-> SignOf(d), active |-> FALSE]
      ELSE [run EXCEPT !.active = @ \/ Last(s).at - run.start >= ApartFor]

\* The last sample that is at least the window old.
WindowStart(s) == SelectLastInSeq(s, LAMBDA x : x.at <= Last(s).at - SatWindow)

\* Mutant of SaturatedNow: the window may reach back to any older sample.
SaturatedSinceStart(s) ==
  WindowStart(s) # 0 /\
    LET a == s[1] b == Last(s)
    IN  /\ Magnitude(b.leader - a.leader) >= Moving
        /\ Magnitude(b.follower - a.follower) <= Still
        /\ Magnitude(Diff(b) - Diff(a)) >= Still

\* _check_follower_saturation
SaturatedNow(s) ==
  WindowStart(s) # 0 /\
    LET a == s[WindowStart(s)] b == Last(s)
    IN  /\ Magnitude(b.leader - a.leader) >= Moving
        /\ Magnitude(b.follower - a.follower) <= Still
        /\ Magnitude(Diff(b) - Diff(a)) >= Still

\* Whether leader and follower moved in opposite directions up to sample i.
Mismatch(s, i) ==
  LET l == s[i].leader - s[i - 1].leader
      f == s[i].follower - s[i - 1].follower
  IN  Magnitude(l) >= SignStep /\ Magnitude(f) >= SignStep /\ (l > 0) # (f > 0)

LastOnes(s, n) == SubSeq(s, (IF Len(s) > n THEN Len(s) - n ELSE 0) + 1, Len(s))

SignHistory(s) ==
  IF Len(s) < 2 THEN signRecent
  ELSE LastOnes(Append(signRecent, Mismatch(s, Len(s))), SignMemory)

Opposed(recent) == Cardinality({i \in DOMAIN recent : recent[i]})

SignSuspected(recent) == Len(recent) >= SignWindow /\ Opposed(recent) >= SignCount

\* Mutant of SignLatch: reset as soon as the suspicion is gone.
SignLatchShort(recent) == SignSuspected(recent)

\* _check_sign_mismatch: once reported, quiet until the memory is clean.
SignLatch(recent) == SignSuspected(recent) \/ (signActive /\ Opposed(recent) > 0)

\* _check_offset_suspected: the leader took several poses, the difference stayed.
OffsetFound(s) ==
  LET w == {i \in DOMAIN s : s[i].at >= Last(s).at - OffWindow}
      n == Cardinality(w)
      poses == {s[i].leader : i \in w}
      sum == MapThenSumSet(LAMBDA i : Diff(s[i]), w)
      squares == MapThenSumSet(LAMBDA i : Diff(s[i]) * Diff(s[i]), w)
  IN  /\ n >= OffSamples
      /\ Max(poses) - Min(poses) >= OffPoses
      /\ n * squares - sum * sum <= OffSpread * n * n

\* update(): one sample, all detectors.
Sample(at, leader, follower) ==
  LET s == Append(samples, [at |-> at, leader |-> leader, follower |-> follower])
  IN  /\ samples' = s
      /\ run' = PersistentRun(s)
      /\ saturation' = SaturatedNow(s)
      /\ signRecent' = SignHistory(s)
      /\ signActive' = (IF Len(s) < 2 THEN signActive ELSE SignLatch(signRecent'))
      /\ offsetSeen' = (offsetSeen \/ OffsetFound(s))
      /\ reported' = Append(reported,
           (IF run'.active /\ ~(run.active /\ run'.start = run.start) THEN {"persistent"} ELSE {})
             \cup (IF saturation' /\ ~saturation THEN {"saturation"} ELSE {})
             \cup (IF Len(s) >= 2 /\ SignSuspected(signRecent') /\ ~signActive THEN {"sign"} ELSE {})
             \cup (IF offsetSeen' /\ ~offsetSeen THEN {"offset"} ELSE {}))

AnalyzerNext ==
  /\ Len(samples) < MaxSamples
  /\ \E step \in Steps, l \in LeaderAngles, f \in FollowerAngles :
       Sample(IF samples = <<>> THEN 0 ELSE Last(samples).at + step, l, f)

AnalyzerSpec == AnalyzerInit /\ [][AnalyzerNext]_analyzerVars

-----------------------------------------------------------------------------
(***************************************************************************)
(* What the events stand for, over the series up to sample n.              *)
(***************************************************************************)
Apart1(i, sign) == Magnitude(Diff(samples[i])) > Apart /\ SignOf(Diff(samples[i])) = sign

\* The difference has had one sign, and been large, for the whole duration.
PersistentAt(n) ==
  \E k \in 1 .. n, sign \in {-1, 1} :
    samples[n].at - samples[k].at >= ApartFor /\ \A i \in k .. n : Apart1(i, sign)

\* Compared with the last sample that is a window old.
SaturationAt(n) ==
  \E k \in 1 .. n :
    /\ samples[n].at - samples[k].at >= SatWindow
    /\ \A i \in k + 1 .. n : samples[n].at - samples[i].at < SatWindow
    /\ Magnitude(samples[n].leader - samples[k].leader) >= Moving
    /\ Magnitude(samples[n].follower - samples[k].follower) <= Still
    /\ Magnitude(Diff(samples[n]) - Diff(samples[k])) >= Still

AnalyzerTypeOK ==
  /\ Len(samples) <= MaxSamples /\ Len(reported) = Len(samples)
  /\ run.sign \in {-1, 0, 1} /\ run.active \in BOOLEAN
  /\ saturation \in BOOLEAN /\ signActive \in BOOLEAN /\ offsetSeen \in BOOLEAN
  /\ Len(signRecent) <= SignMemory

\* An event is reported at the sample where its condition starts to hold in the
\* recorded series, and only there, however it comes and goes.
EventsAreEdges ==
  \A n \in DOMAIN samples :
    /\ "persistent" \in reported[n] <=> PersistentAt(n) /\ ~(n > 1 /\ PersistentAt(n - 1))
    /\ "saturation" \in reported[n] <=> SaturationAt(n) /\ ~(n > 1 /\ SaturationAt(n - 1))

\* Between two reports of opposite directions a whole memory of intervals without
\* any has come to its end.
SignReportsSeparated ==
  \A m, n \in DOMAIN samples :
    m < n /\ "sign" \in reported[m] /\ "sign" \in reported[n] =>
      \E e \in m + 1 .. n - 1 : \A i \in e - SignMemory + 1 .. e : i > 1 /\ ~Mismatch(samples, i)

\* There are enough opposite intervals at every report.
SignReportsJustified ==
  \A n \in DOMAIN samples :
    "sign" \in reported[n] =>
      Cardinality({i \in 2 .. n : i > n - SignMemory /\ Mismatch(samples, i)}) >= SignCount

AnalyzerHonest ==
  /\ EventsAreEdges /\ SignReportsSeparated /\ SignReportsJustified
  /\ Cardinality({n \in DOMAIN samples : "offset" \in reported[n]}) <= 1
=============================================================================
