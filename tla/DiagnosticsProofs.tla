-------------------------- MODULE DiagnosticsProofs --------------------------
(***************************************************************************)
(* What the diagnostic tools conclude and record, for every value of their *)
(* constants: the diagnosis over the network with its analysis of          *)
(* differences, teleoperation that is measured and teleoperation that is   *)
(* only watched, and the log of ticks.  Each part has an inductive         *)
(* invariant, that it begins with, keeps in every step, and that implies   *)
(* the properties of its module; ToolsProofs puts them together.           *)
(***************************************************************************)
EXTENDS RemoteDiagnostic, DifferenceAnalyzer, InstrumentedTeleop, ShadowTeleop, TickDiagnostics,
        SequenceTheorems, FiniteSetTheorems, WellFoundedInduction, TLAPS

(***************************************************************************)
(* Numbers: the least and the greatest of a set, and how many there are.   *)
(***************************************************************************)

\* A set of naturals has a least one.
LEMMA LeastOfNats ==
  ASSUME NEW T \in SUBSET Nat, T # {}
  PROVE  Min(T) \in T /\ \A y \in T : Min(T) <= y
<1> DEFINE R == OpToRel(<, Nat)
<1>1. IsWellFoundedOn(R, Nat)
  BY NatLessThanWellFounded
<1>2. \A y \in Nat, x \in Nat : y < x => <<y, x>> \in R
  BY DEF OpToRel
<1> HIDE DEF R
<1>3. PICK x \in T : \A y \in T : ~ (<<y, x>> \in R)
  BY <1>1, WFMin
<1>4. \A y \in T : ~ (y < x)
  BY <1>2, <1>3
<1>5. \E z \in T : \A y \in T : z <= y
  BY <1>3, <1>4
<1> QED
  BY <1>5 DEF Min

\* And of integers above a bound, or below one.
LEMMA LeastOfInts ==
  ASSUME NEW T \in SUBSET Int, T # {}, NEW bound \in Int, \A y \in T : bound <= y
  PROVE  Min(T) \in T /\ \A y \in T : Min(T) <= y
<1> DEFINE D == {y - bound : y \in T}
<1>1. D \in SUBSET Nat /\ D # {}
  <2>1. \A y \in T : y - bound \in Nat
    OBVIOUS
  <2>2. PICK x \in T : TRUE
    OBVIOUS
  <2>3. x - bound \in D
    OBVIOUS
  <2> QED
    BY <2>1, <2>3
<1> HIDE DEF D
<1>2. Min(D) \in D /\ \A d \in D : Min(D) <= d
  BY <1>1, LeastOfNats
<1>3. PICK x \in T : Min(D) = x - bound
  BY <1>2 DEF D
<1>4. ASSUME NEW y \in T PROVE x <= y
  <2>1. y - bound \in D
    BY DEF D
  <2>2. x - bound <= y - bound
    BY <1>2, <1>3, <2>1
  <2> QED
    BY <2>2
<1>5. \E z \in T : \A y \in T : z <= y
  BY <1>4
<1> QED
  BY <1>5 DEF Min

LEMMA GreatestOfInts ==
  ASSUME NEW T \in SUBSET Int, T # {}, NEW bound \in Int, \A y \in T : y <= bound
  PROVE  Max(T) \in T /\ \A y \in T : y <= Max(T)
<1> DEFINE D == {bound - y : y \in T}
<1>1. D \in SUBSET Nat /\ D # {}
  <2>1. \A y \in T : bound - y \in Nat
    OBVIOUS
  <2>2. PICK x \in T : TRUE
    OBVIOUS
  <2>3. bound - x \in D
    OBVIOUS
  <2> QED
    BY <2>1, <2>3
<1> HIDE DEF D
<1>2. Min(D) \in D /\ \A d \in D : Min(D) <= d
  BY <1>1, LeastOfNats
<1>3. PICK x \in T : Min(D) = bound - x
  BY <1>2 DEF D
<1>4. ASSUME NEW y \in T PROVE x >= y
  <2>1. bound - y \in D
    BY DEF D
  <2>2. bound - x <= bound - y
    BY <1>2, <1>3, <2>1
  <2> QED
    BY <2>2
<1>5. \E z \in T : \A y \in T : z >= y
  BY <1>4
<1>6. Max(T) \in T /\ \A y \in T : Max(T) >= y
  BY <1>5 DEF Max
<1> QED
  BY <1>6

\* Finitely many integers are bounded.
LEMMA FiniteIsBounded ==
  ASSUME NEW T \in SUBSET Int, IsFiniteSet(T)
  PROVE  \E bound \in Nat : \A y \in T : -bound <= y /\ y <= bound
<1> DEFINE Unbounded(S) == \A b \in Nat : \E y \in S : ~(-b <= y /\ y <= b)
           Sizes == {n \in Nat : \E S \in SUBSET T : Cardinality(S) = n /\ Unbounded(S)}
<1>1. SUFFICES ASSUME Unbounded(T) PROVE FALSE
  OBVIOUS
<1>2. Cardinality(T) \in Sizes
  BY <1>1, FS_CardinalityType
<1>3. Sizes \in SUBSET Nat /\ Sizes # {}
  BY <1>2
<1> HIDE DEF Sizes
<1>4. PICK n \in Sizes : \A m \in Sizes : n <= m
  BY <1>3, LeastOfNats
<1>5. PICK S \in SUBSET T : Cardinality(S) = n /\ Unbounded(S)
  BY <1>4 DEF Sizes
<1>6. PICK x \in S : TRUE
  BY <1>5
<1>7. IsFiniteSet(S)
  BY FS_Subset
<1>8. Cardinality(S \ {x}) = n - 1 /\ n - 1 \in Nat
  <2>1. IsFiniteSet(S \ {x}) /\ Cardinality(S \ {x}) = Cardinality(S) - 1
    BY <1>6, <1>7, FS_RemoveElement
  <2> QED
    BY <2>1, <1>5, FS_CardinalityType
<1>9. ~ Unbounded(S \ {x})
  BY <1>3, <1>4, <1>8 DEF Sizes
<1>10. PICK b \in Nat : \A y \in S \ {x} : -b <= y /\ y <= b
  BY <1>9
<1>11. PICK c \in Nat : -c <= x /\ x <= c /\ b <= c
  <2>1. x \in Int
    OBVIOUS
  <2>2. CASE x >= 0
    <3>1. b + x \in Nat /\ -(b + x) <= x /\ x <= b + x /\ b <= b + x
      BY <2>1, <2>2
    <3> QED
      BY <3>1
  <2>3. CASE x < 0
    <3>1. b - x \in Nat /\ -(b - x) <= x /\ x <= b - x /\ b <= b - x
      BY <2>1, <2>3
    <3> QED
      BY <3>1
  <2> QED
    BY <2>1, <2>2, <2>3
<1>12. \A y \in S : -c <= y /\ y <= c
  <2> SUFFICES ASSUME NEW y \in S PROVE -c <= y /\ y <= c
    OBVIOUS
  <2>1. y \in Int
    OBVIOUS
  <2>2. CASE y = x
    BY <1>11, <2>2
  <2>3. CASE y # x
    BY <1>10, <1>11, <2>1, <2>3
  <2> QED
    BY <2>2, <2>3
<1> QED
  BY <1>5, <1>12

\* So they have a least and a greatest one.
LEMMA EndsOfFinite ==
  ASSUME NEW T \in SUBSET Int, IsFiniteSet(T), T # {}
  PROVE  /\ Min(T) \in T /\ \A y \in T : Min(T) <= y
         /\ Max(T) \in T /\ \A y \in T : y <= Max(T)
<1>1. PICK b \in Nat : \A y \in T : -b <= y /\ y <= b
  BY FiniteIsBounded
<1>2. -b \in Int /\ b \in Int
  OBVIOUS
<1>3. Min(T) \in T /\ \A y \in T : Min(T) <= y
  BY <1>1, <1>2, LeastOfInts
<1>4. Max(T) \in T /\ \A y \in T : y <= Max(T)
  BY <1>1, <1>2, GreatestOfInts
<1> QED
  BY <1>3, <1>4

\* What some elements of a sequence have has a least and a greatest value.
LEMMA EndsOfValues ==
  ASSUME NEW n \in Nat, NEW I \in SUBSET (1 .. n), I # {}, NEW f \in [I -> Int]
  PROVE  LET T == {f[i] : i \in I} IN
         /\ Min(T) \in T /\ \A i \in I : Min(T) <= f[i]
         /\ Max(T) \in T /\ \A i \in I : f[i] <= Max(T)
<1> DEFINE T == {f[i] : i \in I}
<1>1. IsFiniteSet(I)
  <2>1. IsFiniteSet(1 .. n)
    BY FS_Interval
  <2> QED
    BY <2>1, FS_Subset
<1>2. f \in Surjection(I, T)
  BY DEF Surjection
<1>3. IsFiniteSet(T)
  BY <1>1, <1>2, FS_Surjection
<1>4. T \in SUBSET Int /\ T # {} /\ \A i \in I : f[i] \in T
  OBVIOUS
<1> HIDE DEF T
<1>5. /\ Min(T) \in T /\ \A y \in T : Min(T) <= y
      /\ Max(T) \in T /\ \A y \in T : y <= Max(T)
  BY <1>3, <1>4, EndsOfFinite
<1>6. /\ Min(T) \in T /\ \A i \in I : Min(T) <= f[i]
      /\ Max(T) \in T /\ \A i \in I : f[i] <= Max(T)
  BY <1>4, <1>5
<1> QED
  BY <1>6 DEF T

\* The numbers from 1 on without a gap: how many there are is the last of them.
LEMMA CountOfPrefix ==
  ASSUME NEW n \in Nat, NEW S \in SUBSET (1 .. n),
         \A i \in S : \A k \in 1 .. i : k \in S
  PROVE  Cardinality(S) \in 0 .. n /\ S = 1 .. Cardinality(S)
<1>1. CASE S = {}
  <2>1. Cardinality(S) = 0
    BY <1>1, FS_EmptySet
  <2> QED
    BY <1>1, <2>1
<1>2. CASE S # {}
  <2> DEFINE m == Max(S)
  <2>0. S \in SUBSET Int /\ \A y \in S : y <= n
    OBVIOUS
  <2>1. m \in S /\ \A y \in S : y <= m
    BY <1>2, <2>0, GreatestOfInts
  <2> HIDE DEF m
  <2>2. S = 1 .. m /\ m \in 1 .. n
    <3>1. m \in 1 .. n
      BY <2>1
    <3>2. \A k \in 1 .. m : k \in S
      BY <2>1
    <3>3. \A k \in S : k \in 1 .. m
      BY <2>1, <3>1
    <3> QED
      BY <3>1, <3>2, <3>3
  <2>3. Cardinality(1 .. m) = m
    BY <2>2, FS_Interval
  <2> QED
    BY <2>2, <2>3
<1> QED
  BY <1>1, <1>2

-----------------------------------------------------------------------------
(***************************************************************************)
(* The diagnosis over the network.                                         *)
(***************************************************************************)
Kinds == {"timeout", "stale", "invalid", "mode"}

DiagTypes ==
  /\ diagPhase \in {"preflight", "loop", "finalize", "over"} /\ policy \in Policies
  /\ paused \in BOOLEAN /\ fatalDiag \in BOOLEAN /\ okCount \in 0 .. ResumeAfter - 1
  /\ counted \in SUBSET Counters /\ followed \in [DiagJoints -> DiagLeaderAt \cup {0}]
  /\ stoppedJoints \in SUBSET DiagJoints /\ checked \in SUBSET DiagJoints
  /\ diagResult \in {"none", "PASS", "WARN", "BLOCKED"}
  /\ troubles \in SUBSET (Kinds \cup {"range", "recorder"})
  /\ asked \in Nat

\* Every kind of trouble that is to count has left its mark on a counter.
TroublesCounted ==
  /\ "timeout" \in troubles => "timeouts" \in counted
  /\ "stale" \in troubles => "stales" \in counted
  /\ paused => "pauses" \in counted
  /\ "mode" \in troubles => "pauses" \in counted
  /\ "invalid" \in troubles /\ policy.onDisconnect => "pauses" \in counted
  /\ stoppedJoints # {} => "blocked" \in counted
  /\ "range" \in troubles => "blocked" \in counted

VerdictSays ==
  /\ diagPhase = "preflight" => checked = {}
  /\ diagResult # "none" => diagPhase = "over"
  /\ diagResult = "PASS" => counted = {}

DiagInvariant ==
  /\ DiagTypes /\ FollowsInRange /\ NeverFollowedAgain /\ PausedForAReason
  /\ TroublesCounted /\ VerdictSays

LEMMA DiagBegins == DiagInit => DiagInvariant
<1> SUFFICES ASSUME DiagInit PROVE DiagInvariant
  OBVIOUS
<1>1. okCount \in 0 .. ResumeAfter - 1 /\ followed \in [DiagJoints -> DiagLeaderAt \cup {0}]
  BY DiagnosticAssumption DEF DiagInit
<1>2. DiagTypes
  BY <1>1 DEF DiagInit, DiagTypes
<1>3. FollowsInRange /\ NeverFollowedAgain /\ PausedForAReason /\ TroublesCounted /\ VerdictSays
  BY DEF DiagInit, FollowsInRange, NeverFollowedAgain, PausedForAReason, Pausing, TroublesCounted, VerdictSays
<1> QED
  BY <1>2, <1>3 DEF DiagInvariant

\* A policy says of each kind of trouble whether it pauses.
LEMMA PolicyAnswers ==
  ASSUME policy \in Policies, NEW kind \in Kinds
  PROVE  /\ PausesOn(kind) \in BOOLEAN /\ PausesOn("mode")
         /\ PausesOn("invalid") = policy.onDisconnect
         /\ policy.stopOnLimit \in BOOLEAN /\ policy.autoResume \in BOOLEAN
BY DEF Policies, Kinds, PausesOn

\* What is not looked at while the answers are good or bad.
LEMMA BadAnswerKeeps ==
  ASSUME DiagInvariant, AnswerIsBad
  PROVE  DiagInvariant'
<1>1. PICK kind \in Kinds : Troubled(kind) /\ troubles' = troubles \cup {kind}
  BY DEF AnswerIsBad, Kinds
<1>2. /\ diagPhase = "loop" /\ asked' = asked + 1
      /\ UNCHANGED <<diagPhase, policy, followed, stoppedJoints, diagResult, checked, okCount>>
  BY <1>1 DEF AnswerIsBad, Asks, Troubled
<1>3. /\ fatalDiag' = (fatalDiag \/ kind = "mode")
      /\ paused' = (paused \/ PausesOn(kind))
      /\ counted' = counted \cup CounterOf(kind) \cup (IF PausesOn(kind) /\ ~paused THEN {"pauses"} ELSE {})
  BY <1>1 DEF Troubled, FatalBy
<1>4. policy \in Policies /\ PausesOn(kind) \in BOOLEAN /\ \A k \in Kinds : PausesOn(k)' = PausesOn(k)
  BY <1>2, PolicyAnswers DEF DiagInvariant, DiagTypes, PausesOn
<1>5. /\ CounterOf(kind) \in SUBSET Counters
      /\ kind = "timeout" => "timeouts" \in CounterOf(kind)
      /\ kind = "stale" => "stales" \in CounterOf(kind)
  BY <1>1 DEF CounterOf, Counters, Kinds
<1>6. DiagTypes'
  <2>1. counted' \in SUBSET Counters
    BY <1>3, <1>5 DEF DiagInvariant, DiagTypes, Counters
  <2>2. troubles' \in SUBSET (Kinds \cup {"range", "recorder"})
    BY <1>1 DEF DiagInvariant, DiagTypes
  <2>3. paused' \in BOOLEAN /\ fatalDiag' \in BOOLEAN
    BY <1>3, <1>4 DEF DiagInvariant, DiagTypes
  <2>4. asked' \in Nat
    BY <1>2 DEF DiagInvariant, DiagTypes
  <2> QED
    BY <1>2, <2>1, <2>2, <2>3, <2>4 DEF DiagInvariant, DiagTypes
<1>7. FollowsInRange' /\ VerdictSays'
  BY <1>2 DEF DiagInvariant, FollowsInRange, VerdictSays, OutOfRange
<1>8. NeverFollowedAgain'
  BY <1>1, <1>3, <1>4, PolicyAnswers DEF DiagInvariant, DiagTypes, NeverFollowedAgain
<1>9. PausedForAReason'
  <2>1. Pausing' = Pausing \cup (IF PausesOn(kind) THEN {kind} ELSE {})
    BY <1>1, <1>4 DEF Pausing, Kinds, DiagInvariant, DiagTypes
  <2> QED
    BY <2>1, <1>2, <1>3, <1>4 DEF DiagInvariant, PausedForAReason
<1>10. TroublesCounted'
  <2>1. counted \subseteq counted' /\ CounterOf(kind) \subseteq counted' /\ (paused' => "pauses" \in counted')
    BY <1>3, <1>4 DEF DiagInvariant, DiagTypes, TroublesCounted
  <2>2. /\ kind = "mode" => "pauses" \in counted'
        /\ kind = "invalid" /\ policy.onDisconnect => "pauses" \in counted'
    BY <1>3, <1>4, <2>1, PolicyAnswers DEF DiagInvariant, DiagTypes
  <2> QED
    BY <1>1, <1>2, <1>5, <2>1, <2>2 DEF DiagInvariant, TroublesCounted, Kinds
<1> QED
  BY <1>6, <1>7, <1>8, <1>9, <1>10 DEF DiagInvariant

\* A frame of the simulation, recorded or not: joints within their range follow.
LEMMA FrameKeeps ==
  ASSUME DiagInvariant, NEW leader \in [DiagJoints -> DiagLeaderAt],
         followed' = Applied(leader), stoppedJoints' = Blocked(leader),
         checked' = checked \cup (DiagJoints \ Blocked(leader)),
         UNCHANGED policy
  PROVE  /\ followed' \in [DiagJoints -> DiagLeaderAt \cup {0}]
         /\ stoppedJoints' \in SUBSET DiagJoints /\ checked' \in SUBSET DiagJoints
         /\ FollowsInRange'
         /\ Blocked(leader) # {} => "blocked" \in counted \cup NewlyBlocked(leader)
         /\ NewlyBlocked(leader) \in SUBSET Counters
<1>1. Applied(leader) \in [DiagJoints -> DiagLeaderAt \cup {0}]
  BY DEF Applied, DiagInvariant, DiagTypes
<1>2. Blocked(leader) \in SUBSET DiagJoints
  BY DEF Blocked
<1>3. FollowsInRange'
  <2> SUFFICES ASSUME policy.stopOnLimit, NEW j \in checked' PROVE ~OutOfRange(followed'[j])
    BY DEF FollowsInRange, OutOfRange
  <2>1. j \in DiagJoints
    BY DEF DiagInvariant, DiagTypes
  <2>2. CASE j \in Blocked(leader)
    <3>1. j \in checked /\ followed'[j] = followed[j]
      BY <2>1, <2>2 DEF Applied
    <3> QED
      BY <3>1 DEF DiagInvariant, FollowsInRange
  <2>3. CASE j \notin Blocked(leader)
    <3>1. followed'[j] = leader[j] /\ ~OutOfRange(leader[j])
      BY <2>1, <2>3 DEF Applied, Blocked
    <3> QED
      BY <3>1
  <2> QED
    BY <2>2, <2>3
<1>4. /\ Blocked(leader) # {} => "blocked" \in counted \cup NewlyBlocked(leader)
      /\ NewlyBlocked(leader) \in SUBSET Counters
  <2>1. CASE Blocked(leader) \subseteq stoppedJoints
    BY <2>1 DEF NewlyBlocked, DiagInvariant, TroublesCounted
  <2>2. CASE ~(Blocked(leader) \subseteq stoppedJoints)
    BY <2>2 DEF NewlyBlocked, Counters
  <2> QED
    BY <2>1, <2>2
<1> QED
  BY <1>1, <1>2, <1>3, <1>4 DEF DiagInvariant, DiagTypes

\* The count of good answers stays below the one at which a pause ends.
LEMMA OkCountKept ==
  ASSUME DiagInvariant, OkCounted
  PROVE  okCount' \in 0 .. ResumeAfter - 1
<1>1. okCount \in 0 .. ResumeAfter - 1 /\ ResumeAfter \in Nat \ {0}
  BY DiagnosticAssumption DEF DiagInvariant, DiagTypes
<1>2. CASE Resumes
  BY <1>1, <1>2 DEF OkCounted
<1>3. CASE ~Resumes /\ paused /\ ~fatalDiag /\ policy.autoResume
  BY <1>1, <1>3 DEF OkCounted, Resumes
<1>4. CASE ~Resumes /\ ~(paused /\ ~fatalDiag /\ policy.autoResume)
  BY <1>1, <1>4 DEF OkCounted
<1> QED
  BY <1>2, <1>3, <1>4

\* Troubles that do not pause leave the reasons of a pause as they were.
LEMMA SameReasons ==
  ASSUME DiagInvariant, UNCHANGED policy,
         troubles' \cap Kinds = troubles \cap Kinds,
         troubles' \in SUBSET (Kinds \cup {"range", "recorder"})
  PROVE  Pausing' = Pausing
<1>1. \A k \in Kinds : PausesOn(k)' = PausesOn(k)
  BY DEF PausesOn
<1>2. \A k : k \in Pausing' <=> k \in Kinds /\ k \in troubles' /\ PausesOn(k)'
  BY DEF Pausing, Kinds
<1>3. \A k : k \in Pausing <=> k \in Kinds /\ k \in troubles /\ PausesOn(k)
  BY DEF Pausing, Kinds, DiagInvariant, DiagTypes
<1> QED
  BY <1>1, <1>2, <1>3

LEMMA GoodAnswerKeeps ==
  ASSUME DiagInvariant, AnswerIsGood
  PROVE  DiagInvariant'
<1>1. /\ diagPhase = "loop" /\ asked' = asked + 1 /\ OkCounted /\ paused' = Stays
      /\ UNCHANGED <<fatalDiag, diagPhase, policy, diagResult>>
  BY DEF AnswerIsGood, Asks
<1>2. PICK leader \in [DiagJoints -> DiagLeaderAt], suspicion \in BOOLEAN :
        /\ IF Stays THEN UNCHANGED <<followed, stoppedJoints, checked, troubles>> ELSE Follows(leader)
        /\ counted' = counted \cup (IF suspicion THEN {"suspicions"} ELSE {})
                               \cup (IF Stays THEN {} ELSE NewlyBlocked(leader))
  BY DEF AnswerIsGood
<1>3. okCount' \in 0 .. ResumeAfter - 1
  BY <1>1, OkCountKept
<1>4. Stays \in BOOLEAN /\ (Stays => paused) /\ (paused /\ fatalDiag => Stays)
      /\ (paused /\ ~policy.autoResume => Stays)
  BY DEF Stays, Resumes, DiagInvariant, DiagTypes
<1>5. CASE Stays
  <2>1. UNCHANGED <<followed, stoppedJoints, checked, troubles>>
        /\ counted' = counted \cup (IF suspicion THEN {"suspicions"} ELSE {})
    BY <1>2, <1>5
  <2>2. Pausing' = Pausing
    BY <1>1, <2>1, SameReasons DEF DiagInvariant, DiagTypes
  <2>3. DiagTypes'
    BY <1>1, <1>3, <1>4, <2>1 DEF DiagInvariant, DiagTypes, Counters
  <2>4. FollowsInRange' /\ VerdictSays'
    BY <1>1, <2>1 DEF DiagInvariant, FollowsInRange, VerdictSays, OutOfRange
  <2>5. NeverFollowedAgain' /\ PausedForAReason'
    BY <1>1, <1>4, <1>5, <2>1, <2>2 DEF DiagInvariant, NeverFollowedAgain, PausedForAReason
  <2>6. TroublesCounted'
    BY <1>1, <1>4, <1>5, <2>1 DEF DiagInvariant, TroublesCounted
  <2> QED
    BY <2>3, <2>4, <2>5, <2>6 DEF DiagInvariant
<1>6. CASE ~Stays
  <2>1. /\ followed' = Applied(leader) /\ stoppedJoints' = Blocked(leader)
        /\ checked' = checked \cup (DiagJoints \ Blocked(leader))
        /\ troubles' = IF Blocked(leader) = {} THEN troubles ELSE troubles \cup {"range"}
        /\ counted' = counted \cup (IF suspicion THEN {"suspicions"} ELSE {}) \cup NewlyBlocked(leader)
    BY <1>2, <1>6 DEF Follows
  <2>2. troubles' \in SUBSET (Kinds \cup {"range", "recorder"}) /\ troubles' \cap Kinds = troubles \cap Kinds
    BY <2>1 DEF DiagInvariant, DiagTypes, Kinds
  <2>3. Pausing' = Pausing
    BY <1>1, <2>2, SameReasons
  <2>4. /\ followed' \in [DiagJoints -> DiagLeaderAt \cup {0}]
        /\ stoppedJoints' \in SUBSET DiagJoints /\ checked' \in SUBSET DiagJoints
        /\ FollowsInRange'
        /\ Blocked(leader) # {} => "blocked" \in counted \cup NewlyBlocked(leader)
        /\ NewlyBlocked(leader) \in SUBSET Counters
    BY <1>1, <2>1, FrameKeeps
  <2>5. DiagTypes'
    <3>1. counted' \in SUBSET Counters
      BY <2>1, <2>4 DEF DiagInvariant, DiagTypes, Counters
    <3>2. paused' \in BOOLEAN /\ asked' \in Nat
      BY <1>1, <1>4 DEF DiagInvariant, DiagTypes
    <3> QED
      BY <1>1, <1>3, <2>2, <2>4, <3>1, <3>2 DEF DiagInvariant, DiagTypes
  <2>6. VerdictSays'
    BY <1>1 DEF DiagInvariant, VerdictSays
  <2>7. NeverFollowedAgain' /\ PausedForAReason'
    <3>1. "mode" \notin troubles /\ "mode" \notin troubles'
      BY <1>4, <1>6, <2>2 DEF DiagInvariant, NeverFollowedAgain, Kinds
    <3>2. ~policy.autoResume => Pausing = {}
      BY <1>4, <1>6 DEF DiagInvariant, PausedForAReason
    <3> QED
      BY <1>1, <1>6, <2>3, <3>1, <3>2 DEF NeverFollowedAgain, PausedForAReason
  <2>8. TroublesCounted'
    BY <1>1, <1>6, <2>1, <2>4 DEF DiagInvariant, TroublesCounted
  <2> QED
    BY <2>4, <2>5, <2>6, <2>7, <2>8 DEF DiagInvariant
<1> QED
  BY <1>5, <1>6

LEMMA FailedRecordKeeps ==
  ASSUME DiagInvariant, RecorderFails
  PROVE  DiagInvariant'
<1>1. /\ diagPhase = "loop" /\ asked' = asked + 1 /\ OkCounted /\ ~Stays /\ paused' = FALSE /\ fatalDiag' = TRUE
      /\ diagPhase' = "finalize"
      /\ UNCHANGED <<policy, diagResult>>
  BY DEF RecorderFails, Asks
<1>2. PICK leader \in [DiagJoints -> DiagLeaderAt] :
        /\ followed' = Applied(leader) /\ stoppedJoints' = Blocked(leader)
        /\ checked' = checked \cup (DiagJoints \ Blocked(leader))
        /\ troubles' = troubles \cup {"recorder"} \cup (IF Blocked(leader) = {} THEN {} ELSE {"range"})
        /\ counted' = counted \cup NewlyBlocked(leader)
  BY DEF RecorderFails
<1>3. okCount' \in 0 .. ResumeAfter - 1
  BY <1>1, OkCountKept
<1>4. (paused /\ fatalDiag => Stays) /\ (paused /\ ~policy.autoResume => Stays)
  BY DEF Stays, Resumes, DiagInvariant, DiagTypes
<1>5. troubles' \in SUBSET (Kinds \cup {"range", "recorder"}) /\ troubles' \cap Kinds = troubles \cap Kinds
  BY <1>2 DEF DiagInvariant, DiagTypes, Kinds
<1>6. Pausing' = Pausing
  BY <1>1, <1>5, SameReasons
<1>7. /\ followed' \in [DiagJoints -> DiagLeaderAt \cup {0}]
      /\ stoppedJoints' \in SUBSET DiagJoints /\ checked' \in SUBSET DiagJoints
      /\ FollowsInRange'
      /\ Blocked(leader) # {} => "blocked" \in counted \cup NewlyBlocked(leader)
      /\ NewlyBlocked(leader) \in SUBSET Counters
  BY <1>1, <1>2, FrameKeeps
<1>8. DiagTypes'
  <2>1. counted' \in SUBSET Counters
    BY <1>2, <1>7 DEF DiagInvariant, DiagTypes
  <2>2. asked' \in Nat
    BY <1>1 DEF DiagInvariant, DiagTypes
  <2>3. paused' \in BOOLEAN /\ fatalDiag' \in BOOLEAN
    BY <1>1
  <2> QED
    BY <1>1, <1>3, <1>5, <1>7, <2>1, <2>2, <2>3 DEF DiagInvariant, DiagTypes
<1>9. VerdictSays'
  BY <1>1 DEF DiagInvariant, VerdictSays
<1>10. NeverFollowedAgain' /\ PausedForAReason'
  <2>1. "mode" \notin troubles /\ "mode" \notin troubles'
    BY <1>1, <1>4, <1>5 DEF DiagInvariant, NeverFollowedAgain, Kinds
  <2>2. ~policy.autoResume => Pausing = {}
    BY <1>1, <1>4 DEF DiagInvariant, PausedForAReason
  <2> QED
    BY <1>1, <1>6, <2>1, <2>2 DEF NeverFollowedAgain, PausedForAReason
<1>11. TroublesCounted'
  BY <1>1, <1>2, <1>7 DEF DiagInvariant, TroublesCounted
<1> QED
  BY <1>7, <1>8, <1>9, <1>10, <1>11 DEF DiagInvariant

LEMMA DiagStep == DiagInvariant /\ [DiagNext]_diagVars => DiagInvariant'
<1> SUFFICES ASSUME DiagInvariant, [DiagNext]_diagVars PROVE DiagInvariant'
  OBVIOUS
<1>1. ASSUME UNCHANGED <<policy, pauseVars, counted, stoppedJoints, checked, troubles>>,
             followed' = followed \/ (followed' \in [DiagJoints -> DiagLeaderAt] /\ checked = {}),
             asked' \in Nat, VerdictSays', diagPhase' \in {"preflight", "loop", "finalize", "over"},
             diagResult' \in {"none", "PASS", "WARN", "BLOCKED"}
      PROVE  DiagInvariant'
  <2>1. DiagTypes'
    <3>1. followed' \in [DiagJoints -> DiagLeaderAt \cup {0}]
      BY <1>1 DEF DiagInvariant, DiagTypes
    <3> QED
      BY <1>1, <3>1 DEF DiagInvariant, DiagTypes, pauseVars
  <2>2. FollowsInRange'
    BY <1>1 DEF DiagInvariant, FollowsInRange, OutOfRange
  <2>3. Pausing' = Pausing
    BY <1>1, SameReasons DEF DiagInvariant, DiagTypes
  <2>4. NeverFollowedAgain' /\ PausedForAReason' /\ TroublesCounted'
    BY <1>1, <2>3 DEF DiagInvariant, NeverFollowedAgain, PausedForAReason, TroublesCounted, pauseVars
  <2> QED
    BY <1>1, <2>1, <2>2, <2>4 DEF DiagInvariant
<1>2. asked \in Nat /\ VerdictSays /\ diagPhase \in {"preflight", "loop", "finalize", "over"}
      /\ diagResult \in {"none", "PASS", "WARN", "BLOCKED"}
  BY DEF DiagInvariant, DiagTypes
<1>3. CASE PreflightPasses
  BY <1>1, <1>2, <1>3 DEF PreflightPasses, VerdictSays
<1>4. CASE PreflightAborts
  BY <1>1, <1>2, <1>4 DEF PreflightAborts, VerdictSays
<1>5. CASE DurationElapses
  BY <1>1, <1>2, <1>5 DEF DurationElapses, VerdictSays
<1>6. CASE DiagInterrupted
  BY <1>1, <1>2, <1>6 DEF DiagInterrupted, VerdictSays
<1>7. CASE Finalize
  BY <1>1, <1>2, <1>7 DEF Finalize, VerdictSays, Verdict
<1>8. CASE UNCHANGED diagVars
  BY <1>1, <1>2, <1>8 DEF diagVars, pauseVars, VerdictSays
<1> QED
  BY <1>3, <1>4, <1>5, <1>6, <1>7, <1>8, BadAnswerKeeps, GoodAnswerKeeps, FailedRecordKeeps DEF DiagNext

LEMMA DiagIsSafe == DiagInvariant => DiagnosisSafe /\ DiagTypeOK
<1> SUFFICES ASSUME DiagInvariant PROVE DiagnosisSafe /\ DiagTypeOK
  OBVIOUS
<1>1. PassMeansUntroubled
  BY DEF DiagInvariant, DiagTypes, TroublesCounted, VerdictSays, PassMeansUntroubled, Kinds
<1>2. DiagTypeOK
  BY DEF DiagInvariant, DiagTypes, DiagTypeOK
<1> QED
  BY <1>1, <1>2 DEF DiagInvariant, DiagnosisSafe

-----------------------------------------------------------------------------
(***************************************************************************)
(* The analysis of a difference.  PersistentIn and SaturationIn are the    *)
(* conditions of the events, over any series; Clean(s, e) says that a      *)
(* whole memory of intervals without opposite directions ends at sample e. *)
(***************************************************************************)
AnalyzerSamples == [at : Nat, leader : Int, follower : Int]
EventCodes == {"persistent", "saturation", "sign", "offset"}

ApartIn(s, i, sign) == Magnitude(Diff(s[i])) > Apart /\ SignOf(Diff(s[i])) = sign

PersistentIn(s, n) ==
  \E k \in 1 .. n, sign \in {-1, 1} :
    s[n].at - s[k].at >= ApartFor /\ \A i \in k .. n : ApartIn(s, i, sign)

\* The leader moved between the two, the follower did not, and they came apart.
Saturates(a, b) ==
  /\ Magnitude(b.leader - a.leader) >= Moving
  /\ Magnitude(b.follower - a.follower) <= Still
  /\ Magnitude(Diff(b) - Diff(a)) >= Still

SaturationIn(s, n) ==
  \E k \in 1 .. n :
    /\ s[n].at - s[k].at >= SatWindow
    /\ \A i \in k + 1 .. n : s[n].at - s[i].at < SatWindow
    /\ Saturates(s[k], s[n])

Clean(s, e) == \A i \in e - SignMemory + 1 .. e : i > 1 /\ ~Mismatch(s, i)

AnalyzerTypes ==
  /\ samples \in Seq(AnalyzerSamples) /\ Len(samples) <= MaxSamples
  /\ reported \in Seq(SUBSET EventCodes) /\ Len(reported) = Len(samples)
  /\ run \in [start : Nat \cup {-1}, sign : {-1, 0, 1}, active : BOOLEAN]
  /\ saturation \in BOOLEAN /\ signActive \in BOOLEAN /\ offsetSeen \in BOOLEAN
  /\ signRecent \in Seq(BOOLEAN)

AtRising(s) == \A i, k \in 1 .. Len(s) : i <= k => s[i].at <= s[k].at

\* The run began at sample k, and not earlier.
RunFrom(r, s, n, k) ==
  /\ r.start = s[k].at /\ r.sign \in {-1, 1} /\ \A i \in k .. n : ApartIn(s, i, r.sign)
  /\ k > 1 => ~ApartIn(s, k - 1, r.sign)
  /\ r.active <=> s[n].at - r.start >= ApartFor

\* What the detectors remember of a series of n samples.
RunKnown(r, s, n) ==
  \/ r = NoRun /\ (n > 0 => Magnitude(Diff(s[n])) <= Apart)
  \/ n > 0 /\ \E k \in 1 .. n : RunFrom(r, s, n, k)

SaturationKnown == saturation <=> Len(samples) > 0 /\ SaturationIn(samples, Len(samples))

\* recent holds the last intervals of the first n samples, as many as there are and
\* it can hold.
SignsAre(recent, s, n) ==
  /\ Len(recent) = IF n <= 1 THEN 0 ELSE IF n - 1 <= SignMemory THEN n - 1 ELSE SignMemory
  /\ \A i \in 1 .. Len(recent) : recent[i] <=> Mismatch(s, (n - Len(recent)) + i)

EdgesReported ==
  \A n \in 1 .. Len(samples) :
    /\ "persistent" \in reported[n] <=> PersistentIn(samples, n) /\ ~(n > 1 /\ PersistentIn(samples, n - 1))
    /\ "saturation" \in reported[n] <=> SaturationIn(samples, n) /\ ~(n > 1 /\ SaturationIn(samples, n - 1))

\* Every report of opposite directions is in force, or a memory is clean since.
SignInForce ==
  \A m \in 1 .. Len(samples) :
    "sign" \in reported[m] => signActive \/ \E e \in m + 1 .. Len(samples) : Clean(samples, e)

SignSeparated ==
  \A m, n \in 1 .. Len(samples) :
    m < n /\ "sign" \in reported[m] /\ "sign" \in reported[n] =>
      \E e \in m + 1 .. n - 1 : Clean(samples, e)

OpposedUpTo(s, n) == {i \in 2 .. n : i > n - SignMemory /\ Mismatch(s, i)}

SignJustified ==
  \A n \in 1 .. Len(samples) :
    "sign" \in reported[n] => Cardinality(OpposedUpTo(samples, n)) >= SignCount

OffsetOnce ==
  /\ \A m \in 1 .. Len(samples) : "offset" \in reported[m] => offsetSeen
  /\ \A m, n \in 1 .. Len(samples) : "offset" \in reported[m] /\ "offset" \in reported[n] => m = n

AnalyzerInvariant ==
  /\ AnalyzerTypes /\ AtRising(samples) /\ RunKnown(run, samples, Len(samples)) /\ SaturationKnown
  /\ SignsAre(signRecent, samples, Len(samples)) /\ EdgesReported /\ SignInForce /\ SignSeparated /\ SignJustified /\ OffsetOnce

LEMMA AnalyzerBegins ==
  AnalyzerInit => AnalyzerInvariant
<1> SUFFICES ASSUME AnalyzerInit PROVE AnalyzerInvariant
  OBVIOUS
<1>1. /\ samples = <<>> /\ run = NoRun /\ saturation = FALSE
      /\ signRecent = <<>> /\ signActive = FALSE /\ offsetSeen = FALSE /\ reported = <<>>
  BY DEF AnalyzerInit
<1>2. Len(samples) = 0 /\ Len(signRecent) = 0 /\ Len(reported) = 0 /\ 1 .. Len(samples) = {} /\ 1 .. 0 = {}
  BY <1>1
<1>3. AnalyzerTypes
  <2>1. NoRun \in [start : Nat \cup {-1}, sign : {-1, 0, 1}, active : BOOLEAN]
    BY DEF NoRun
  <2>2. samples \in Seq(AnalyzerSamples) /\ reported \in Seq(SUBSET EventCodes) /\ signRecent \in Seq(BOOLEAN)
    <3> DEFINE A == AnalyzerSamples
               B == SUBSET EventCodes
    <3> HIDE DEF A, B
    <3>1. <<>> \in Seq(A) /\ <<>> \in Seq(B) /\ <<>> \in Seq(BOOLEAN)
      OBVIOUS
    <3> QED
      BY <1>1, <3>1 DEF A, B
  <2>3. 0 <= MaxSamples
    BY AnalyzerAssumption
  <2> QED
    BY <1>1, <1>2, <2>1, <2>2, <2>3 DEF AnalyzerTypes
<1>4. AtRising(samples) /\ EdgesReported /\ SignInForce /\ SignSeparated /\ SignJustified /\ OffsetOnce
  BY <1>2 DEF AtRising, EdgesReported, SignInForce, SignSeparated, SignJustified, OffsetOnce
<1>5. RunKnown(run, samples, Len(samples)) /\ SaturationKnown
  BY <1>1, <1>2 DEF RunKnown, SaturationKnown
<1>6. SignsAre(signRecent, samples, Len(samples))
  BY <1>2 DEF SignsAre
<1> QED
  BY <1>3, <1>4, <1>5, <1>6 DEF AnalyzerInvariant

-----------------------------------------------------------------------------
\* What was true of a series is true of it when it has one sample more.
LEMMA OldSamplesStay ==
  ASSUME NEW s \in Seq(AnalyzerSamples), NEW x \in AnalyzerSamples
  PROVE  LET t == Append(s, x) IN
         \A n \in 1 .. Len(s) :
           /\ \A i \in 1 .. n, sign \in {-1, 0, 1} : ApartIn(t, i, sign) <=> ApartIn(s, i, sign)
           /\ PersistentIn(t, n) <=> PersistentIn(s, n)
           /\ SaturationIn(t, n) <=> SaturationIn(s, n)
           /\ n > 1 => (Mismatch(t, n) <=> Mismatch(s, n))
           /\ Clean(t, n) <=> Clean(s, n)
           /\ OpposedUpTo(t, n) = OpposedUpTo(s, n)
<1> DEFINE t == Append(s, x)
<1>1. Len(s) \in Nat /\ \A i \in 1 .. Len(s) : t[i] = s[i]
  OBVIOUS
<1> HIDE DEF t
<1> SUFFICES ASSUME NEW n \in 1 .. Len(s)
             PROVE  /\ \A i \in 1 .. n, sign \in {-1, 0, 1} : ApartIn(t, i, sign) <=> ApartIn(s, i, sign)
                    /\ PersistentIn(t, n) <=> PersistentIn(s, n)
                    /\ SaturationIn(t, n) <=> SaturationIn(s, n)
                    /\ n > 1 => (Mismatch(t, n) <=> Mismatch(s, n))
                    /\ Clean(t, n) <=> Clean(s, n)
                    /\ OpposedUpTo(t, n) = OpposedUpTo(s, n)
  BY DEF t
<1>2. n \in Nat /\ n >= 1 /\ \A i \in 1 .. n : t[i] = s[i]
  BY <1>1
<1>3. \A i \in 1 .. n, sign \in {-1, 0, 1} : ApartIn(t, i, sign) <=> ApartIn(s, i, sign)
  BY <1>2 DEF ApartIn
<1>4. PersistentIn(t, n) <=> PersistentIn(s, n)
  <2>1. n \in 1 .. n /\ \A k \in 1 .. n : \A i \in k .. n : i \in 1 .. n
    BY <1>2
  <2> QED
    BY <1>2, <1>3, <2>1 DEF PersistentIn
<1>5. SaturationIn(t, n) <=> SaturationIn(s, n)
  <2>1. n \in 1 .. n /\ \A k \in 1 .. n : \A i \in k + 1 .. n : i \in 1 .. n
    BY <1>2
  <2> QED
    BY <1>2, <2>1 DEF SaturationIn
<1>6. \A i \in 2 .. n : Mismatch(t, i) <=> Mismatch(s, i)
  <2> SUFFICES ASSUME NEW i \in 2 .. n PROVE Mismatch(t, i) <=> Mismatch(s, i)
    OBVIOUS
  <2>1. i \in 1 .. n /\ i - 1 \in 1 .. n
    BY <1>2
  <2>2. t[i] = s[i] /\ t[i - 1] = s[i - 1]
    BY <1>2, <2>1
  <2> QED
    BY <2>2 DEF Mismatch
<1>7. Clean(t, n) <=> Clean(s, n)
  <2>1. SignMemory \in Nat
    BY AnalyzerAssumption
  <2>2. \A i \in n - SignMemory + 1 .. n : i > 1 => i \in 2 .. n
    BY <1>2, <2>1
  <2> QED
    BY <1>6, <2>2 DEF Clean
<1>8. OpposedUpTo(t, n) = OpposedUpTo(s, n)
  BY <1>6 DEF OpposedUpTo
<1>9. n > 1 => n \in 2 .. n
  BY <1>2
<1> QED
  BY <1>3, <1>4, <1>5, <1>6, <1>7, <1>8, <1>9

\* The sample there is now, and its time.
LEMMA NextSample ==
  ASSUME AnalyzerInvariant, NEW step \in Steps, NEW l \in LeaderAngles, NEW f \in FollowerAngles
  PROVE  LET at == IF samples = <<>> THEN 0 ELSE Last(samples).at + step
             x == [at |-> at, leader |-> l, follower |-> f]
             t == Append(samples, x)
         IN  /\ at \in Nat /\ x \in AnalyzerSamples /\ t \in Seq(AnalyzerSamples)
             /\ Len(t) = Len(samples) + 1 /\ Last(t) = t[Len(samples) + 1]
             /\ AtRising(t)
<1> DEFINE at == IF samples = <<>> THEN 0 ELSE Last(samples).at + step
           x == [at |-> at, leader |-> l, follower |-> f]
           t == Append(samples, x)
           n == Len(samples)
<1>1. samples \in Seq(AnalyzerSamples) /\ AtRising(samples) /\ n \in Nat
  BY DEF AnalyzerInvariant, AnalyzerTypes
<1>2. step \in Nat /\ l \in Int /\ f \in Int
  BY AnalyzerAssumption
<1>3. samples # <<>> => n \in 1 .. n /\ Last(samples) = samples[n] /\ samples[n] \in AnalyzerSamples
  BY <1>1 DEF Last
<1>4. at \in Nat /\ \A i \in 1 .. n : samples[i].at <= at
  <2>1. CASE samples = <<>>
    <3>1. n = 0 /\ 1 .. n = {}
      BY <2>1
    <3> QED
      BY <2>1, <3>1
  <2>2. CASE samples # <<>>
    <3>1. samples[n].at \in Nat /\ \A i \in 1 .. n : samples[i].at \in Nat
      <4>1. \A i \in 1 .. n : samples[i] \in AnalyzerSamples
        BY <1>1
      <4>2. \A y \in AnalyzerSamples : y.at \in Nat
        BY DEF AnalyzerSamples
      <4> QED
        BY <1>3, <2>2, <4>1, <4>2
    <3>2. at = samples[n].at + step
      BY <1>3, <2>2
    <3>3. \A i \in 1 .. n : samples[i].at <= samples[n].at
      BY <1>1, <1>3, <2>2 DEF AtRising
    <3> HIDE DEF at
    <3> QED
      BY <1>2, <3>1, <3>2, <3>3
  <2> QED
    BY <2>1, <2>2
<1> HIDE DEF at
<1>5. x \in AnalyzerSamples
  BY <1>2, <1>4 DEF AnalyzerSamples
<1>6. x.at = at
  OBVIOUS
<1> HIDE DEF x
<1>7. t \in Seq(AnalyzerSamples) /\ Len(t) = n + 1 /\ t[n + 1] = x /\ \A i \in 1 .. n : t[i] = samples[i]
  BY <1>1, <1>5
<1>8. Last(t) = t[n + 1]
  BY <1>7 DEF Last
<1>9. AtRising(t)
  <2> SUFFICES ASSUME NEW i \in 1 .. n + 1, NEW k \in 1 .. n + 1, i <= k PROVE t[i].at <= t[k].at
    BY <1>7 DEF AtRising
  <2>1. CASE k \in 1 .. n
    <3>1. i \in 1 .. n
      BY <1>1, <2>1
    <3> QED
      BY <1>1, <1>7, <2>1, <3>1 DEF AtRising
  <2>2. CASE k = n + 1 /\ i \in 1 .. n
    BY <1>4, <1>6, <1>7, <2>2
  <2>3. CASE k = n + 1 /\ i = n + 1
    BY <1>4, <1>6, <1>7, <2>3
  <2>4. (k \in 1 .. n \/ k = n + 1) /\ (i \in 1 .. n \/ i = n + 1) /\ (k \in 1 .. n => i # n + 1)
    BY <1>1
  <2> QED
    BY <2>1, <2>2, <2>3, <2>4
<1> QED
  BY <1>4, <1>5, <1>7, <1>8, <1>9 DEF at, x, t, n
-----------------------------------------------------------------------------
\* The run the detector remembers is the one there is, and it is active when the
\* condition of the event holds.
LEMMA RunGoesOn ==
  ASSUME NEW n \in Nat, NEW t \in Seq(AnalyzerSamples), Len(t) = n + 1, AtRising(t),
         run \in [start : Nat \cup {-1}, sign : {-1, 0, 1}, active : BOOLEAN], RunKnown(run, t, n)
  PROVE  /\ PersistentRun(t) \in [start : Nat \cup {-1}, sign : {-1, 0, 1}, active : BOOLEAN]
         /\ RunKnown(PersistentRun(t), t, n + 1)
         /\ PersistentRun(t).active /\ run.active => PersistentRun(t).start = run.start
         /\ PersistentRun(t).active => n > 0
<1> DEFINE d == Diff(t[n + 1])
           at == t[n + 1].at
           r == PersistentRun(t)
           Runs == [start : Nat \cup {-1}, sign : {-1, 0, 1}, active : BOOLEAN]
<1>1. Last(t) = t[n + 1] /\ n + 1 \in 1 .. n + 1
  BY DEF Last
<1>2. \A i \in 1 .. n + 1 : t[i] \in AnalyzerSamples
  OBVIOUS
<1>3. \A y \in AnalyzerSamples : y.at \in Nat /\ y.leader \in Int /\ y.follower \in Int
  BY DEF AnalyzerSamples
<1>4. \A i \in 1 .. n + 1 : t[i].at \in Nat /\ Diff(t[i]) \in Int
  BY <1>2, <1>3 DEF Diff
<1>5. d \in Int /\ at \in Nat
  BY <1>1, <1>4
<1>6. Apart \in Nat /\ ApartFor \in Nat /\ ApartFor > 0
  BY AnalyzerAssumption
<1>7. r = IF Magnitude(d) <= Apart THEN NoRun
          ELSE IF run.start = -1 \/ SignOf(d) # run.sign THEN [start |-> at, sign |-> SignOf(d), active |-> FALSE]
          ELSE [run EXCEPT !.active = @ \/ at - run.start >= ApartFor]
  BY <1>1 DEF PersistentRun
<1>8. \A y \in Int : Magnitude(y) \in Nat /\ SignOf(y) \in {-1, 0, 1} /\ (Magnitude(y) > 0 => SignOf(y) \in {-1, 1})
  BY DEF Magnitude, SignOf
<1>9. Magnitude(d) \in Nat /\ SignOf(d) \in {-1, 0, 1} /\ (Magnitude(d) > Apart => SignOf(d) \in {-1, 1})
  <2> HIDE DEF d
  <2>1. Magnitude(d) \in Nat /\ SignOf(d) \in {-1, 0, 1} /\ (Magnitude(d) > 0 => SignOf(d) \in {-1, 1})
    BY <1>5, <1>8
  <2>2. Magnitude(d) > Apart => Magnitude(d) > 0
    BY <1>6, <2>1
  <2> QED
    BY <2>1, <2>2
<1>10. /\ run.start \in Nat \cup {-1} /\ run.sign \in {-1, 0, 1} /\ run.active \in BOOLEAN
       /\ NoRun.start = -1 /\ NoRun.sign = 0 /\ NoRun.active = FALSE /\ NoRun \in Runs
  BY DEF NoRun
<1>11. ApartIn(t, n + 1, SignOf(d)) <=> Magnitude(d) > Apart
  BY DEF ApartIn
<1> HIDE DEF r, d, at
<1>12. CASE Magnitude(d) <= Apart
  <2>1. r = NoRun
    BY <1>7, <1>12
  <2>2. RunKnown(r, t, n + 1)
    BY <1>12, <2>1 DEF RunKnown, d
  <2> QED
    BY <1>10, <2>1, <2>2 DEF r
<1>13. ASSUME ~(Magnitude(d) <= Apart), run.start = -1 \/ SignOf(d) # run.sign
       PROVE  r \in Runs /\ RunKnown(r, t, n + 1) /\ ~r.active
  <2>1. r = [start |-> at, sign |-> SignOf(d), active |-> FALSE]
    BY <1>7, <1>13
  <2>2. Magnitude(d) > Apart /\ SignOf(d) \in {-1, 1}
    BY <1>6, <1>9, <1>13
  <2>3. r.start = at /\ r.sign = SignOf(d) /\ r.active = FALSE /\ r \in Runs
    BY <1>5, <1>9, <2>1
  <2>4. \A i \in n + 1 .. n + 1 : ApartIn(t, i, r.sign)
    BY <1>11, <2>2, <2>3
  <2>5. n + 1 > 1 => ~ApartIn(t, n, r.sign)
    <3> SUFFICES ASSUME n + 1 > 1, ApartIn(t, n, SignOf(d)) PROVE FALSE
      BY <2>3
    <3>1. n > 0 /\ n \in 1 .. n + 1
      OBVIOUS
    <3>2. Magnitude(Diff(t[n])) > Apart /\ SignOf(Diff(t[n])) = SignOf(d) /\ Magnitude(Diff(t[n])) \in Nat
      BY <1>4, <1>8, <3>1 DEF ApartIn
    <3>3. PICK k \in 1 .. n : RunFrom(run, t, n, k)
      BY <1>6, <3>1, <3>2 DEF RunKnown
    <3>4. n \in k .. n /\ k \in 1 .. n + 1
      BY <3>1
    <3>5. ApartIn(t, n, run.sign) /\ run.start = t[k].at
      BY <3>3, <3>4 DEF RunFrom
    <3>6. SignOf(d) = run.sign /\ run.start \in Nat
      BY <1>4, <3>2, <3>4, <3>5 DEF ApartIn
    <3>7. run.start # -1
      BY <3>6
    <3> QED
      BY <1>13, <3>6, <3>7
  <2>6. ~(t[n + 1].at - r.start >= ApartFor)
    BY <1>5, <1>6, <2>3 DEF at
  <2>7. RunFrom(r, t, n + 1, n + 1)
    BY <2>2, <2>3, <2>4, <2>5, <2>6 DEF RunFrom, at
  <2> QED
    BY <1>1, <2>3, <2>7 DEF RunKnown
<1>14. ASSUME ~(Magnitude(d) <= Apart), ~(run.start = -1 \/ SignOf(d) # run.sign)
       PROVE  r \in Runs /\ RunKnown(r, t, n + 1) /\ r.start = run.start /\ n > 0
  <2>1. r = [run EXCEPT !.active = @ \/ at - run.start >= ApartFor]
    BY <1>7, <1>14
  <2>2. /\ r.start = run.start /\ r.sign = run.sign /\ (r.active <=> run.active \/ at - run.start >= ApartFor)
        /\ r \in Runs
    BY <1>10, <2>1
  <2>3. Magnitude(d) > Apart
    BY <1>6, <1>9, <1>14
  <2>4. run # NoRun
    BY <1>10, <1>14
  <2>5. n > 0 /\ \E k \in 1 .. n : RunFrom(run, t, n, k)
    BY <2>4 DEF RunKnown
  <2>6. PICK k \in 1 .. n : RunFrom(run, t, n, k)
    BY <2>5
  <2>7. /\ run.start = t[k].at /\ run.sign \in {-1, 1} /\ \A i \in k .. n : ApartIn(t, i, run.sign)
        /\ k > 1 => ~ApartIn(t, k - 1, run.sign)
        /\ run.active <=> t[n].at - run.start >= ApartFor
    BY <2>6 DEF RunFrom
  <2>8. \A i \in k .. n + 1 : ApartIn(t, i, r.sign)
    <3>1. \A i \in k .. n + 1 : i \in k .. n \/ i = n + 1
      OBVIOUS
    <3>2. ApartIn(t, n + 1, run.sign)
      BY <1>11, <1>14, <2>3
    <3> QED
      BY <2>2, <2>7, <3>1, <3>2
  <2>9. t[n].at <= at /\ t[n].at \in Nat /\ t[k].at \in Nat
    <3>1. n \in 1 .. Len(t) /\ n + 1 \in 1 .. Len(t) /\ k \in 1 .. n + 1 /\ n <= n + 1
      BY <2>5
    <3> QED
      BY <1>4, <3>1 DEF AtRising, at
  <2>10. r.active <=> at - r.start >= ApartFor
    <3>1. t[n].at - run.start >= ApartFor => at - run.start >= ApartFor
      BY <1>5, <1>6, <2>7, <2>9
    <3> QED
      BY <2>2, <2>7, <3>1
  <2>11. RunFrom(r, t, n + 1, k)
    BY <2>2, <2>7, <2>8, <2>10 DEF RunFrom, at
  <2>12. k \in 1 .. n + 1 /\ n + 1 > 0
    OBVIOUS
  <2> QED
    BY <2>2, <2>5, <2>11, <2>12 DEF RunKnown
<1> QED
  BY <1>12, <1>13, <1>14 DEF r

LEMMA ActiveIsPersistent ==
  ASSUME NEW n \in Nat \ {0}, NEW s \in Seq(AnalyzerSamples), n <= Len(s), AtRising(s), NEW r, RunKnown(r, s, n)
  PROVE  r.active <=> PersistentIn(s, n)
<1>1. n \in Nat /\ n > 0 /\ n \in 1 .. n /\ Len(s) \in Nat /\ n \in 1 .. Len(s)
  OBVIOUS
<1>2. \A i \in 1 .. n : s[i].at \in Nat /\ Diff(s[i]) \in Int
  <2>1. \A i \in 1 .. n : s[i] \in AnalyzerSamples
    BY <1>1
  <2>2. \A y \in AnalyzerSamples : y.at \in Nat /\ y.leader \in Int /\ y.follower \in Int
    BY DEF AnalyzerSamples
  <2> QED
    BY <2>1, <2>2 DEF Diff
<1>3. Apart \in Nat /\ ApartFor \in Nat
  BY AnalyzerAssumption
<1>4. \A y \in Int : Magnitude(y) \in Nat
  BY DEF Magnitude
<1>5. CASE r = NoRun /\ Magnitude(Diff(s[n])) <= Apart
  <2>1. \A sign : ~ApartIn(s, n, sign)
    <3>1. Magnitude(Diff(s[n])) \in Nat
      BY <1>1, <1>2, <1>4
    <3>2. ~(Magnitude(Diff(s[n])) > Apart)
      BY <1>3, <1>5, <3>1
    <3> QED
      BY <3>2 DEF ApartIn
  <2>2. \A k \in 1 .. n : n \in k .. n
    BY <1>1
  <2>3. ~PersistentIn(s, n)
    BY <2>1, <2>2 DEF PersistentIn
  <2> QED
    BY <1>5, <2>3 DEF NoRun
<1>6. ASSUME NEW k \in 1 .. n, RunFrom(r, s, n, k) PROVE r.active <=> PersistentIn(s, n)
  <2>1. /\ r.start = s[k].at /\ r.sign \in {-1, 1} /\ \A i \in k .. n : ApartIn(s, i, r.sign)
        /\ k > 1 => ~ApartIn(s, k - 1, r.sign)
        /\ r.active <=> s[n].at - r.start >= ApartFor
    BY <1>6 DEF RunFrom
  <2>2. ASSUME s[n].at - s[k].at >= ApartFor PROVE PersistentIn(s, n)
    BY <2>1, <2>2 DEF PersistentIn
  <2>3. ASSUME PersistentIn(s, n) PROVE s[n].at - s[k].at >= ApartFor
    <3>1. PICK j \in 1 .. n : \E sign \in {-1, 1} :
            s[n].at - s[j].at >= ApartFor /\ \A i \in j .. n : ApartIn(s, i, sign)
      BY <2>3 DEF PersistentIn
    <3>2. PICK sign \in {-1, 1} : s[n].at - s[j].at >= ApartFor /\ \A i \in j .. n : ApartIn(s, i, sign)
      BY <3>1
    <3>3. n \in j .. n /\ n \in k .. n
      BY <1>1
    <3>4. sign = r.sign
      BY <2>1, <3>2, <3>3 DEF ApartIn
    <3>5. j >= k
      <4> SUFFICES ASSUME j < k PROVE FALSE
        OBVIOUS
      <4>1. k - 1 \in j .. n /\ k > 1
        OBVIOUS
      <4> QED
        BY <2>1, <3>2, <3>4, <4>1
    <3>6. s[k].at <= s[j].at
      <4>1. j \in 1 .. Len(s) /\ k \in 1 .. Len(s)
        BY <1>1
      <4> QED
        BY <3>5, <4>1 DEF AtRising
    <3>7. s[n].at \in Nat /\ s[j].at \in Nat /\ s[k].at \in Nat
      BY <1>1, <1>2
    <3> QED
      BY <1>3, <3>2, <3>6, <3>7
  <2> QED
    BY <2>1, <2>2, <2>3
<1> QED
  BY <1>1, <1>5, <1>6 DEF RunKnown

\* The window of the saturation begins at the last sample that is old enough.
LEMMA SaturatedIs ==
  ASSUME NEW n \in Nat, NEW t \in Seq(AnalyzerSamples), Len(t) = n + 1, AtRising(t)
  PROVE  SaturatedNow(t) <=> SaturationIn(t, n + 1)
<1> DEFINE Old == {i \in 1 .. n + 1 : t[i].at <= t[n + 1].at - SatWindow}
           w == WindowStart(t)
<1>1. Last(t) = t[n + 1] /\ n + 1 \in 1 .. n + 1
  BY DEF Last
<1>2. w = IF Old # {} THEN Max(Old) ELSE 0
  BY <1>1 DEF WindowStart, SelectLastInSeq
<1>3. \A i \in 1 .. n + 1 : t[i].at \in Nat
  <2>1. \A i \in 1 .. n + 1 : t[i] \in AnalyzerSamples
    OBVIOUS
  <2>2. \A y \in AnalyzerSamples : y.at \in Nat
    BY DEF AnalyzerSamples
  <2> QED
    BY <2>1, <2>2
<1>4. SatWindow \in Nat
  BY AnalyzerAssumption
<1>5. SaturatedNow(t) <=> w # 0 /\ Saturates(t[w], t[n + 1])
  BY <1>1 DEF SaturatedNow, Saturates
<1>6. SaturationIn(t, n + 1) <=> \E k \in 1 .. n + 1 : /\ t[n + 1].at - t[k].at >= SatWindow
                                                       /\ \A i \in k + 1 .. n + 1 : t[n + 1].at - t[i].at < SatWindow
                                                       /\ Saturates(t[k], t[n + 1])
  BY DEF SaturationIn
<1> HIDE DEF w
<1>7. \A i \in 1 .. n + 1 : (i \in Old <=> t[n + 1].at - t[i].at >= SatWindow)
                          /\ (i \notin Old <=> t[n + 1].at - t[i].at < SatWindow)
  BY <1>1, <1>3, <1>4
<1>8. CASE Old = {}
  <2>1. w = 0
    BY <1>2, <1>8
  <2>2. ~SaturationIn(t, n + 1)
    BY <1>6, <1>7, <1>8
  <2> QED
    BY <1>5, <2>1, <2>2
<1>9. CASE Old # {}
  <2>1. Old \in SUBSET Int /\ n + 1 \in Int /\ \A y \in Old : y <= n + 1
    OBVIOUS
  <2>2. Max(Old) \in Old /\ \A y \in Old : y <= Max(Old)
    BY <1>9, <2>1, GreatestOfInts
  <2>3. w \in Old /\ \A y \in Old : y <= w
    BY <1>2, <1>9, <2>2
  <2>4. w \in 1 .. n + 1 /\ w # 0
    BY <2>3
  <2>5. \A i \in w + 1 .. n + 1 : i \in 1 .. n + 1 /\ i \notin Old
    BY <2>3, <2>4
  <2>6. ASSUME Saturates(t[w], t[n + 1]) PROVE SaturationIn(t, n + 1)
    <3>1. t[n + 1].at - t[w].at >= SatWindow /\ \A i \in w + 1 .. n + 1 : t[n + 1].at - t[i].at < SatWindow
      BY <1>7, <2>3, <2>4, <2>5
    <3> QED
      BY <1>6, <2>4, <2>6, <3>1
  <2>7. ASSUME SaturationIn(t, n + 1) PROVE Saturates(t[w], t[n + 1])
    <3>1. PICK k \in 1 .. n + 1 : /\ t[n + 1].at - t[k].at >= SatWindow
                                  /\ \A i \in k + 1 .. n + 1 : t[n + 1].at - t[i].at < SatWindow
                                  /\ Saturates(t[k], t[n + 1])
      BY <1>6, <2>7
    <3>2. k \in Old
      BY <1>7, <3>1
    <3>3. k <= w
      BY <2>3, <3>2
    <3>4. ~(k < w)
      <4> SUFFICES ASSUME k < w PROVE FALSE
        OBVIOUS
      <4>1. w \in k + 1 .. n + 1
        BY <2>4
      <4>2. w \notin Old
        BY <1>7, <2>4, <3>1, <4>1
      <4> QED
        BY <2>3, <4>2
    <3>5. k = w
      BY <2>4, <3>3, <3>4
    <3> QED
      BY <3>1, <3>5
  <2> QED
    BY <1>5, <2>4, <2>6, <2>7
<1> QED
  BY <1>8, <1>9


LEMMA SignsGoOn ==
  ASSUME NEW n \in Nat, NEW t \in Seq(AnalyzerSamples), Len(t) = n + 1,
         signRecent \in Seq(BOOLEAN), SignsAre(signRecent, t, n)
  PROVE  SignHistory(t) \in Seq(BOOLEAN) /\ SignsAre(SignHistory(t), t, n + 1)
<1>1. CASE n = 0
  <2>1. SignHistory(t) = signRecent
    BY <1>1 DEF SignHistory
  <2>2. Len(signRecent) = 0 /\ 1 .. 0 = {}
    BY <1>1 DEF SignsAre
  <2>3. SignsAre(signRecent, t, n + 1)
    BY <1>1, <2>2 DEF SignsAre
  <2> QED
    BY <2>1, <2>3
<1>2. CASE n # 0
  <2> DEFINE b == Mismatch(t, n + 1)
             L == Len(signRecent)
             u == Append(signRecent, b)
             c == IF L + 1 > SignMemory THEN L + 1 - SignMemory ELSE 0
             r == SubSeq(u, c + 1, L + 1)
  <2>1. b \in BOOLEAN
    BY DEF Mismatch
  <2> HIDE DEF b
  <2>2. SignMemory \in Nat /\ L \in Nat
    BY AnalyzerAssumption
  <2>3. L = IF n <= 1 THEN 0 ELSE IF n - 1 <= SignMemory THEN n - 1 ELSE SignMemory
    BY DEF SignsAre
  <2>4. u \in Seq(BOOLEAN) /\ Len(u) = L + 1 /\ u[L + 1] = b /\ \A i \in 1 .. L : u[i] = signRecent[i]
    BY <2>1
  <2>5. SignHistory(t) = r
    <3>1. ~(Len(t) < 2)
      BY <1>2
    <3>2. SignHistory(t) = LastOnes(u, SignMemory)
      BY <3>1 DEF SignHistory, b
    <3>3. LastOnes(u, SignMemory) = SubSeq(u, (IF Len(u) > SignMemory THEN Len(u) - SignMemory ELSE 0) + 1, Len(u))
      BY DEF LastOnes
    <3>4. Len(u) = L + 1
      BY <2>4
    <3> HIDE DEF u, L
    <3>5. (IF Len(u) > SignMemory THEN Len(u) - SignMemory ELSE 0) = c
      BY <2>2, <3>4
    <3> HIDE DEF c
    <3> QED
      BY <3>2, <3>3, <3>4, <3>5
  <2> HIDE DEF L, u
  <2>6. c \in Nat /\ c <= L + 1 /\ (c = 0 \/ c = 1)
    BY <2>2, <2>3, <1>2
  <2>7. c + (IF n <= SignMemory THEN n ELSE SignMemory) = L + 1
    BY <2>2, <2>3, <1>2
  <2> HIDE DEF c
  <2>8. r \in Seq(BOOLEAN) /\ Len(r) = (L + 1) - c /\ \A i \in 1 .. (L + 1) - c : r[i] = u[c + i]
    <3>1. c + 1 \in Int /\ L + 1 \in Int /\ \A i \in c + 1 .. L + 1 : i \in 1 .. Len(u)
      BY <2>2, <2>4, <2>6
    <3>2. \A i \in c + 1 .. L + 1 : u[i] \in BOOLEAN
      BY <2>4, <3>1
    <3> DEFINE from == c + 1
               to == L + 1
    <3> HIDE DEF from, to
    <3>3. from \in Int /\ to \in Int /\ \A i \in from .. to : u[i] \in BOOLEAN
      BY <3>1, <3>2 DEF from, to
    <3>4. /\ SubSeq(u, from, to) \in Seq(BOOLEAN)
          /\ Len(SubSeq(u, from, to)) = (IF from <= to THEN (to - from) + 1 ELSE 0)
          /\ \A i \in 1 .. (to - from) + 1 : SubSeq(u, from, to)[i] = u[from + i - 1]
      BY <3>3, SubSeqProperties
    <3>5. r = SubSeq(u, from, to)
      BY DEF from, to
    <3> HIDE DEF r
    <3>6. (IF from <= to THEN (to - from) + 1 ELSE 0) = (L + 1) - c /\ (to - from) + 1 = (L + 1) - c
      BY <2>2, <2>6 DEF from, to
    <3>7. \A i \in 1 .. (L + 1) - c : from + i - 1 = c + i
      BY <2>2, <2>6 DEF from
    <3> QED
      BY <3>4, <3>5, <3>6, <3>7
  <2> HIDE DEF r
  <2>9. Len(r) = IF n + 1 <= 1 THEN 0 ELSE IF (n + 1) - 1 <= SignMemory THEN (n + 1) - 1 ELSE SignMemory
    BY <1>2, <2>2, <2>6, <2>7, <2>8
  <2>10. ASSUME NEW i \in 1 .. Len(r) PROVE r[i] <=> Mismatch(t, ((n + 1) - Len(r)) + i)
    <3>1. i \in 1 .. (L + 1) - c /\ Len(r) = (L + 1) - c
      BY <2>8
    <3>2. r[i] = u[c + i]
      BY <2>8, <3>1
    <3>3. ((n + 1) - Len(r)) + i = (n - L) + (c + i)
      BY <2>2, <2>6, <3>1
    <3>4. CASE c + i <= L
      <4>1. c + i \in 1 .. L
        BY <2>2, <2>6, <3>1, <3>4
      <4>2. u[c + i] = signRecent[c + i]
        BY <2>4, <4>1
      <4>3. signRecent[c + i] <=> Mismatch(t, (n - L) + (c + i))
        BY <4>1 DEF SignsAre, L
      <4> QED
        BY <3>2, <3>3, <4>2, <4>3
    <3>5. CASE ~(c + i <= L)
      <4>1. c + i = L + 1
        BY <2>2, <2>6, <3>1, <3>5
      <4>2. (n - L) + (L + 1) = n + 1
        BY <2>2
      <4> QED
        BY <2>4, <3>2, <3>3, <4>1, <4>2 DEF b
    <3> QED
      BY <3>4, <3>5
  <2>11. SignsAre(r, t, n + 1)
    BY <2>9, <2>10 DEF SignsAre
  <2> QED
    BY <2>5, <2>8, <2>11
<1> QED
  BY <1>1, <1>2

LEMMA OpposedCounted ==
  ASSUME NEW n \in Nat, NEW t, NEW recent \in Seq(BOOLEAN), SignsAre(recent, t, n)
  PROVE  /\ Opposed(recent) \in Nat /\ Cardinality(OpposedUpTo(t, n)) \in Nat
         /\ Opposed(recent) <= Cardinality(OpposedUpTo(t, n))
         /\ Opposed(recent) = 0 => \A i \in 1 .. Len(recent) : ~recent[i]
<1> DEFINE A == {i \in DOMAIN recent : recent[i]}
           B == OpposedUpTo(t, n)
           L == Len(recent)
           f == [i \in A |-> (n - L) + i]
<1>1. DOMAIN recent = 1 .. L /\ L \in Nat
  OBVIOUS
<1>2. IsFiniteSet(A)
  <2>1. A \subseteq 1 .. L /\ IsFiniteSet(1 .. L)
    BY <1>1, FS_Interval
  <2> QED
    BY <2>1, FS_Subset
<1>3. IsFiniteSet(B)
  <2>1. B \subseteq 1 .. n /\ IsFiniteSet(1 .. n)
    BY FS_Interval DEF OpposedUpTo
  <2> QED
    BY <2>1, FS_Subset
<1>4. Cardinality(A) \in Nat /\ Cardinality(B) \in Nat
  BY <1>2, <1>3, FS_CardinalityType
<1>5. SignMemory \in Nat
  BY AnalyzerAssumption
<1>6. L = IF n <= 1 THEN 0 ELSE IF n - 1 <= SignMemory THEN n - 1 ELSE SignMemory
  BY DEF SignsAre
<1> HIDE DEF L
<1>7. ASSUME NEW i \in A PROVE (n - L) + i \in B
  <2>1. i \in 1 .. L /\ recent[i]
    BY <1>1
  <2>2. Mismatch(t, (n - L) + i)
    BY <2>1 DEF SignsAre, L
  <2>3. (n - L) + i \in 2 .. n /\ (n - L) + i > n - SignMemory
    BY <1>1, <1>5, <1>6, <2>1
  <2> QED
    BY <2>2, <2>3 DEF OpposedUpTo
<1>8. f \in Injection(A, B)
  <2>1. f \in [A -> B]
    BY <1>7
  <2>2. \A i, k \in A : f[i] = f[k] => i = k
    <3>1. \A i \in A : f[i] = (n - L) + i /\ i \in Int
      BY <1>1
    <3>2. n - L \in Int
      BY <1>1
    <3> HIDE DEF f, A
    <3> QED
      BY <3>1, <3>2
  <2> HIDE DEF f, A, B
  <2> QED
    BY <2>1, <2>2 DEF Injection, IsInjective
<1>9. Cardinality(A) <= Cardinality(B)
  <2> HIDE DEF f, A, B
  <2> QED
    BY <1>3, <1>8, FS_Injection
<1>10. Opposed(recent) = Cardinality(A)
  BY DEF Opposed
<1>11. Cardinality(A) = 0 => A = {}
  BY <1>2, FS_EmptySet
<1>12. A = {} => \A i \in 1 .. L : ~recent[i]
  BY <1>1
<1> HIDE DEF A, B
<1> QED
  BY <1>4, <1>9, <1>10, <1>11, <1>12 DEF B, L


-----------------------------------------------------------------------------
LEMMA SampleIsKnown ==
  ASSUME AnalyzerInvariant, Len(samples) < MaxSamples,
         NEW step \in Steps, NEW l \in LeaderAngles, NEW f \in FollowerAngles,
         Sample(IF samples = <<>> THEN 0 ELSE Last(samples).at + step, l, f)
  PROVE  AnalyzerInvariant'
<1> DEFINE at == IF samples = <<>> THEN 0 ELSE Last(samples).at + step
           x == [at |-> at, leader |-> l, follower |-> f]
           t == Append(samples, x)
           n == Len(samples)
           N == n + 1
<1>1. /\ at \in Nat /\ x \in AnalyzerSamples /\ t \in Seq(AnalyzerSamples)
      /\ Len(t) = n + 1 /\ Last(t) = t[n + 1] /\ AtRising(t)
  BY NextSample
<1> HIDE DEF at, x
<1> DEFINE E == (IF run'.active /\ ~(run.active /\ run'.start = run.start) THEN {"persistent"} ELSE {})
                  \cup (IF saturation' /\ ~saturation THEN {"saturation"} ELSE {})
                  \cup (IF Len(t) >= 2 /\ SignSuspected(signRecent') /\ ~signActive THEN {"sign"} ELSE {})
                  \cup (IF offsetSeen' /\ ~offsetSeen THEN {"offset"} ELSE {})
<1>2. /\ samples' = t /\ run' = PersistentRun(t) /\ saturation' = SaturatedNow(t)
      /\ signRecent' = SignHistory(t)
      /\ signActive' = (IF Len(t) < 2 THEN signActive ELSE SignLatch(signRecent'))
      /\ offsetSeen' = (offsetSeen \/ OffsetFound(t))
      /\ reported' = Append(reported, E)
  BY DEF Sample, at, x
<1>3. E \in SUBSET EventCodes
  BY DEF EventCodes
<1>4. /\ "persistent" \in E <=> run'.active /\ ~(run.active /\ run'.start = run.start)
      /\ "saturation" \in E <=> saturation' /\ ~saturation
      /\ "sign" \in E <=> Len(t) >= 2 /\ SignSuspected(signRecent') /\ ~signActive
      /\ "offset" \in E <=> offsetSeen' /\ ~offsetSeen
  OBVIOUS
<1> HIDE DEF E
<1>5. /\ samples \in Seq(AnalyzerSamples) /\ n \in Nat /\ N \in Nat
      /\ reported \in Seq(SUBSET EventCodes) /\ Len(reported) = n
      /\ run \in [start : Nat \cup {-1}, sign : {-1, 0, 1}, active : BOOLEAN]
      /\ saturation \in BOOLEAN /\ signActive \in BOOLEAN /\ offsetSeen \in BOOLEAN
      /\ signRecent \in Seq(BOOLEAN)
  BY DEF AnalyzerInvariant, AnalyzerTypes
<1>6. /\ AtRising(samples) /\ RunKnown(run, samples, n) /\ SaturationKnown
      /\ SignsAre(signRecent, samples, n) /\ EdgesReported /\ SignInForce /\ SignSeparated /\ SignJustified
      /\ OffsetOnce
  BY DEF AnalyzerInvariant
<1>7. \A i \in 1 .. n : t[i] = samples[i]
  BY <1>1, <1>5
<1>8. \A m \in 1 .. n :
        /\ \A i \in 1 .. m, sign \in {-1, 0, 1} : ApartIn(t, i, sign) <=> ApartIn(samples, i, sign)
        /\ PersistentIn(t, m) <=> PersistentIn(samples, m)
        /\ SaturationIn(t, m) <=> SaturationIn(samples, m)
        /\ m > 1 => (Mismatch(t, m) <=> Mismatch(samples, m))
        /\ Clean(t, m) <=> Clean(samples, m)
        /\ OpposedUpTo(t, m) = OpposedUpTo(samples, m)
  BY <1>1, <1>5, OldSamplesStay
<1> HIDE DEF t
<1>9. /\ reported' \in Seq(SUBSET EventCodes) /\ Len(reported') = n + 1 /\ reported'[n + 1] = E
      /\ \A i \in 1 .. n : reported'[i] = reported[i]
  <2> DEFINE A == SUBSET EventCodes
  <2>1. reported \in Seq(A) /\ E \in A
    BY <1>3, <1>5
  <2> HIDE DEF A
  <2>2. Append(reported, E) \in Seq(A) /\ Len(Append(reported, E)) = Len(reported) + 1
        /\ Append(reported, E)[Len(reported) + 1] = E /\ \A i \in 1 .. Len(reported) : Append(reported, E)[i] = reported[i]
    BY <2>1
  <2> QED
    BY <1>2, <1>5, <2>2 DEF A
<1>10. n + 1 \in 1 .. n + 1 /\ \A i \in 1 .. n + 1 : i \in 1 .. n \/ i = n + 1
  BY <1>5
<1> HIDE DEF n
\* What is remembered.
<1>11. RunKnown(run, t, n) /\ SignsAre(signRecent, t, n)
  <2>1. RunKnown(run, t, n)
    <3>1. n > 0 => n \in 1 .. n /\ t[n] = samples[n]
      BY <1>5, <1>7
    <3>2. \A k \in 1 .. n : RunFrom(run, samples, n, k) => RunFrom(run, t, n, k)
      <4> SUFFICES ASSUME NEW k \in 1 .. n, RunFrom(run, samples, n, k) PROVE RunFrom(run, t, n, k)
        OBVIOUS
      <4>1. t[k] = samples[k] /\ t[n] = samples[n] /\ n \in 1 .. n
        BY <1>5, <1>7
      <4>2. \A i \in k .. n : i \in 1 .. n
        BY <1>5
      <4>3. \A i \in 1 .. n : ApartIn(t, i, run.sign) <=> ApartIn(samples, i, run.sign)
        BY <1>7 DEF ApartIn
      <4>4. k > 1 => k - 1 \in 1 .. n
        BY <1>5
      <4> QED
        BY <4>1, <4>2, <4>3, <4>4 DEF RunFrom
    <3> QED
      BY <1>6, <3>1, <3>2 DEF RunKnown
  <2>2. SignsAre(signRecent, t, n)
    <3>1. SignMemory \in Nat
      BY AnalyzerAssumption
    <3>2. Len(signRecent) = IF n <= 1 THEN 0 ELSE IF n - 1 <= SignMemory THEN n - 1 ELSE SignMemory
      BY <1>6 DEF SignsAre
    <3>3. \A i \in 1 .. Len(signRecent) : (n - Len(signRecent)) + i \in 1 .. n /\ (n - Len(signRecent)) + i > 1
      BY <1>5, <3>1, <3>2
    <3>4. \A i \in 1 .. Len(signRecent) :
            Mismatch(t, (n - Len(signRecent)) + i) <=> Mismatch(samples, (n - Len(signRecent)) + i)
      BY <1>8, <3>3
    <3> QED
      BY <1>6, <3>2, <3>4 DEF SignsAre
  <2> QED
    BY <2>1, <2>2
<1>12. /\ run' \in [start : Nat \cup {-1}, sign : {-1, 0, 1}, active : BOOLEAN]
       /\ RunKnown(run', t, n + 1)
       /\ run'.active /\ run.active => run'.start = run.start
       /\ run'.active => n > 0
  BY <1>1, <1>2, <1>5, <1>11, RunGoesOn
<1>13. saturation' \in BOOLEAN /\ (saturation' <=> SaturationIn(t, n + 1))
  <2>1. SaturatedNow(t) \in BOOLEAN
    BY DEF SaturatedNow
  <2>2. SaturatedNow(t) <=> SaturationIn(t, n + 1)
    BY <1>1, <1>5, SaturatedIs
  <2> QED
    BY <1>2, <2>1, <2>2
<1>14. signRecent' \in Seq(BOOLEAN) /\ SignsAre(signRecent', t, n + 1)
  BY <1>1, <1>2, <1>5, <1>11, SignsGoOn
<1>15. signActive' \in BOOLEAN /\ offsetSeen' \in BOOLEAN
  <2>1. SignLatch(signRecent') \in BOOLEAN
    BY DEF SignLatch
  <2>2. CASE Len(t) < 2
    BY <1>2, <1>5, <2>2
  <2>3. CASE ~(Len(t) < 2)
    <3>1. signActive' = SignLatch(signRecent')
      BY <1>2, <2>3
    <3> QED
      BY <1>2, <2>1, <3>1
  <2>4. offsetSeen' \in BOOLEAN
    BY <1>2
  <2> QED
    BY <2>2, <2>3, <2>4
<1>16. AnalyzerTypes'
  <2>1. n + 1 <= MaxSamples
    <3>1. MaxSamples \in Nat
      BY AnalyzerAssumption
    <3>2. n \in Nat /\ n < MaxSamples
      BY <1>5 DEF n
    <3> HIDE DEF n
    <3> QED
      BY <3>1, <3>2
  <2> QED
    BY <1>1, <1>2, <1>9, <1>12, <1>13, <1>14, <1>15, <2>1 DEF AnalyzerTypes
<1>17. AtRising(samples') /\ RunKnown(run', samples', Len(samples')) /\ SaturationKnown' /\ SignsAre(signRecent', samples', Len(samples'))
  <2>1. SaturationKnown'
    <3>1. n + 1 > 0
      BY <1>5
    <3> QED
      BY <1>1, <1>2, <1>13, <3>1 DEF SaturationKnown
  <2> QED
    BY <1>1, <1>2, <1>12, <1>14, <2>1
\* What was reported.
<1>18. EdgesReported'
  <2>1. ASSUME NEW m \in 1 .. n
        PROVE  /\ "persistent" \in reported'[m] <=> PersistentIn(t, m) /\ ~(m > 1 /\ PersistentIn(t, m - 1))
               /\ "saturation" \in reported'[m] <=> SaturationIn(t, m) /\ ~(m > 1 /\ SaturationIn(t, m - 1))
    <3>1. m > 1 => m - 1 \in 1 .. n
      BY <1>5
    <3>2. /\ "persistent" \in reported[m] <=> PersistentIn(samples, m) /\ ~(m > 1 /\ PersistentIn(samples, m - 1))
          /\ "saturation" \in reported[m] <=> SaturationIn(samples, m) /\ ~(m > 1 /\ SaturationIn(samples, m - 1))
      BY <1>6 DEF EdgesReported, n
    <3>3. /\ PersistentIn(t, m) <=> PersistentIn(samples, m)
          /\ SaturationIn(t, m) <=> SaturationIn(samples, m)
          /\ m > 1 => (PersistentIn(t, m - 1) <=> PersistentIn(samples, m - 1))
          /\ m > 1 => (SaturationIn(t, m - 1) <=> SaturationIn(samples, m - 1))
      BY <1>8, <3>1
    <3> QED
      BY <1>9, <3>2, <3>3
  <2>2. n > 0 => (run.active <=> PersistentIn(t, n))
    <3> SUFFICES ASSUME n > 0 PROVE run.active <=> PersistentIn(t, n)
      OBVIOUS
    <3>1. n \in Nat \ {0} /\ n <= Len(t)
      BY <1>1, <1>5
    <3> QED
      BY <1>1, <1>11, <3>1, ActiveIsPersistent
  <2>3. run'.active <=> PersistentIn(t, n + 1)
    <3>1. n + 1 \in Nat \ {0} /\ n + 1 <= Len(t)
      BY <1>1, <1>5
    <3> DEFINE r == run'
               k == n + 1
    <3> HIDE DEF r, k
    <3>2. k \in Nat \ {0} /\ k <= Len(t) /\ RunKnown(r, t, k) /\ t \in Seq(AnalyzerSamples) /\ AtRising(t)
      BY <1>1, <1>12, <3>1 DEF r, k
    <3>3. r.active <=> PersistentIn(t, k)
      BY <3>2, ActiveIsPersistent
    <3> QED
      BY <3>3 DEF r, k
  <2>4. "persistent" \in E <=> PersistentIn(t, n + 1) /\ ~(n + 1 > 1 /\ PersistentIn(t, (n + 1) - 1))
    <3>1. (n + 1) - 1 = n /\ (n + 1 > 1 <=> n > 0)
      BY <1>5
    <3>2. run.active \in BOOLEAN /\ run'.active \in BOOLEAN
      BY <1>5, <1>12
    <3>3. "persistent" \in E <=> run'.active /\ ~run.active
      BY <1>4, <1>12
    <3> QED
      BY <1>12, <2>2, <2>3, <3>1, <3>2, <3>3
  <2>5. "saturation" \in E <=> SaturationIn(t, n + 1) /\ ~(n + 1 > 1 /\ SaturationIn(t, (n + 1) - 1))
    <3>1. (n + 1) - 1 = n /\ (n + 1 > 1 <=> n > 0) /\ (n > 0 => n \in 1 .. n)
      BY <1>5
    <3>2. saturation <=> n > 0 /\ SaturationIn(samples, n)
      BY <1>6 DEF SaturationKnown, n
    <3>3. n > 0 => (SaturationIn(t, n) <=> SaturationIn(samples, n))
      BY <1>8, <3>1
    <3> QED
      BY <1>4, <1>13, <3>1, <3>2, <3>3
  <2>6. Len(samples') = n + 1 /\ samples' = t
    BY <1>1, <1>2
  <2> SUFFICES ASSUME NEW m \in 1 .. n + 1
               PROVE  /\ "persistent" \in reported'[m] <=> PersistentIn(t, m) /\ ~(m > 1 /\ PersistentIn(t, m - 1))
                      /\ "saturation" \in reported'[m] <=> SaturationIn(t, m) /\ ~(m > 1 /\ SaturationIn(t, m - 1))
    BY <2>6 DEF EdgesReported
  <2>7. CASE m \in 1 .. n
    BY <2>1, <2>7
  <2>8. CASE m = n + 1
    BY <1>9, <2>4, <2>5, <2>8
  <2> QED
    BY <1>10, <2>7, <2>8
<1>19. /\ Opposed(signRecent') \in Nat /\ Cardinality(OpposedUpTo(t, n + 1)) \in Nat
       /\ Opposed(signRecent') <= Cardinality(OpposedUpTo(t, n + 1))
       /\ Opposed(signRecent') = 0 => \A i \in 1 .. Len(signRecent') : ~signRecent'[i]
  <2> DEFINE r == signRecent'
             k == n + 1
  <2> HIDE DEF r, k
  <2>1. k \in Nat /\ r \in Seq(BOOLEAN) /\ SignsAre(r, t, k)
    BY <1>5, <1>14 DEF r, k
  <2>2. /\ Opposed(r) \in Nat /\ Cardinality(OpposedUpTo(t, k)) \in Nat
        /\ Opposed(r) <= Cardinality(OpposedUpTo(t, k))
        /\ Opposed(r) = 0 => \A i \in 1 .. Len(r) : ~r[i]
    BY <2>1, OpposedCounted
  <2> QED
    BY <2>2 DEF r, k
<1>20. SignCount \in Nat /\ SignCount >= 1 /\ SignMemory \in Nat
  BY AnalyzerAssumption
<1>21. "sign" \in E => Opposed(signRecent') >= SignCount /\ signActive' = TRUE /\ signActive = FALSE
  <2> SUFFICES ASSUME "sign" \in E PROVE Opposed(signRecent') >= SignCount /\ signActive' = TRUE /\ signActive = FALSE
    OBVIOUS
  <2>1. Len(t) >= 2 /\ SignSuspected(signRecent') /\ ~signActive
    BY <1>4
  <2>2. ~(Len(t) < 2)
    BY <1>1, <1>5, <2>1
  <2>3. signActive' = SignLatch(signRecent')
    BY <1>2, <2>2
  <2>4. SignLatch(signRecent') = TRUE
    BY <2>1 DEF SignLatch
  <2>5. Opposed(signRecent') >= SignCount
    BY <2>1 DEF SignSuspected
  <2> QED
    BY <1>5, <2>1, <2>3, <2>4, <2>5
<1>22. SignJustified'
  <2>1. ASSUME NEW m \in 1 .. n, "sign" \in reported'[m] PROVE Cardinality(OpposedUpTo(t, m)) >= SignCount
    <3>1. "sign" \in reported[m]
      BY <1>9, <2>1
    <3>2. Cardinality(OpposedUpTo(samples, m)) >= SignCount
      BY <1>6, <3>1 DEF SignJustified, n
    <3> QED
      BY <1>8, <3>2
  <2>2. "sign" \in reported'[n + 1] => Cardinality(OpposedUpTo(t, n + 1)) >= SignCount
    BY <1>9, <1>19, <1>20, <1>21
  <2>3. Len(samples') = n + 1 /\ samples' = t
    BY <1>1, <1>2
  <2> QED
    BY <1>10, <2>1, <2>2, <2>3 DEF SignJustified
\* The latch falls only when the memory is full and clean.
<1>23. ASSUME NEW m \in 1 .. n, "sign" \in reported[m], signActive = TRUE, signActive' = FALSE
       PROVE  Clean(t, n + 1)
  <2>1. ~(Len(t) < 2) /\ ~SignLatch(signRecent')
    BY <1>2, <1>23
  <2>2. Opposed(signRecent') = 0
    BY <1>19, <1>23, <2>1 DEF SignLatch
  <2> DEFINE r == signRecent'
             L == Len(r)
  <2> HIDE DEF r
  <2>3. \A i \in 1 .. L : ~r[i]
    BY <1>19, <2>2 DEF r
  <2>4. /\ L = IF n + 1 <= 1 THEN 0 ELSE IF (n + 1) - 1 <= SignMemory THEN (n + 1) - 1 ELSE SignMemory
        /\ \A i \in 1 .. L : r[i] <=> Mismatch(t, ((n + 1) - L) + i)
    BY <1>14 DEF SignsAre, r
  <2>5. L = IF n <= SignMemory THEN n ELSE SignMemory
    BY <1>5, <1>20, <2>4
  <2> HIDE DEF L
  <2>6. L \in Nat /\ L <= n
    BY <1>5, <1>20, <2>5
  <2>7. ASSUME NEW k \in (n + 1) - L + 1 .. n + 1 PROVE ~Mismatch(t, k)
    <3> DEFINE i == k - ((n + 1) - L)
    <3>1. i \in 1 .. L /\ ((n + 1) - L) + i = k
      BY <1>5, <2>6
    <3> QED
      BY <2>3, <2>4, <3>1
  <2>8. CASE L = SignMemory
    <3>1. \A k \in (n + 1) - SignMemory + 1 .. n + 1 : k > 1
      BY <1>5, <2>6, <2>8
    <3> QED
      BY <2>7, <2>8, <3>1 DEF Clean
  <2>9. CASE L # SignMemory
    <3>1. L = n
      BY <2>5, <2>9
    <3>2. \A k \in 2 .. n + 1 : ~Mismatch(t, k)
      <4>1. (n + 1) - L + 1 = 2
        BY <1>5, <3>1
      <4> QED
        BY <2>7, <4>1
    <3>3. OpposedUpTo(t, m) = {}
      <4>1. \A k \in 2 .. m : k \in 2 .. n + 1
        BY <1>5
      <4> QED
        BY <3>2, <4>1 DEF OpposedUpTo
    <3>4. Cardinality(OpposedUpTo(t, m)) >= SignCount
      BY <1>6, <1>8, <1>23 DEF SignJustified, n
    <3>5. Cardinality({}) = 0
      BY FS_EmptySet
    <3> QED
      BY <1>20, <3>3, <3>4, <3>5
  <2> QED
    BY <2>8, <2>9
<1>24. SignInForce'
  <2>1. Len(samples') = n + 1 /\ samples' = t
    BY <1>1, <1>2
  <2> SUFFICES ASSUME NEW m \in 1 .. n + 1, "sign" \in reported'[m], ~signActive'
               PROVE  \E e \in m + 1 .. n + 1 : Clean(t, e)
    BY <2>1 DEF SignInForce
  <2>2. m \in 1 .. n /\ "sign" \in reported[m]
    BY <1>9, <1>10, <1>21
  <2>3. signActive \/ \E e \in m + 1 .. n : Clean(samples, e)
    BY <1>6, <2>2 DEF SignInForce, n
  <2>4. CASE signActive
    <3>1. signActive = TRUE /\ signActive' = FALSE
      BY <1>5, <1>15, <2>4
    <3>2. Clean(t, n + 1)
      BY <1>23, <2>2, <3>1
    <3>3. n + 1 \in m + 1 .. n + 1
      BY <1>5, <2>2
    <3> QED
      BY <3>2, <3>3
  <2>5. CASE \E e \in m + 1 .. n : Clean(samples, e)
    <3>1. PICK e \in m + 1 .. n : Clean(samples, e)
      BY <2>5
    <3>2. e \in 1 .. n /\ e \in m + 1 .. n + 1
      BY <1>5
    <3> QED
      BY <1>8, <3>1, <3>2
  <2> QED
    BY <2>3, <2>4, <2>5
<1>25. SignSeparated'
  <2>1. Len(samples') = n + 1 /\ samples' = t
    BY <1>1, <1>2
  <2> SUFFICES ASSUME NEW m \in 1 .. n + 1, NEW k \in 1 .. n + 1, m < k, "sign" \in reported'[m], "sign" \in reported'[k]
               PROVE  \E e \in m + 1 .. k - 1 : Clean(t, e)
    BY <2>1 DEF SignSeparated
  <2>2. m \in 1 .. n /\ "sign" \in reported[m]
    <3>1. m \in 1 .. n
      BY <1>5
    <3> QED
      BY <1>9, <3>1
  <2>3. \E e \in m + 1 .. k - 1 : Clean(samples, e)
    <3>1. CASE k \in 1 .. n
      <4>1. "sign" \in reported[k]
        BY <1>9, <3>1
      <4> QED
        BY <1>6, <2>2, <3>1, <4>1 DEF SignSeparated, n
    <3>2. CASE k = n + 1
      <4>1. ~signActive
        BY <1>9, <1>21, <3>2
      <4>2. \E e \in m + 1 .. n : Clean(samples, e)
        BY <1>6, <2>2, <4>1 DEF SignInForce, n
      <4>3. k - 1 = n
        BY <1>5, <3>2
      <4> QED
        BY <4>2, <4>3
    <3> QED
      BY <1>10, <3>1, <3>2
  <2>4. PICK e \in m + 1 .. k - 1 : Clean(samples, e)
    BY <2>3
  <2>5. e \in 1 .. n
    BY <1>5
  <2> QED
    BY <1>8, <2>4, <2>5
<1>26. OffsetOnce'
  <2>1. Len(samples') = n + 1 /\ samples' = t
    BY <1>1, <1>2
  <2>2. (offsetSeen => offsetSeen') /\ ("offset" \in E => offsetSeen' /\ ~offsetSeen)
    BY <1>2, <1>4, <1>5
  <2>3. \A m \in 1 .. n : "offset" \in reported'[m] => offsetSeen
    BY <1>6, <1>9 DEF OffsetOnce, n
  <2>4. \A m, k \in 1 .. n : "offset" \in reported'[m] /\ "offset" \in reported'[k] => m = k
    BY <1>6, <1>9 DEF OffsetOnce, n
  <2>5. \A m \in 1 .. n + 1 : "offset" \in reported'[m] => offsetSeen'
    BY <1>9, <1>10, <2>2, <2>3
  <2>6. \A m, k \in 1 .. n + 1 : "offset" \in reported'[m] /\ "offset" \in reported'[k] => m = k
    BY <1>9, <1>10, <2>2, <2>3, <2>4
  <2> QED
    BY <2>1, <2>5, <2>6 DEF OffsetOnce
<1> QED
  BY <1>16, <1>17, <1>18, <1>22, <1>24, <1>25, <1>26 DEF AnalyzerInvariant

LEMMA AnalyzerStep ==
  AnalyzerInvariant /\ [AnalyzerNext]_analyzerVars => AnalyzerInvariant'
<1> SUFFICES ASSUME AnalyzerInvariant, [AnalyzerNext]_analyzerVars PROVE AnalyzerInvariant'
  OBVIOUS
<1>1. CASE AnalyzerNext
  <2>1. PICK step \in Steps, l \in LeaderAngles, f \in FollowerAngles :
          Sample(IF samples = <<>> THEN 0 ELSE Last(samples).at + step, l, f)
    BY <1>1 DEF AnalyzerNext
  <2>2. Len(samples) < MaxSamples
    BY <1>1 DEF AnalyzerNext
  <2> QED
    BY <2>1, <2>2, SampleIsKnown
<1>2. CASE UNCHANGED analyzerVars
  BY <1>2 DEF analyzerVars, AnalyzerInvariant, AnalyzerTypes, SaturationKnown, EdgesReported, SignInForce,
              SignSeparated, SignJustified, OffsetOnce
<1> QED
  BY <1>1, <1>2

LEMMA AnalyzerIsHonest ==
  AnalyzerInvariant => AnalyzerHonest /\ AnalyzerTypeOK
<1> SUFFICES ASSUME AnalyzerInvariant PROVE AnalyzerHonest /\ AnalyzerTypeOK
  OBVIOUS
<1>1. samples \in Seq(AnalyzerSamples) /\ DOMAIN samples = 1 .. Len(samples) /\ Len(samples) \in Nat
  BY DEF AnalyzerInvariant, AnalyzerTypes
<1>2. EventsAreEdges
  <2>1. \A n : (PersistentAt(n) <=> PersistentIn(samples, n)) /\ (SaturationAt(n) <=> SaturationIn(samples, n))
    BY DEF PersistentAt, PersistentIn, Apart1, ApartIn, SaturationAt, SaturationIn, Saturates
  <2> QED
    BY <1>1, <2>1 DEF AnalyzerInvariant, EdgesReported, EventsAreEdges
<1>3. SignReportsSeparated
  BY <1>1 DEF AnalyzerInvariant, SignSeparated, SignReportsSeparated, Clean
<1>4. SignReportsJustified
  BY <1>1 DEF AnalyzerInvariant, SignJustified, SignReportsJustified, OpposedUpTo
<1>5. Cardinality({n \in DOMAIN samples : "offset" \in reported[n]}) <= 1
  <2> DEFINE S == {n \in DOMAIN samples : "offset" \in reported[n]}
  <2>1. \A m, n \in S : m = n
    BY <1>1 DEF AnalyzerInvariant, OffsetOnce
  <2> HIDE DEF S
  <2>2. CASE S = {}
    <3>1. Cardinality(S) = 0
      BY <2>2, FS_EmptySet
    <3> QED
      BY <3>1 DEF S
  <2>3. CASE S # {}
    <3>1. PICK m : m \in S
      BY <2>3
    <3>2. S = {m}
      BY <2>1, <3>1
    <3>3. Cardinality(S) = 1
      BY <3>2, FS_Singleton
    <3> QED
      BY <3>3 DEF S
  <2> QED
    BY <2>2, <2>3
<1>6. Len(signRecent) <= SignMemory
  <2> DEFINE n == Len(samples)
  <2>1. Len(signRecent) = IF n <= 1 THEN 0 ELSE IF n - 1 <= SignMemory THEN n - 1 ELSE SignMemory
    BY DEF AnalyzerInvariant, SignsAre
  <2>2. SignMemory \in Nat /\ n \in Nat
    BY <1>1, AnalyzerAssumption
  <2> HIDE DEF n
  <2> QED
    BY <2>1, <2>2
<1>7. AnalyzerTypeOK
  BY <1>6 DEF AnalyzerInvariant, AnalyzerTypes, AnalyzerTypeOK
<1> QED
  BY <1>2, <1>3, <1>4, <1>5, <1>7 DEF AnalyzerHonest

-----------------------------------------------------------------------------
(***************************************************************************)
(* Teleoperation that is measured.                                         *)
(***************************************************************************)
Differences == {<<>>} \cup {<<d>> : d \in Int}
TeleSample ==
  [at : Nat, error : Differences, present : Registers, moved : Differences,
   warnings : SUBSET {"LARGE_COMMAND_DELTA", "POSITION_JUMP"}]

InTheLoop == {"cycle", "send", "measure"}
BeforeIt == {"ports", "connect", "start"}

\* ReadBefore for any samples.
ReadIn(s, start, i) ==
  LET read == {k \in 1 .. i - 1 : s[k].present # NoRead}
  IN  IF read = {} THEN start ELSE s[CHOOSE k \in read : \A m \in read : m <= k].present

TeleopTypes ==
  /\ teleopPhase \in BeforeIt \cup InTheLoop \cup {"close", "over"}
  /\ arms \in [{"leader", "follower"} -> {"closed", "half", "open", "gone"}]
  /\ csvOpen \in BOOLEAN /\ teleopReport \in BOOLEAN
  /\ spoken \in Registers /\ presentStart \in Registers /\ prevPresent \in Registers
  /\ stopReason \in {"none", "DURATION_ELAPSED", "READ_FAILURE", "KEYBOARD_INTERRUPT"}
  /\ sentAll \in Seq(TeleopCommands) /\ teleopSamples \in Seq(TeleSample)

TeleopPhases ==
  /\ teleopPhase = "ports" => ~csvOpen /\ arms.leader = "closed" /\ arms.follower = "closed"
  /\ teleopPhase \in BeforeIt => teleopSamples = <<>> /\ sentAll = <<>>
  /\ teleopPhase \in BeforeIt \cup InTheLoop => stopReason = "none"
  /\ teleopPhase # "over" => ~teleopReport
  /\ teleopPhase \in {"send", "measure"} => spoken \in TeleopCommands
  /\ teleopPhase \in {"cycle", "send"} => Len(sentAll) = Len(teleopSamples)
  /\ teleopPhase = "measure" => Len(sentAll) = Len(teleopSamples) + 1
  /\ teleopPhase \in InTheLoop =>
       prevPresent = ReadIn(teleopSamples, presentStart, Len(teleopSamples) + 1)

SamplesInTime ==
  \A i, k \in 1 .. Len(teleopSamples) : i <= k => teleopSamples[i].at <= teleopSamples[k].at

TeleopInvariant ==
  TeleopTypes /\ TeleopPhases /\ SamplesInTime /\ NothingHeldBack /\ MovementComplete /\ ArmsReleased

LEMMA NothingMeasured ==
  <<>> \in Seq(TeleopCommands) /\ <<>> \in Seq(TeleSample) /\ Len(<<>>) = 0 /\ DOMAIN <<>> = {}
<1> DEFINE A == TeleSample
           B == TeleopCommands
<1> HIDE DEF A, B
<1>1. <<>> \in Seq(A) /\ <<>> \in Seq(B) /\ Len(<<>>) = 0 /\ DOMAIN <<>> = {}
  OBVIOUS
<1> QED
  BY <1>1 DEF A, B

LEMMA TeleopBegins == TeleopInit => TeleopInvariant
<1> SUFFICES ASSUME TeleopInit PROVE TeleopInvariant
  OBVIOUS
<1>1. /\ teleopPhase = "ports" /\ arms = [leader |-> "closed", follower |-> "closed"] /\ csvOpen = FALSE
      /\ spoken = NoRead /\ sentAll = <<>> /\ teleopSamples = <<>>
      /\ presentStart = NoRead /\ prevPresent = NoRead
      /\ stopReason = "none" /\ teleopReport = FALSE
  BY DEF TeleopInit
<1>2. NoRead \in Registers
  BY DEF Registers
<1>3. arms \in [{"leader", "follower"} -> {"closed", "half", "open", "gone"}]
      /\ arms.leader = "closed" /\ arms.follower = "closed"
  BY <1>1
<1>4. TeleopTypes
  BY <1>1, <1>2, <1>3, NothingMeasured DEF TeleopTypes, BeforeIt
<1>5. TeleopPhases
  BY <1>1, <1>3 DEF TeleopPhases, BeforeIt, InTheLoop
<1>6. SamplesInTime /\ NothingHeldBack /\ MovementComplete
  <2>1. Len(sentAll) - Len(teleopSamples) = 0
    BY <1>1, NothingMeasured
  <2>2. DOMAIN teleopSamples = {} /\ 1 .. Len(teleopSamples) = {}
    BY <1>1, NothingMeasured
  <2> QED
    BY <2>1, <2>2 DEF SamplesInTime, NothingHeldBack, MovementComplete
<1>7. ArmsReleased
  BY <1>1 DEF ArmsReleased
<1> QED
  BY <1>4, <1>5, <1>6, <1>7 DEF TeleopInvariant

\* Steps that touch neither samples nor what was sent.
LEMMA SamplesStay ==
  ASSUME TeleopInvariant, UNCHANGED <<sentAll, teleopSamples>>, presentStart' = presentStart \/ teleopSamples = <<>>
  PROVE  SamplesInTime' /\ NothingHeldBack' /\ MovementComplete'
<1>1. SamplesInTime' /\ NothingHeldBack'
  BY DEF TeleopInvariant, SamplesInTime, NothingHeldBack
<1>2. CASE presentStart' = presentStart
  BY <1>1, <1>2 DEF TeleopInvariant, MovementComplete, ReadBefore
<1>3. CASE teleopSamples = <<>>
  <2>1. DOMAIN teleopSamples' = {}
    BY <1>3, NothingMeasured
  <2> QED
    BY <1>1, <2>1 DEF MovementComplete
<1> QED
  BY <1>2, <1>3

LEMMA TeleopOpens ==
  ASSUME TeleopInvariant, PortsChecked \/ Connects
  PROVE  TeleopInvariant'
<1>1. /\ UNCHANGED <<spoken, sentAll, teleopSamples, presentStart, prevPresent, stopReason, teleopReport>>
      /\ teleopPhase \in {"ports", "connect"} /\ teleopPhase' \in {"connect", "start", "close", "over"}
      /\ csvOpen' \in BOOLEAN
      /\ arms' \in [{"leader", "follower"} -> {"closed", "half", "open", "gone"}]
      /\ teleopPhase' = "over" => ~csvOpen' /\ arms'.leader = "closed" /\ arms'.follower = "closed"
  <2>1. arms \in [{"leader", "follower"} -> {"closed", "half", "open", "gone"}] /\ csvOpen \in BOOLEAN
    BY DEF TeleopInvariant, TeleopTypes
  <2>2. CASE PortsChecked
    <3>1. teleopPhase = "ports"
      BY <2>2 DEF PortsChecked
    <3>2. ~csvOpen /\ arms.leader = "closed" /\ arms.follower = "closed"
      BY <3>1 DEF TeleopInvariant, TeleopPhases, BeforeIt
    <3>3. /\ UNCHANGED <<arms, loopVars, stopReason, teleopReport>>
          /\ (teleopPhase' = "over" /\ csvOpen' = csvOpen) \/ (teleopPhase' = "connect" /\ csvOpen' = TRUE)
      BY <2>2 DEF PortsChecked
    <3>4. UNCHANGED <<spoken, sentAll, teleopSamples, presentStart, prevPresent>>
      BY <3>3 DEF loopVars
    <3>5. teleopPhase \in {"ports", "connect"} /\ teleopPhase' \in {"connect", "start", "close", "over"}
      BY <3>1, <3>3
    <3>6. csvOpen' \in BOOLEAN /\ (teleopPhase' = "over" => ~csvOpen')
      <4>1. csvOpen = FALSE
        BY <2>1, <3>2
      <4>2. CASE teleopPhase' = "over" /\ csvOpen' = csvOpen
        BY <4>1, <4>2
      <4>3. CASE teleopPhase' = "connect" /\ csvOpen' = TRUE
        BY <4>3
      <4> QED
        BY <3>3, <4>2, <4>3
    <3>7. arms' = arms /\ UNCHANGED <<stopReason, teleopReport>>
      BY <3>3
    <3>8. arms' \in [{"leader", "follower"} -> {"closed", "half", "open", "gone"}]
      BY <2>1, <3>7
    <3>9. arms'.leader = "closed" /\ arms'.follower = "closed"
      BY <3>2, <3>7
    <3> QED
      BY <3>4, <3>5, <3>6, <3>7, <3>8, <3>9
  <2>3. CASE Connects
    <3>1. NextArm \in {"leader", "follower"}
      BY DEF NextArm
    <3>2. arms' \in [{"leader", "follower"} -> {"closed", "half", "open", "gone"}]
      BY <2>1, <2>3, <3>1 DEF Connects
    <3>3. teleopPhase = "connect" /\ teleopPhase' \in {"connect", "start", "close"}
      BY <2>3 DEF Connects
    <3> QED
      BY <2>1, <2>3, <3>2, <3>3 DEF Connects, loopVars
  <2> QED
    BY <2>2, <2>3
<1>2. /\ stopReason = "none" /\ teleopSamples = <<>> /\ sentAll = <<>> /\ ~teleopReport
  BY <1>1 DEF TeleopInvariant, TeleopPhases, BeforeIt
<1>3. TeleopTypes'
  BY <1>1 DEF TeleopInvariant, TeleopTypes, BeforeIt
<1>4. TeleopPhases'
  BY <1>1, <1>2 DEF TeleopPhases, BeforeIt, InTheLoop
<1>5. SamplesInTime' /\ NothingHeldBack' /\ MovementComplete'
  BY <1>1, SamplesStay
<1>6. ArmsReleased'
  BY <1>1, <1>2 DEF ArmsReleased
<1> QED
  BY <1>3, <1>4, <1>5, <1>6 DEF TeleopInvariant

LEMMA TeleopStarts ==
  ASSUME TeleopInvariant, StartRead
  PROVE  TeleopInvariant'
<1>1. PICK p \in Registers : presentStart' = p /\ prevPresent' = p
  BY DEF StartRead
<1>2. /\ teleopPhase = "start" /\ teleopPhase' = "cycle"
      /\ UNCHANGED <<arms, csvOpen, spoken, sentAll, teleopSamples, stopReason, teleopReport>>
  BY DEF StartRead
<1>3. teleopSamples = <<>> /\ sentAll = <<>> /\ stopReason = "none" /\ ~teleopReport
  BY <1>2 DEF TeleopInvariant, TeleopPhases, BeforeIt
<1>4. TeleopTypes'
  BY <1>1, <1>2 DEF TeleopInvariant, TeleopTypes, InTheLoop
<1>5. ReadIn(teleopSamples', presentStart', Len(teleopSamples') + 1) = p
  <2>1. {k \in 1 .. (0 + 1) - 1 : teleopSamples'[k].present # NoRead} = {}
    OBVIOUS
  <2>2. Len(teleopSamples') = 0
    BY <1>2, <1>3, NothingMeasured
  <2> QED
    BY <1>1, <2>1, <2>2 DEF ReadIn
<1>6. TeleopPhases'
  BY <1>1, <1>2, <1>3, <1>5 DEF TeleopPhases, BeforeIt, InTheLoop
<1>7. SamplesInTime' /\ NothingHeldBack' /\ MovementComplete'
  BY <1>2, <1>3, SamplesStay
<1>8. ArmsReleased'
  BY <1>2 DEF ArmsReleased
<1> QED
  BY <1>4, <1>6, <1>7, <1>8 DEF TeleopInvariant

\* The loop comes to an end, or to a command.
LEMMA TeleopGoesOn ==
  ASSUME TeleopInvariant, TeleopElapses \/ CycleReads \/ TeleopInterrupted
  PROVE  TeleopInvariant'
<1>1. /\ UNCHANGED <<arms, csvOpen, sentAll, teleopSamples, presentStart, prevPresent, teleopReport>>
      /\ teleopPhase \in {"connect", "start"} \cup InTheLoop
      /\ \/ /\ teleopPhase' = "close" /\ spoken' = spoken
            /\ stopReason' \in {"none", "DURATION_ELAPSED", "READ_FAILURE", "KEYBOARD_INTERRUPT"}
         \/ /\ teleopPhase = "cycle" /\ teleopPhase' = "send" /\ spoken' \in TeleopCommands
            /\ stopReason' = stopReason
  <2>1. CASE TeleopElapses
    BY <2>1 DEF TeleopElapses, Stops, loopVars, InTheLoop
  <2>2. CASE CycleReads
    <3>1. CASE Stops("READ_FAILURE")
      BY <2>2, <3>1 DEF CycleReads, Stops, loopVars, InTheLoop
    <3>2. CASE ~Stops("READ_FAILURE")
      BY <2>2, <3>2 DEF CycleReads, InTheLoop
    <3> QED
      BY <3>1, <3>2
  <2>3. CASE TeleopInterrupted
    <3>1. teleopPhase \in {"connect", "start"} \cup InTheLoop
      BY <2>3 DEF TeleopInterrupted, InTheLoop
    <3> QED
      BY <2>3, <3>1 DEF TeleopInterrupted, Stops, loopVars
  <2> QED
    BY <2>1, <2>2, <2>3
<1>2. stopReason = "none" /\ ~teleopReport
  BY <1>1 DEF TeleopInvariant, TeleopPhases, BeforeIt, InTheLoop
<1>3. TeleopTypes'
  <2>1. spoken' \in Registers
    BY <1>1 DEF TeleopInvariant, TeleopTypes, Registers
  <2> QED
    BY <1>1, <1>2, <2>1 DEF TeleopInvariant, TeleopTypes, InTheLoop
<1>4. TeleopPhases'
  <2>1. CASE teleopPhase' = "close"
    BY <1>1, <1>2, <2>1 DEF TeleopPhases, BeforeIt, InTheLoop
  <2>2. CASE teleopPhase = "cycle" /\ teleopPhase' = "send" /\ spoken' \in TeleopCommands
    BY <1>1, <1>2, <2>2 DEF TeleopInvariant, TeleopPhases, BeforeIt, InTheLoop
  <2> QED
    BY <1>1, <2>1, <2>2
<1>5. SamplesInTime' /\ NothingHeldBack' /\ MovementComplete'
  BY <1>1, SamplesStay
<1>6. ArmsReleased'
  BY <1>1 DEF ArmsReleased
<1> QED
  BY <1>3, <1>4, <1>5, <1>6 DEF TeleopInvariant

LEMMA TeleopSends ==
  ASSUME TeleopInvariant, Sends
  PROVE  TeleopInvariant'
<1>1. /\ teleopPhase = "send"
      /\ UNCHANGED <<arms, csvOpen, spoken, teleopSamples, presentStart, prevPresent, teleopReport>>
      /\ \/ sentAll' = sentAll \o <<spoken>> /\ teleopPhase' = "measure" /\ stopReason' = stopReason
         \/ /\ sentAll' \in {sentAll, sentAll \o <<spoken>>}
            /\ teleopPhase' = "close" /\ stopReason' = "READ_FAILURE"
  BY DEF Sends, SentFor
<1>2. /\ spoken \in TeleopCommands /\ Len(sentAll) = Len(teleopSamples) /\ ~teleopReport /\ stopReason = "none"
      /\ prevPresent = ReadIn(teleopSamples, presentStart, Len(teleopSamples) + 1)
  BY <1>1 DEF TeleopInvariant, TeleopPhases, BeforeIt, InTheLoop
<1>3. sentAll \in Seq(TeleopCommands) /\ Len(sentAll) \in Nat
  BY DEF TeleopInvariant, TeleopTypes
<1>4. sentAll \o <<spoken>> \in Seq(TeleopCommands) /\ Len(sentAll \o <<spoken>>) = Len(sentAll) + 1
  <2>1. <<spoken>> \in Seq(TeleopCommands) /\ Len(<<spoken>>) = 1
    BY <1>2
  <2> DEFINE one == <<spoken>>
  <2> HIDE DEF one
  <2>2. sentAll \o one \in Seq(TeleopCommands) /\ Len(sentAll \o one) = Len(sentAll) + Len(one)
    BY <1>3, <2>1, ConcatProperties DEF one
  <2> QED
    BY <2>1, <2>2 DEF one
<1>5. sentAll' \in Seq(TeleopCommands)
      /\ Len(sentAll') \in {Len(teleopSamples), Len(teleopSamples) + 1}
      /\ (teleopPhase' = "measure" => Len(sentAll') = Len(teleopSamples) + 1)
  BY <1>1, <1>2, <1>3, <1>4
<1>6. TeleopTypes'
  BY <1>1, <1>5 DEF TeleopInvariant, TeleopTypes, InTheLoop
<1>7. TeleopPhases'
  BY <1>1, <1>2, <1>5 DEF TeleopPhases, BeforeIt, InTheLoop
<1>8. SamplesInTime' /\ MovementComplete'
  BY <1>1 DEF TeleopInvariant, SamplesInTime, MovementComplete, ReadBefore
<1>9. NothingHeldBack'
  <2>1. Len(teleopSamples) \in Nat
    BY <1>2, <1>3
  <2>2. Len(sentAll') - Len(teleopSamples) \in {0, 1}
    BY <1>5, <2>1
  <2> QED
    BY <1>1, <2>2 DEF NothingHeldBack
<1>10. ArmsReleased'
  BY <1>1 DEF ArmsReleased
<1> QED
  BY <1>6, <1>7, <1>8, <1>9, <1>10 DEF TeleopInvariant

LEMMA DifferenceIs ==
  ASSUME NEW a \in Registers, NEW b \in Registers
  PROVE  Difference(a, b) \in Differences
<1>1. a \in Int /\ b \in Int
  BY TeleopAssumption DEF Registers, NoRead
<1>2. a - b \in Int
  BY <1>1
<1> QED
  BY <1>2 DEF Difference, Differences

\* What was read last, when one more sample is there.
LEMMA ReadOn ==
  ASSUME NEW s \in Seq(TeleSample), NEW x \in TeleSample, NEW start
  PROVE  /\ \A i \in 1 .. Len(s) + 1 : ReadIn(Append(s, x), start, i) = ReadIn(s, start, i)
         /\ ReadIn(Append(s, x), start, Len(s) + 2) =
              IF x.present # NoRead THEN x.present ELSE ReadIn(s, start, Len(s) + 1)
<1> DEFINE t == Append(s, x)
           n == Len(s)
<1>1. n \in Nat /\ t[n + 1] = x /\ \A k \in 1 .. n : t[k] = s[k]
  OBVIOUS
<1> HIDE DEF t, n
<1>2. ASSUME NEW i \in 1 .. n + 1 PROVE ReadIn(t, start, i) = ReadIn(s, start, i)
  <2> DEFINE R == {k \in 1 .. i - 1 : s[k].present # NoRead}
  <2>1. {k \in 1 .. i - 1 : t[k].present # NoRead} = R
    <3>1. \A k \in 1 .. i - 1 : k \in 1 .. n
      BY <1>1
    <3> QED
      BY <1>1, <3>1
  <2>2. CASE R = {}
    BY <2>1, <2>2 DEF ReadIn
  <2>3. CASE R # {}
    <3>1. R \in SUBSET Int /\ i \in Int /\ \A y \in R : y <= i
      BY <1>1
    <3>2. \E k \in R : \A m \in R : m <= k
      BY <2>3, <3>1, GreatestOfInts
    <3> DEFINE last == CHOOSE k \in R : \A m \in R : m <= k
    <3>3. last \in R
      BY <3>2
    <3>4. t[last] = s[last]
      <4>1. last \in 1 .. n
        BY <1>1, <3>3
      <4> HIDE DEF last
      <4> QED
        BY <1>1, <4>1
    <3>5. ReadIn(s, start, i) = s[last].present
      BY <2>3 DEF ReadIn
    <3>6. ReadIn(t, start, i) = t[last].present
      BY <2>1, <2>3 DEF ReadIn
    <3> QED
      BY <3>4, <3>5, <3>6
  <2> QED
    BY <2>2, <2>3
<1>3. n + 1 \in 1 .. n + 1 /\ (n + 2) - 1 = n + 1 /\ (n + 1) - 1 = n
  BY <1>1
<1>4. CASE x.present = NoRead
  <2>1. {k \in 1 .. n + 1 : t[k].present # NoRead} = {k \in 1 .. n : t[k].present # NoRead}
    <3>1. \A k \in 1 .. n + 1 : k \in 1 .. n \/ k = n + 1
      BY <1>1
    <3>2. \A k \in 1 .. n : k \in 1 .. n + 1
      BY <1>1
    <3> QED
      BY <1>1, <1>4, <3>1, <3>2
  <2>2. /\ {k \in 1 .. (n + 2) - 1 : t[k].present # NoRead} = {k \in 1 .. n + 1 : t[k].present # NoRead}
        /\ {k \in 1 .. (n + 1) - 1 : t[k].present # NoRead} = {k \in 1 .. n : t[k].present # NoRead}
    BY <1>3
  <2>3. {k \in 1 .. (n + 2) - 1 : t[k].present # NoRead} = {k \in 1 .. (n + 1) - 1 : t[k].present # NoRead}
    BY <2>1, <2>2
  <2>4. ReadIn(t, start, n + 2) = ReadIn(t, start, n + 1)
    <3> DEFINE A == {k \in 1 .. (n + 2) - 1 : t[k].present # NoRead}
               B == {k \in 1 .. (n + 1) - 1 : t[k].present # NoRead}
    <3>1. /\ ReadIn(t, start, n + 2) = IF A = {} THEN start ELSE t[CHOOSE k \in A : \A m \in A : m <= k].present
          /\ ReadIn(t, start, n + 1) = IF B = {} THEN start ELSE t[CHOOSE k \in B : \A m \in B : m <= k].present
      BY DEF ReadIn
    <3>2. A = B
      BY <2>3
    <3> HIDE DEF A, B
    <3> QED
      BY <3>1, <3>2
  <2> QED
    BY <1>2, <1>3, <1>4, <2>4 DEF t, n
<1>5. CASE x.present # NoRead
  <2> DEFINE R == {k \in 1 .. n + 1 : t[k].present # NoRead}
  <2>1. n + 1 \in R /\ \A m \in R : m <= n + 1
    BY <1>1, <1>3, <1>5
  <2>2. \A k \in R : (\A m \in R : m <= k) => k = n + 1
    BY <1>1, <2>1
  <2>3. (CHOOSE k \in R : \A m \in R : m <= k) = n + 1
    <3> HIDE DEF R
    <3> QED
      BY <2>1, <2>2
  <2>4. ReadIn(t, start, n + 2) = t[n + 1].present
    <3>1. R # {}
      BY <2>1
    <3> QED
      BY <1>3, <2>3, <3>1 DEF ReadIn
  <2> QED
    BY <1>1, <1>2, <1>5, <2>4 DEF t, n
<1> QED
  BY <1>2, <1>4, <1>5 DEF t, n

LEMMA TeleopMeasures ==
  ASSUME TeleopInvariant, Measures
  PROVE  TeleopInvariant'
<1>1. PICK step \in TeleopSteps : \E goal \in {spoken, NoRead}, present \in Registers :
        teleopSamples' = Append(teleopSamples, SampleOf(LastAt + step, goal, present))
  BY DEF Measures
<1>2. PICK goal \in {spoken, NoRead} : \E present \in Registers :
        teleopSamples' = Append(teleopSamples, SampleOf(LastAt + step, goal, present))
  BY <1>1
<1>3. PICK present \in Registers : teleopSamples' = Append(teleopSamples, SampleOf(LastAt + step, goal, present))
  BY <1>2
<1> DEFINE x == SampleOf(LastAt + step, goal, present)
           n == Len(teleopSamples)
<1>4. /\ teleopPhase = "measure" /\ UNCHANGED <<arms, csvOpen, spoken, sentAll, presentStart, stopReason, teleopReport>>
      /\ teleopSamples \in Seq(TeleSample) /\ n \in Nat /\ spoken \in TeleopCommands
      /\ prevPresent \in Registers /\ stopReason = "none" /\ ~teleopReport /\ Len(sentAll) = n + 1
      /\ prevPresent = ReadIn(teleopSamples, presentStart, n + 1)
  BY DEF Measures, TeleopInvariant, TeleopTypes, TeleopPhases, BeforeIt, InTheLoop
<1>5. LastAt \in Nat /\ \A i \in 1 .. n : teleopSamples[i].at <= LastAt
  <2>1. \A i \in 1 .. n : teleopSamples[i] \in TeleSample
    BY <1>4
  <2>2. CASE teleopSamples = <<>>
    <3>1. LastAt = 0 /\ n = 0
      BY <2>2, NothingMeasured DEF LastAt
    <3> QED
      BY <3>1
  <2>3. CASE teleopSamples # <<>>
    <3>1. n \in 1 .. n /\ LastAt = teleopSamples[n].at
      BY <1>4, <2>3 DEF LastAt
    <3>2. LastAt \in Nat
      BY <2>1, <3>1 DEF TeleSample
    <3>3. \A i \in 1 .. n : i <= n
      BY <1>4
    <3>4. \A i \in 1 .. n : teleopSamples[i].at <= teleopSamples[n].at
      BY <3>1, <3>3 DEF TeleopInvariant, SamplesInTime
    <3> QED
      BY <3>1, <3>2, <3>4
  <2> QED
    BY <2>2, <2>3
<1>6. /\ x \in TeleSample /\ x.at = LastAt + step /\ x.present = present
      /\ x.moved = Difference(present, prevPresent) /\ LastAt <= x.at /\ x.at \in Nat
  <2>1. step \in Nat /\ goal \in Registers
    BY <1>4, TeleopAssumption DEF Registers
  <2>2. Difference(goal, present) \in Differences /\ Difference(present, prevPresent) \in Differences
    BY <1>4, <2>1, DifferenceIs
  <2>3. LastAt + step \in Nat /\ LastAt <= LastAt + step
    BY <1>5, <2>1
  <2> DEFINE w == (IF FarFromStart(spoken) THEN {"LARGE_COMMAND_DELTA"} ELSE {})
                    \cup (IF Beyond(Difference(present, prevPresent), MaxJump) THEN {"POSITION_JUMP"} ELSE {})
  <2>4. w \in SUBSET {"LARGE_COMMAND_DELTA", "POSITION_JUMP"}
    OBVIOUS
  <2>5. x = [at |-> LastAt + step, error |-> Difference(goal, present), present |-> present,
             moved |-> Difference(present, prevPresent), warnings |-> w]
    BY DEF SampleOf
  <2> HIDE DEF w, x
  <2> QED
    BY <2>2, <2>3, <2>4, <2>5 DEF TeleSample
<1> HIDE DEF x
<1>7. /\ teleopSamples' = Append(teleopSamples, x) /\ teleopSamples' \in Seq(TeleSample)
      /\ Len(teleopSamples') = n + 1 /\ teleopSamples'[n + 1] = x
      /\ \A i \in 1 .. n : teleopSamples'[i] = teleopSamples[i]
  <2>1. teleopSamples' = Append(teleopSamples, x)
    BY <1>3 DEF x
  <2> QED
    BY <1>4, <1>6, <2>1
<1>8. \/ teleopPhase' = "cycle" /\ prevPresent' = (IF present # NoRead THEN present ELSE prevPresent)
      \/ teleopPhase' = "close" /\ prevPresent' = prevPresent
  <2>1. teleopSamples'[Len(teleopSamples)].present = present \/ TRUE
    OBVIOUS
  <2>2. \/ teleopPhase' = "cycle" /\ prevPresent' = Remembered(teleopSamples'[Len(teleopSamples')].present)
        \/ teleopPhase' = "close" /\ prevPresent' = prevPresent
    BY DEF Measures
  <2>3. teleopSamples'[Len(teleopSamples')].present = present
    BY <1>6, <1>7
  <2> QED
    BY <2>2, <2>3 DEF Remembered
<1>9. /\ \A i \in 1 .. n + 1 : ReadIn(teleopSamples', presentStart, i) = ReadIn(teleopSamples, presentStart, i)
      /\ ReadIn(teleopSamples', presentStart, n + 2) = IF present # NoRead THEN present ELSE prevPresent
  BY <1>4, <1>6, <1>7, ReadOn
<1>10. TeleopTypes'
  BY <1>4, <1>7, <1>8 DEF TeleopInvariant, TeleopTypes, InTheLoop
<1>11. TeleopPhases'
  <2>1. Len(teleopSamples') + 1 = n + 2
    BY <1>4, <1>7
  <2> QED
    BY <1>4, <1>7, <1>8, <1>9, <2>1 DEF TeleopPhases, BeforeIt, InTheLoop
<1>12. SamplesInTime'
  <2> SUFFICES ASSUME NEW i \in 1 .. n + 1, NEW k \in 1 .. n + 1, i <= k
               PROVE  teleopSamples'[i].at <= teleopSamples'[k].at
    BY <1>7 DEF SamplesInTime
  <2>1. CASE k \in 1 .. n
    <3>1. i \in 1 .. n
      BY <1>4, <2>1
    <3> QED
      BY <1>7, <2>1, <3>1 DEF TeleopInvariant, SamplesInTime
  <2>2. CASE k = n + 1 /\ i \in 1 .. n
    <3>1. teleopSamples[i].at <= LastAt /\ teleopSamples[i] \in TeleSample
      BY <1>4, <1>5, <2>2
    <3>2. teleopSamples[i].at \in Nat
      BY <3>1 DEF TeleSample
    <3>3. teleopSamples[i].at <= x.at
      BY <1>5, <1>6, <3>1, <3>2
    <3> QED
      BY <1>7, <2>2, <3>3
  <2>3. CASE k = n + 1 /\ i = n + 1
    BY <1>6, <1>7, <2>3
  <2> QED
    BY <1>4, <2>1, <2>2, <2>3
<1>13. NothingHeldBack'
  <2>1. Len(sentAll') - Len(teleopSamples') = 0
    BY <1>4, <1>7
  <2> QED
    BY <2>1 DEF NothingHeldBack
<1>14. MovementComplete'
  <2>1. DOMAIN teleopSamples' = 1 .. n + 1 /\ DOMAIN teleopSamples = 1 .. n
    BY <1>4, <1>7
  <2>2. \A i \in 1 .. n + 1 : i \in 1 .. n \/ i = n + 1
    BY <1>4
  <2>3. \A i \in 1 .. n : teleopSamples[i].moved =
                            Difference(teleopSamples[i].present, ReadIn(teleopSamples, presentStart, i))
    BY <2>1 DEF TeleopInvariant, MovementComplete, ReadBefore, ReadIn
  <2>4. \A i \in 1 .. n + 1 : teleopSamples'[i].moved =
                                Difference(teleopSamples'[i].present, ReadIn(teleopSamples', presentStart, i))
    <3> HIDE DEF n
    <3>1. ASSUME NEW i \in 1 .. n
          PROVE  teleopSamples'[i].moved =
                   Difference(teleopSamples'[i].present, ReadIn(teleopSamples', presentStart, i))
      BY <1>7, <1>9, <2>3, <1>4
    <3>2. x.moved = Difference(x.present, ReadIn(teleopSamples', presentStart, n + 1))
      <4>1. n + 1 \in 1 .. n + 1
        BY <1>4
      <4> QED
        BY <1>4, <1>6, <1>9, <4>1
    <3> QED
      BY <1>7, <2>2, <3>1, <3>2
  <2> QED
    BY <1>4, <2>1, <2>4 DEF MovementComplete, ReadBefore, ReadIn
<1>15. ArmsReleased'
  BY <1>8 DEF ArmsReleased
<1> QED
  BY <1>10, <1>11, <1>12, <1>13, <1>14, <1>15 DEF TeleopInvariant

LEMMA TeleopCloses ==
  ASSUME TeleopInvariant, Closes
  PROVE  TeleopInvariant'
<1>1. /\ teleopPhase = "close" /\ teleopPhase' = "over" /\ csvOpen' = FALSE /\ teleopReport' = (stopReason # "none")
      /\ UNCHANGED <<spoken, sentAll, teleopSamples, presentStart, prevPresent, stopReason>>
      /\ arms' \in Released(arms)
  BY DEF Closes, loopVars
<1>2. /\ arms' \in [{"leader", "follower"} -> {"closed", "half", "gone"}]
  BY <1>1 DEF Released
<1>3. arms' \in [{"leader", "follower"} -> {"closed", "half", "open", "gone"}]
      /\ "open" \notin {arms'.leader, arms'.follower}
  BY <1>2
<1>4. TeleopTypes'
  BY <1>1, <1>3 DEF TeleopInvariant, TeleopTypes
<1>5. TeleopPhases'
  BY <1>1 DEF TeleopPhases, BeforeIt, InTheLoop
<1>6. SamplesInTime' /\ NothingHeldBack' /\ MovementComplete'
  BY <1>1, SamplesStay
<1>7. ArmsReleased'
  BY <1>1, <1>3 DEF ArmsReleased
<1> QED
  BY <1>4, <1>5, <1>6, <1>7 DEF TeleopInvariant

LEMMA TeleopStep == TeleopInvariant /\ [TeleopNext]_teleopVars => TeleopInvariant'
<1> SUFFICES ASSUME TeleopInvariant, [TeleopNext]_teleopVars PROVE TeleopInvariant'
  OBVIOUS
<1>1. CASE TeleopNext
  BY <1>1, TeleopOpens, TeleopStarts, TeleopGoesOn, TeleopSends, TeleopMeasures, TeleopCloses DEF TeleopNext
<1>2. CASE UNCHANGED teleopVars
  <2>1. UNCHANGED <<teleopPhase, arms, csvOpen, spoken, sentAll, teleopSamples, presentStart, prevPresent,
                    stopReason, teleopReport>>
    BY <1>2 DEF teleopVars
  <2>2. TeleopTypes'
    BY <2>1 DEF TeleopInvariant, TeleopTypes
  <2>3. TeleopPhases'
    BY <2>1 DEF TeleopInvariant, TeleopPhases
  <2>4. SamplesInTime' /\ NothingHeldBack' /\ MovementComplete'
    BY <2>1, SamplesStay
  <2>5. ArmsReleased'
    BY <2>1 DEF TeleopInvariant, ArmsReleased
  <2> QED
    BY <2>2, <2>3, <2>4, <2>5 DEF TeleopInvariant
<1> QED
  BY <1>1, <1>2

-----------------------------------------------------------------------------
\* The search for the end of the lookahead.
InOrderOfTime(s) == \A i, k \in 1 .. Len(s) : i <= k => s[i].at <= s[k].at

\* Where sample i's lookahead ends, without any hint.
EndOf(s, i) == LastWithin(s, i + 1, s[i].at + Lookahead)

LEMMA LastWithinIs ==
  ASSUME NEW s \in Seq(TeleSample), NEW j \in Nat, 1 <= j, NEW until
  PROVE  LET e == LastWithin(s, j, until) IN
         /\ e \in Nat /\ j <= e /\ (e > Len(s) \/ s[e].at > until)
         /\ \A k \in j .. e - 1 : k <= Len(s) /\ ~(s[k].at > until)
         /\ j <= Len(s) + 1 => e <= Len(s) + 1
<1> DEFINE K == {k \in j .. j + Len(s) : k > Len(s) \/ s[k].at > until}
           e == LastWithin(s, j, until)
<1>1. Len(s) \in Nat
  OBVIOUS
<1>2. j + Len(s) \in K /\ K \in SUBSET Nat
  BY <1>1
<1>3. e \in K /\ \A y \in K : e <= y
  BY <1>2, LeastOfNats DEF LastWithin
<1>4. j <= Len(s) + 1 => Len(s) + 1 \in K
  BY <1>1
<1>5. \A k \in j .. e - 1 : k \notin K /\ k \in j .. j + Len(s)
  <2>1. e \in j .. j + Len(s)
    BY <1>3
  <2> HIDE DEF K, e
  <2> QED
    BY <1>1, <1>3, <2>1
<1> HIDE DEF e
<1>6. \A k \in j .. e - 1 : k <= Len(s) /\ ~(s[k].at > until)
  BY <1>1, <1>5
<1>7. e \in Nat /\ j <= e /\ (e > Len(s) \/ s[e].at > until) /\ (j <= Len(s) + 1 => e <= Len(s) + 1)
  BY <1>1, <1>3, <1>4
<1> QED
  BY <1>6, <1>7 DEF e

LEMMA EndOfIs ==
  ASSUME NEW s \in Seq(TeleSample), InOrderOfTime(s), NEW i \in 1 .. Len(s)
  PROVE  /\ EndOf(s, i) \in i + 1 .. Len(s) + 1
         /\ EndOf(s, i) <= Len(s) => s[EndOf(s, i)].at > s[i].at + Lookahead
         /\ \A k \in 1 .. Len(s) : k < EndOf(s, i) => s[k].at <= s[i].at + Lookahead
<1> DEFINE until == s[i].at + Lookahead
           e == EndOf(s, i)
<1>1. Len(s) \in Nat /\ i \in Nat /\ i + 1 \in Nat /\ 1 <= i + 1 /\ i + 1 <= Len(s) + 1 /\ Lookahead \in Nat
  BY TeleopAssumption
<1>2. \A k \in 1 .. Len(s) : s[k].at \in Nat
  <2>1. \A k \in 1 .. Len(s) : s[k] \in TeleSample
    OBVIOUS
  <2> QED
    BY <2>1 DEF TeleSample
<1>3. /\ e \in Nat /\ i + 1 <= e /\ (e > Len(s) \/ s[e].at > until)
      /\ \A k \in i + 1 .. e - 1 : k <= Len(s) /\ ~(s[k].at > until)
      /\ e <= Len(s) + 1
  BY <1>1, LastWithinIs DEF EndOf
<1>4. until \in Nat
  BY <1>1, <1>2
<1> HIDE DEF e
<1>5. ASSUME NEW k \in 1 .. Len(s), k < e PROVE s[k].at <= s[i].at + Lookahead
  <2>1. CASE k <= i
    <3>1. s[k].at <= s[i].at
      BY <2>1 DEF InOrderOfTime
    <3> QED
      BY <1>1, <1>2, <3>1
  <2>2. CASE k > i
    <3>1. k \in i + 1 .. e - 1
      BY <1>1, <1>3, <1>5, <2>2
    <3>2. ~(s[k].at > until)
      BY <1>3, <3>1
    <3> QED
      BY <1>2, <1>4, <3>2
  <2> QED
    BY <1>1, <2>1, <2>2
<1>6. e \in i + 1 .. Len(s) + 1
  BY <1>1, <1>3
<1>7. e <= Len(s) => s[e].at > s[i].at + Lookahead
  BY <1>1, <1>3
<1> QED
  BY <1>5, <1>6, <1>7 DEF e

\* A later sample's lookahead does not end earlier.
LEMMA EndsGrow ==
  ASSUME NEW s \in Seq(TeleSample), InOrderOfTime(s), NEW i \in 1 .. Len(s), NEW k \in 1 .. Len(s), i <= k
  PROVE  EndOf(s, i) <= EndOf(s, k)
<1> DEFINE a == EndOf(s, i)
           b == EndOf(s, k)
<1>1. /\ a \in i + 1 .. Len(s) + 1 /\ b \in k + 1 .. Len(s) + 1 /\ Len(s) \in Nat
      /\ \A j \in 1 .. Len(s) : j < a => s[j].at <= s[i].at + Lookahead
      /\ b <= Len(s) => s[b].at > s[k].at + Lookahead
  BY EndOfIs
<1>2. s[i].at <= s[k].at /\ s[i].at \in Nat /\ s[k].at \in Nat /\ Lookahead \in Nat
  <2>1. s[i] \in TeleSample /\ s[k] \in TeleSample
    OBVIOUS
  <2> QED
    BY <2>1, TeleopAssumption DEF InOrderOfTime, TeleSample
<1> HIDE DEF a, b
<1>3. ASSUME b < a PROVE FALSE
  <2>1. b \in 1 .. Len(s)
    BY <1>1, <1>3
  <2>2. s[b].at <= s[i].at + Lookahead /\ s[b].at > s[k].at + Lookahead
    BY <1>1, <1>3, <2>1
  <2>3. s[b] \in TeleSample
    BY <2>1
  <2>4. s[b].at \in Nat
    BY <2>3 DEF TeleSample
  <2> QED
    BY <1>2, <2>2, <2>4
<1>4. a \in Int /\ b \in Int
  BY <1>1
<1>5. a <= b
  BY <1>3, <1>4
<1> QED
  BY <1>5 DEF a, b

\* From any hint that is not behind the end, the search ends there.
LEMMA HintIsHarmless ==
  ASSUME NEW s \in Seq(TeleSample), InOrderOfTime(s), NEW i \in 1 .. Len(s),
         NEW hint \in Nat, hint <= EndOf(s, i)
  PROVE  EndHint(s, i, hint) = EndOf(s, i)
<1> DEFINE e == EndOf(s, i)
           until == s[i].at + Lookahead
           j == Hinted(s, i, hint)
           f == LastWithin(s, j, until)
<1>1. Len(s) \in Nat /\ i \in Nat /\ e \in i + 1 .. Len(s) + 1
      /\ (e <= Len(s) => s[e].at > until)
      /\ \A k \in 1 .. Len(s) : k < e => s[k].at <= until
  BY EndOfIs
<1>2. j \in {hint, i + 1} /\ hint <= j /\ i + 1 <= j
  <2>1. {hint, i + 1} \in SUBSET Int /\ {hint, i + 1} # {} /\ hint + i + 1 \in Int
        /\ \A y \in {hint, i + 1} : y <= hint + i + 1
    BY <1>1
  <2>2. Max({hint, i + 1}) \in {hint, i + 1} /\ \A y \in {hint, i + 1} : y <= Max({hint, i + 1})
    BY <2>1, GreatestOfInts
  <2> QED
    BY <2>2 DEF Hinted
<1> HIDE DEF j, e
<1>3. j \in Nat /\ 1 <= j /\ j <= e /\ j <= Len(s) + 1
  BY <1>1, <1>2 DEF e
<1>4. /\ f \in Nat /\ j <= f /\ (f > Len(s) \/ s[f].at > until)
      /\ \A k \in j .. f - 1 : k <= Len(s) /\ ~(s[k].at > until)
      /\ f <= Len(s) + 1
  BY <1>3, LastWithinIs
<1> HIDE DEF f
<1>5. \A k \in 1 .. Len(s) : s[k].at \in Nat
  <2>1. \A k \in 1 .. Len(s) : s[k] \in TeleSample
    OBVIOUS
  <2> QED
    BY <2>1 DEF TeleSample
<1>6. until \in Nat
  BY <1>5, TeleopAssumption
<1> HIDE DEF until
<1>7. ~(f < e)
  <2> SUFFICES ASSUME f < e PROVE FALSE
    OBVIOUS
  <2>1. f \in 1 .. Len(s)
    BY <1>1, <1>3, <1>4
  <2>2. s[f].at <= until /\ s[f].at \in Nat
    BY <1>1, <1>5, <2>1
  <2>3. ~(f > Len(s))
    BY <1>1, <2>1
  <2> QED
    BY <1>4, <1>6, <2>2, <2>3
<1>8. ~(e < f)
  <2> SUFFICES ASSUME e < f PROVE FALSE
    OBVIOUS
  <2>1. e \in j .. f - 1
    BY <1>1, <1>3, <1>4
  <2>2. e <= Len(s) /\ ~(s[e].at > until)
    BY <1>4, <2>1
  <2> QED
    BY <1>1, <2>2
<1>9. f = e
  BY <1>1, <1>4, <1>7, <1>8
<1> QED
  BY <1>9 DEF EndHint, f, e, j, until

\* The hints over the samples: there is one series, and none is behind the end.
HintBody(s, skipped, hint, k) ==
  IF k = 0 THEN 1 ELSE IF k \in skipped THEN hint[k - 1] ELSE EndHint(s, k, hint[k - 1])

LEMMA HintsExist ==
  ASSUME NEW s, NEW skipped, NEW i \in Nat
  PROVE  \E h : h = [k \in 0 .. i |-> HintBody(s, skipped, h, k)]
<1> DEFINE Good(m, h) == h = [k \in 0 .. m |-> HintBody(s, skipped, h, k)]
           Bad == {m \in Nat : ~(\E h : Good(m, h))}
<1> SUFFICES ASSUME Bad # {} PROVE FALSE
  OBVIOUS
<1> DEFINE m == Min(Bad)
<1>1. m \in Bad /\ \A y \in Bad : m <= y
  BY LeastOfNats
<1>2. m \in Nat /\ ~(\E h : Good(m, h))
  BY <1>1
<1>3. m # 0
  <2> SUFFICES ASSUME m = 0 PROVE FALSE
    OBVIOUS
  <2> DEFINE h0 == [k \in 0 .. 0 |-> 1]
  <2>1. 0 .. 0 = {0}
    OBVIOUS
  <2>2. \A k \in 0 .. 0 : HintBody(s, skipped, h0, k) = 1
    BY <2>1 DEF HintBody
  <2>3. h0 = [k \in 0 .. 0 |-> HintBody(s, skipped, h0, k)]
    BY <2>2
  <2>4. Good(0, h0)
    BY <2>3
  <2> QED
    BY <1>2, <2>4
<1>4. m - 1 \in Nat /\ m - 1 \notin Bad
  <2> HIDE DEF Bad, m
  <2> QED
    BY <1>1, <1>2, <1>3
<1>5. PICK h : Good(m - 1, h)
  BY <1>4
<1> DEFINE g == [k \in 0 .. m |-> IF k = m THEN HintBody(s, skipped, h, m) ELSE h[k]]
<1> HIDE DEF m
<1>6. DOMAIN h = 0 .. m - 1 /\ \A k \in 0 .. m - 1 : h[k] = HintBody(s, skipped, h, k)
  BY <1>5
<1>7. \A k \in 0 .. m - 1 : g[k] = h[k]
  BY <1>2
<1>8. \A k \in 0 .. m : HintBody(s, skipped, g, k) = HintBody(s, skipped, h, k)
  <2> SUFFICES ASSUME NEW k \in 0 .. m PROVE HintBody(s, skipped, g, k) = HintBody(s, skipped, h, k)
    OBVIOUS
  <2>1. CASE k = 0
    BY <2>1 DEF HintBody
  <2>2. CASE k # 0
    <3>1. k - 1 \in 0 .. m - 1
      BY <1>2, <2>2
    <3>2. g[k - 1] = h[k - 1]
      BY <1>7, <3>1
    <3> HIDE DEF g
    <3> QED
      BY <3>2 DEF HintBody
  <2> QED
    BY <2>1, <2>2
<1>9. \A k \in 0 .. m : g[k] = HintBody(s, skipped, g, k)
  <2> SUFFICES ASSUME NEW k \in 0 .. m PROVE g[k] = HintBody(s, skipped, g, k)
    OBVIOUS
  <2>1. CASE k = m
    BY <1>8, <2>1
  <2>2. CASE k # m
    <3>1. k \in 0 .. m - 1
      BY <1>2, <2>2
    <3> QED
      BY <1>6, <1>7, <1>8, <3>1
  <2> QED
    BY <2>1, <2>2
<1>10. g = [k \in 0 .. m |-> HintBody(s, skipped, g, k)]
  <2>1. g = [k \in 0 .. m |-> g[k]]
    OBVIOUS
  <2> HIDE DEF g
  <2> QED
    BY <1>9, <2>1
<1>11. Good(m, g)
  BY <1>10
<1> QED
  BY <1>2, <1>11

LEMMA HintAtIs ==
  ASSUME NEW s \in Seq(TeleSample), InOrderOfTime(s), NEW i \in 1 .. Len(s), NEW skipped
  PROVE  HintAt(s, i, skipped) \in Nat /\ HintAt(s, i, skipped) <= EndOf(s, i)
<1> DEFINE hint == CHOOSE h : h = [k \in 0 .. i |-> IF k = 0 THEN 1 ELSE IF k \in skipped THEN h[k - 1]
                                                    ELSE EndHint(s, k, h[k - 1])]
<1>1. i \in Nat /\ i >= 1 /\ i <= Len(s) /\ Len(s) \in Nat
  OBVIOUS
<1>2. hint = [k \in 0 .. i |-> IF k = 0 THEN 1 ELSE IF k \in skipped THEN hint[k - 1]
                                ELSE EndHint(s, k, hint[k - 1])]
  <2>1. \E h : h = [k \in 0 .. i |-> IF k = 0 THEN 1 ELSE IF k \in skipped THEN h[k - 1]
                                      ELSE EndHint(s, k, h[k - 1])]
    <3>1. PICK h : h = [k \in 0 .. i |-> HintBody(s, skipped, h, k)]
      BY <1>1, HintsExist
    <3>2. \A k \in 0 .. i : HintBody(s, skipped, h, k)
                            = IF k = 0 THEN 1 ELSE IF k \in skipped THEN h[k - 1] ELSE EndHint(s, k, h[k - 1])
      BY DEF HintBody
    <3>3. [k \in 0 .. i |-> HintBody(s, skipped, h, k)]
           = [k \in 0 .. i |-> IF k = 0 THEN 1 ELSE IF k \in skipped THEN h[k - 1] ELSE EndHint(s, k, h[k - 1])]
      BY <3>2
    <3> QED
      BY <3>1, <3>3
  <2> QED
    BY <2>1
<1>3. HintAt(s, i, skipped) = hint[i - 1]
  BY DEF HintAt
<1> HIDE DEF hint
<1>4. hint[0] = 1 /\ \A k \in 1 .. i : hint[k] = IF k \in skipped THEN hint[k - 1] ELSE EndHint(s, k, hint[k - 1])
  <2>1. 0 \in 0 .. i /\ \A k \in 1 .. i : k \in 0 .. i /\ k # 0
    BY <1>1
  <2> QED
    BY <1>2, <2>1
<1>5. \A k \in 1 .. i : EndOf(s, k) \in Nat /\ 1 <= EndOf(s, k)
  <2> SUFFICES ASSUME NEW k \in 1 .. i PROVE EndOf(s, k) \in Nat /\ 1 <= EndOf(s, k)
    OBVIOUS
  <2>1. k \in 1 .. Len(s)
    BY <1>1
  <2>2. EndOf(s, k) \in k + 1 .. Len(s) + 1
    BY <2>1, EndOfIs
  <2> QED
    BY <1>1, <2>2
<1> DEFINE Fine(k) == hint[k] \in Nat /\ hint[k] <= EndOf(s, k + 1)
           Bad == {k \in 0 .. i - 1 : ~Fine(k)}
<1>6. Bad = {}
  <2> SUFFICES ASSUME Bad # {} PROVE FALSE
    OBVIOUS
  <2> DEFINE m == Min(Bad)
  <2>1. Bad \in SUBSET Nat
    BY <1>1
  <2>2. m \in Bad /\ \A y \in Bad : m <= y
    BY <2>1, LeastOfNats
  <2>3. m \in 0 .. i - 1 /\ ~Fine(m) /\ m + 1 \in 1 .. i
    BY <1>1, <2>2
  <2>4. m # 0
    <3> SUFFICES ASSUME m = 0 PROVE FALSE
      OBVIOUS
    <3>1. 1 \in 1 .. i /\ 0 + 1 = 1
      BY <1>1
    <3>2. Fine(0)
      BY <1>4, <1>5, <3>1
    <3> QED
      BY <2>3, <3>2
  <2>5. m - 1 \in 0 .. i - 1 /\ m \in 1 .. i /\ (m - 1) + 1 = m /\ m - 1 < m
    BY <1>1, <2>3, <2>4
  <2>6. Fine(m - 1)
    <3> HIDE DEF Fine, m
    <3>1. m - 1 \notin Bad
      <4> HIDE DEF Bad
      <4>1. ~(m <= m - 1)
        BY <2>5
      <4> QED
        BY <2>2, <4>1
    <3> QED
      BY <2>5, <3>1
  <2> HIDE DEF m
  <2>7. hint[m - 1] \in Nat /\ hint[m - 1] <= EndOf(s, m)
    BY <2>5, <2>6
  <2>8. m \in 1 .. Len(s) /\ m + 1 \in 1 .. Len(s) /\ m <= m + 1
    BY <1>1, <2>3, <2>5
  <2>9. EndOf(s, m) <= EndOf(s, m + 1)
    BY <2>8, EndsGrow
  <2>10. EndHint(s, m, hint[m - 1]) = EndOf(s, m)
    BY <2>7, <2>8, HintIsHarmless
  <2>11. hint[m] \in {hint[m - 1], EndOf(s, m)}
    BY <1>4, <2>5, <2>10
  <2>12. EndOf(s, m) \in Nat /\ EndOf(s, m + 1) \in Nat
    BY <1>5, <2>3, <2>5
  <2>13. hint[m] \in Nat /\ hint[m] <= EndOf(s, m + 1)
    BY <2>7, <2>9, <2>11, <2>12
  <2> QED
    BY <2>3, <2>13
<1>7. i - 1 \in 0 .. i - 1 /\ (i - 1) + 1 = i
  BY <1>1
<1>8. Fine(i - 1)
  <2> HIDE DEF Fine
  <2> QED
    BY <1>6, <1>7
<1> QED
  BY <1>3, <1>7, <1>8

LEMMA EndIndexIs ==
  ASSUME NEW s \in Seq(TeleSample), InOrderOfTime(s), NEW i \in 1 .. Len(s), NEW skipped
  PROVE  EndIndex(s, i, skipped) = EndOf(s, i) - 1
BY HintAtIs, HintIsHarmless DEF EndIndex

LEMMA LastInTimeIs ==
  ASSUME NEW s \in Seq(TeleSample), InOrderOfTime(s), NEW i \in 1 .. Len(s)
  PROVE  LastInTime(s, i) = EndOf(s, i) - 1
<1> DEFINE e == EndOf(s, i) - 1
           until == s[i].at + Lookahead
           IsLast(x) == /\ s[x].at <= until
                        /\ \A k \in DOMAIN s : s[k].at <= until => k <= x
<1>1. /\ Len(s) \in Nat /\ DOMAIN s = 1 .. Len(s) /\ EndOf(s, i) \in i + 1 .. Len(s) + 1
      /\ EndOf(s, i) <= Len(s) => s[EndOf(s, i)].at > until
      /\ \A k \in 1 .. Len(s) : k < EndOf(s, i) => s[k].at <= until
  <2>1. /\ EndOf(s, i) \in i + 1 .. Len(s) + 1
        /\ EndOf(s, i) <= Len(s) => s[EndOf(s, i)].at > s[i].at + Lookahead
        /\ \A k \in 1 .. Len(s) : k < EndOf(s, i) => s[k].at <= s[i].at + Lookahead
    BY EndOfIs
  <2>2. Len(s) \in Nat /\ DOMAIN s = 1 .. Len(s)
    OBVIOUS
  <2> QED
    BY <2>1, <2>2
<1>2. e \in 1 .. Len(s) /\ e < EndOf(s, i)
  BY <1>1
<1>3. s[e].at <= until
  BY <1>1, <1>2
<1>4. ASSUME NEW k \in 1 .. Len(s), s[k].at <= until PROVE k <= e
  <2> SUFFICES ASSUME EndOf(s, i) <= k PROVE FALSE
    BY <1>1
  <2>1. EndOf(s, i) \in 1 .. Len(s) /\ EndOf(s, i) <= Len(s)
    BY <1>1
  <2>2. s[EndOf(s, i)].at > until /\ s[EndOf(s, i)].at <= s[k].at
    BY <1>1, <2>1 DEF InOrderOfTime
  <2>3. s[k] \in TeleSample /\ s[EndOf(s, i)] \in TeleSample /\ s[i] \in TeleSample
    BY <2>1
  <2>4. /\ s[k].at \in Nat /\ s[EndOf(s, i)].at \in Nat /\ s[i].at \in Nat
        /\ Lookahead \in Nat
    <3>1. \A t \in TeleSample : t.at \in Nat
      BY DEF TeleSample
    <3> QED
      BY <2>3, <3>1, TeleopAssumption
  <2>5. until \in Nat
    BY <2>4
  <2> HIDE DEF until
  <2> QED
    BY <1>4, <2>2, <2>4, <2>5
<1>5. IsLast(e)
  BY <1>1, <1>3, <1>4
<1>6. ASSUME NEW x \in DOMAIN s, IsLast(x) PROVE x = e
  <2>1. x <= e /\ e <= x
    BY <1>1, <1>2, <1>3, <1>4, <1>6
  <2>2. x \in Int /\ e \in Int
    BY <1>1, <1>2
  <2> HIDE DEF e
  <2> QED
    BY <2>1, <2>2
<1>7. LastInTime(s, i) = CHOOSE x \in DOMAIN s : IsLast(x)
  BY DEF LastInTime
<1>8. e \in DOMAIN s
  BY <1>1, <1>2
<1> HIDE DEF IsLast, e
<1>9. (CHOOSE x \in DOMAIN s : IsLast(x)) = e
  BY <1>5, <1>6, <1>8
<1> QED
  BY <1>7, <1>9 DEF e

LEMMA TeleopIsSafe == TeleopInvariant => TeleopSafe /\ TeleopTypeOK
<1> SUFFICES ASSUME TeleopInvariant PROVE TeleopSafe /\ TeleopTypeOK
  OBVIOUS
<1> DEFINE s == teleopSamples
<1>1. s \in Seq(TeleSample) /\ InOrderOfTime(s) /\ DOMAIN s = 1 .. Len(s) /\ Len(s) \in Nat
  BY DEF TeleopInvariant, TeleopTypes, SamplesInTime, InOrderOfTime
<1>2. \A i \in DOMAIN s : \A skipped : EndIndex(s, i, skipped) = EndOf(s, i) - 1
  BY <1>1, EndIndexIs
<1>3. EndsFound
  <2>1. \A i \in DOMAIN s : LastInTime(s, i) = EndOf(s, i) - 1
    BY <1>1, LastInTimeIs
  <2> QED
    BY <1>2, <2>1 DEF EndsFound
<1>4. OnsetsAreResponses
  <2> SUFFICES ASSUME NEW i \in Onsets(s)
               PROVE  /\ DeadbandLabels(s)[i] = "RESPONSE"
                      /\ \A k \in i - Stationary .. i - 1 : Quiet(Difference(s[k].present, ReadBefore(k)))
    BY DEF OnsetsAreResponses
  <2>1. i \in DOMAIN s /\ NewError(s, i) /\ OnsetLabel(s, i) = "RESPONSE"
    BY DEF Onsets
  <2>2. i \in DOMAIN s \ Unreadable(s)
    BY <2>1 DEF NewError, Unreadable
  <2>3. DeadbandLabels(s)[i] = LabelTo(s, i, EndIndex(s, i, Unreadable(s)))
    BY <2>2 DEF DeadbandLabels
  <2>4. OnsetLabel(s, i) = LabelTo(s, i, EndOf(s, i) - 1)
    BY <1>2, <2>1 DEF OnsetLabel
  <2>5. DeadbandLabels(s)[i] = "RESPONSE"
    BY <1>2, <2>1, <2>3, <2>4
  <2>6. ASSUME NEW k \in i - Stationary .. i - 1 PROVE Quiet(Difference(s[k].present, ReadBefore(k)))
    <3>1. i > Stationary /\ Stationary \in Nat /\ Stationary >= 1 /\ i \in 1 .. Len(s)
      BY <1>1, <2>1, TeleopAssumption DEF NewError
    <3>2. k \in 1 .. Len(s)
      BY <1>1, <3>1
    <3>3. Quiet(s[k].moved)
      BY <2>1 DEF NewError
    <3>4. s[k].moved = Difference(s[k].present, ReadBefore(k))
      BY <1>1, <3>2 DEF TeleopInvariant, MovementComplete
    <3> QED
      BY <3>3, <3>4
  <2> QED
    BY <2>5, <2>6
<1>5. TeleopTypeOK
  BY DEF TeleopInvariant, TeleopTypes, TeleopTypeOK, BeforeIt, InTheLoop
<1> QED
  BY <1>3, <1>4, <1>5 DEF TeleopSafe, TeleopInvariant

-----------------------------------------------------------------------------
(***************************************************************************)
(* Leader and follower watched together.                                   *)
(***************************************************************************)
Watch == [leader : ShtAngles, present : ShtAngles, accelAge : Int]
Before == {"ports", "leader", "follower"}
Sampling == {"sampling", "row"}

ShtTypes ==
  /\ shtAt \in Before \cup Sampling \cup {"closing", "over"}
  /\ guarded \in BOOLEAN
  /\ ports \in [{"leader", "follower"} -> {"closed", "half", "open"}]
  /\ watched \in Seq(Watch)
  /\ csvRows \in Nat /\ shtTime \in Nat /\ accelAt \in Int
  /\ stopped \in {"none", "duration_elapsed", "read_error", "keyboard_interrupt",
                  "follower_moved_unexpectedly"}
  /\ shtExit \in {"none", "refused", "failed", "done"}

\* A row takes at least one unit of time, and no sample is begun at the end of it.
SamplesFit ==
  /\ Len(watched) <= ShtDuration /\ -1 <= accelAt /\ accelAt <= ShtDuration
  /\ shtAt \in Before => watched = <<>> /\ csvRows = 0
  /\ shtAt \in Sampling => csvRows <= shtTime
  /\ shtAt = "sampling" => csvRows = Len(watched)
  /\ shtAt = "row" => csvRows + 1 = Len(watched) /\ shtTime < ShtDuration

RowsFollow ==
  /\ csvRows \in {Len(watched), Len(watched) - 1}
  /\ csvRows < Len(watched) => shtAt = "row" \/ stopped = "keyboard_interrupt"
  /\ \A i \in 1 .. Len(watched) : watched[i].accelAge < AccelEvery \/ watched[i].accelAge = 0

\* The guard looks at each sample before the next one is taken.
GuardHolds ==
  /\ shtAt \in Before \cup Sampling => stopped = "none" /\ shtExit = "none"
  /\ shtAt = "closing" => shtExit \in {"none", "failed"}
  /\ guarded =>
       /\ \A i \in 1 .. Len(watched) - 1 : ~Drifted(i)
       /\ shtAt = "sampling" \/ stopped = "duration_elapsed" =>
            \A i \in 1 .. Len(watched) : ~Drifted(i)
  /\ stopped = "follower_moved_unexpectedly" =>
       /\ Len(watched) >= 1 /\ Drifted(Len(watched)) /\ csvRows = Len(watched)
       /\ shtExit # "done"

ShtInvariant == ShtTypes /\ SamplesFit /\ RowsFollow /\ GuardHolds

\* The sample the guard looks at is the last one.
LEMMA GuardSees ==
  ASSUME ShtTypes, Len(watched) >= 1
  PROVE  MovedBy(watched[Len(watched)]) > AbortAt <=> Drifted(Len(watched))
<1>1. watched[1] \in Watch /\ watched[Len(watched)] \in Watch
  BY DEF ShtTypes
<1>2. watched[1].present \in Int /\ watched[Len(watched)].present \in Int
  BY <1>1, ShtAssumption DEF Watch
<1>3. AbortAt \in Nat
  BY ShtAssumption
<1> QED
  BY <1>2, <1>3 DEF MovedBy, Drifted

LEMMA ShtBegins == ShtInit => ShtInvariant
BY ShtAssumption DEF ShtInit, ShtInvariant, ShtTypes, SamplesFit, RowsFollow, GuardHolds, Before, Sampling

\* What only the phase, the exit and the reason change.
LEMMA ShtStep == ShtInvariant /\ [ShtNext]_shtVars => ShtInvariant'
<1> SUFFICES ASSUME ShtInvariant, [ShtNext]_shtVars PROVE ShtInvariant'
  OBVIOUS
<1> USE DEF Before, Sampling
<1>0. ShtDuration \in Nat /\ AccelEvery \in Nat /\ AbortAt \in Nat
  BY ShtAssumption
<1>1. CASE CheckPorts
  BY <1>1 DEF CheckPorts, ShtInvariant, ShtTypes, SamplesFit, RowsFollow, GuardHolds, Drifted
<1>2. CASE ConnectLeader
  BY <1>2 DEF ConnectLeader, ArmConnects, ShtInvariant, ShtTypes, SamplesFit, RowsFollow, GuardHolds, Drifted
<1>3. CASE ConnectFollower
  BY <1>3 DEF ConnectFollower, ArmConnects, ShtInvariant, ShtTypes, SamplesFit, RowsFollow, GuardHolds, Drifted
<1>4. CASE SamplingEnds
  BY <1>4 DEF SamplingEnds, ShtStops, ShtInvariant, ShtTypes, SamplesFit, RowsFollow, GuardHolds, Drifted
<1>5. CASE ReadFails
  BY <1>5 DEF ReadFails, ShtStops, ShtInvariant, ShtTypes, SamplesFit, RowsFollow, GuardHolds, Drifted
<1>6. CASE SamplingInterrupted
  BY <1>6 DEF SamplingInterrupted, ShtStops, ShtInvariant, ShtTypes, SamplesFit, RowsFollow, GuardHolds, Drifted
<1>7. CASE TakeSample
  <2> DEFINE refreshed == IF accelAt = -1 \/ shtTime - accelAt >= AccelEvery THEN shtTime ELSE accelAt
  <2>1. PICK leader \in ShtAngles, present \in ShtAngles :
          watched' = Append(watched, [leader |-> leader, present |-> present, accelAge |-> shtTime - refreshed])
    BY <1>7 DEF TakeSample
  <2>2. /\ shtAt = "sampling" /\ shtTime < ShtDuration /\ shtAt' = "row" /\ accelAt' = refreshed
        /\ UNCHANGED <<guarded, ports, csvRows, shtTime, stopped, shtExit>>
    BY <1>7 DEF TakeSample
  <2> DEFINE new == [leader |-> leader, present |-> present, accelAge |-> shtTime - refreshed]
  <2>3. refreshed \in Int /\ -1 <= refreshed /\ refreshed <= ShtDuration
        /\ (shtTime - refreshed < AccelEvery \/ shtTime - refreshed = 0)
    BY <1>0, <2>2 DEF ShtInvariant, ShtTypes, SamplesFit
  <2>4. new \in Watch
    BY <2>3 DEF Watch, ShtInvariant, ShtTypes
  <2>5. new.accelAge = shtTime - refreshed
    OBVIOUS
  <2> HIDE DEF refreshed, new
  <2>6. /\ watched' \in Seq(Watch) /\ Len(watched') = Len(watched) + 1
        /\ \A i \in 1 .. Len(watched) : watched'[i] = watched[i]
        /\ watched'[Len(watched) + 1] = new
    BY <2>1, <2>4 DEF ShtInvariant, ShtTypes, new
  <2>7. Len(watched) \in Nat
    BY DEF ShtInvariant, ShtTypes
  <2>8. ShtTypes' /\ SamplesFit'
    BY <1>0, <2>2, <2>3, <2>6, <2>7 DEF ShtInvariant, ShtTypes, SamplesFit
  <2>9. RowsFollow'
    BY <1>0, <2>2, <2>3, <2>5, <2>6, <2>7 DEF ShtInvariant, ShtTypes, SamplesFit, RowsFollow
  <2>10. GuardHolds'
    <3>1. \A i \in 1 .. Len(watched) : Drifted(i)' = Drifted(i)
      BY <2>6, <2>7 DEF Drifted
    <3> QED
      BY <2>2, <2>6, <2>7, <3>1 DEF ShtInvariant, GuardHolds
  <2> QED
    BY <2>8, <2>9, <2>10 DEF ShtInvariant
<1>8. CASE WriteRow
  <2>1. /\ shtAt = "row" /\ csvRows' = csvRows + 1 /\ csvRows' = Len(watched)
        /\ Len(watched) >= 1 /\ Len(watched) \in Nat
        /\ UNCHANGED <<guarded, ports, watched, accelAt, shtExit>>
    BY <1>8 DEF WriteRow, ShtInvariant, ShtTypes, SamplesFit
  <2>2. PICK passes \in 1 .. 2 : shtTime' = shtTime + passes
    BY <1>8 DEF WriteRow
  <2>3. \A i \in 1 .. Len(watched) : Drifted(i)' = Drifted(i)
    BY <2>1 DEF Drifted
  <2>4. CASE guarded /\ Drifted(Len(watched))
    <3>1. shtAt' = "closing" /\ stopped' = "follower_moved_unexpectedly"
      BY <1>8, <2>1, <2>4, GuardSees DEF WriteRow, ShtStops, ShtInvariant
    <3> QED
      BY <1>0, <2>1, <2>2, <2>3, <2>4, <3>1
         DEF ShtInvariant, ShtTypes, SamplesFit, RowsFollow, GuardHolds
  <2>5. CASE ~(guarded /\ Drifted(Len(watched)))
    <3>1. shtAt' = "sampling" /\ stopped' = stopped
      BY <1>8, <2>1, <2>5, GuardSees DEF WriteRow, ShtStops, ShtInvariant
    <3>2. guarded => \A i \in 1 .. Len(watched) : ~Drifted(i)
      BY <2>1, <2>5 DEF ShtInvariant, GuardHolds
    <3> QED
      BY <1>0, <2>1, <2>2, <2>3, <3>1, <3>2
         DEF ShtInvariant, ShtTypes, SamplesFit, RowsFollow, GuardHolds
  <2> QED
    BY <2>4, <2>5
<1>9. CASE Disconnect
  <2>1. ports' \in [{"leader", "follower"} -> {"closed", "half", "open"}]
    BY <1>9 DEF Disconnect
  <2> QED
    BY <1>9, <2>1 DEF Disconnect, ShtInvariant, ShtTypes, SamplesFit, RowsFollow, GuardHolds, Drifted
<1>10. CASE UNCHANGED shtVars
  BY <1>10 DEF shtVars, ShtInvariant, ShtTypes, SamplesFit, RowsFollow, GuardHolds, Drifted
<1> QED
  BY <1>1, <1>2, <1>3, <1>4, <1>5, <1>6, <1>7, <1>8, <1>9, <1>10 DEF ShtNext

\* A follower that has drifted is not one that stayed where it was.
LEMMA DriftIsNotFixed ==
  ASSUME ShtTypes, NEW i \in 1 .. Len(watched), Drifted(i)
  PROVE  ~LeaderMovedFollowerFixed
<1> DEFINE I == 1 .. Len(watched)
           f == [k \in I |-> watched[k].present]
           T == {f[k] : k \in I}
<1>1. Len(watched) \in Nat /\ I # {} /\ I \in SUBSET (1 .. Len(watched)) /\ 1 \in I
  BY DEF ShtTypes
<1>2. f \in [I -> Int]
  <2>1. \A k \in I : watched[k] \in Watch
    BY DEF ShtTypes
  <2>2. \A k \in I : watched[k].present \in Int
    BY <2>1, ShtAssumption DEF Watch
  <2> QED
    BY <2>2
<1>3. /\ Min(T) \in T /\ \A k \in I : Min(T) <= f[k]
      /\ Max(T) \in T /\ \A k \in I : f[k] <= Max(T)
  <2> HIDE DEF I, f
  <2> QED
    BY <1>1, <1>2, EndsOfValues
<1>4. T = {watched[k].present : k \in DOMAIN watched}
  BY DEF ShtTypes
<1>5. T \in SUBSET Int
  BY <1>2
<1>6. f[1] = watched[1].present /\ f[i] = watched[i].present /\ f[1] \in Int /\ f[i] \in Int
  BY <1>1, <1>2
<1>7. /\ Min(T) <= f[1] /\ f[1] <= Max(T) /\ Min(T) <= f[i] /\ f[i] <= Max(T)
      /\ Min(T) \in Int /\ Max(T) \in Int
  BY <1>1, <1>3, <1>5
<1> HIDE DEF T, I, f
<1>8. Max(T) - Min(T) > AbortAt
  BY <1>6, <1>7, ShtAssumption DEF Drifted
<1>9. ~(Spread(T) <= FixedAt)
  BY <1>7, <1>8, ShtAssumption DEF Spread
<1> QED
  BY <1>4, <1>9 DEF LeaderMovedFollowerFixed

\* The types and the promises of the run.
LEMMA ShtIsSafe == ShtInvariant => ShadowTeleopSafe /\ ShtTypeOK
<1> SUFFICES ASSUME ShtInvariant PROVE ShadowTeleopSafe /\ ShtTypeOK
  OBVIOUS
<1>1. DOMAIN watched = 1 .. Len(watched) /\ Len(watched) \in Nat
  BY DEF ShtInvariant, ShtTypes
<1>2. stopped = "follower_moved_unexpectedly" => ~LeaderMovedFollowerFixed
  BY <1>1, DriftIsNotFixed DEF ShtInvariant, GuardHolds
<1>3. FollowerMoveEnds
  BY <1>1, <1>2 DEF ShtInvariant, GuardHolds, FollowerMoveEnds
<1>4. CsvIsTheSamples
  BY <1>1 DEF ShtInvariant, RowsFollow, CsvIsTheSamples
<1>5. ShtTypeOK
  <2>1. \A a \in DOMAIN ports : ports[a] \in {"closed", "half", "open"}
    BY DEF ShtInvariant, ShtTypes
  <2>2. csvRows \in 0 .. ShtDuration /\ accelAt \in -1 .. ShtDuration /\ Len(watched) <= ShtDuration
    <3>0. csvRows = Len(watched) \/ csvRows = Len(watched) - 1
      BY DEF ShtInvariant, RowsFollow
    <3>5. csvRows <= Len(watched)
      BY <1>1, <3>0
    <3>6. Len(watched) <= ShtDuration
      BY DEF ShtInvariant, SamplesFit
    <3>7. -1 <= accelAt /\ accelAt <= ShtDuration
      BY DEF ShtInvariant, SamplesFit
    <3>8. csvRows \in Nat /\ accelAt \in Int
      BY DEF ShtInvariant, ShtTypes
    <3>1. /\ Len(watched) <= ShtDuration /\ -1 <= accelAt /\ accelAt <= ShtDuration
          /\ csvRows <= Len(watched)
          /\ csvRows \in Nat /\ accelAt \in Int
      BY <3>5, <3>6, <3>7, <3>8
    <3>2. ShtDuration \in Nat
      BY ShtAssumption
    <3>3. csvRows \in 0 .. ShtDuration
      BY <1>1, <3>1, <3>2
    <3>4. accelAt \in -1 .. ShtDuration
      BY <3>1, <3>2
    <3> QED
      BY <3>1, <3>3, <3>4
  <2> QED
    BY <2>1, <2>2 DEF ShtInvariant, ShtTypes, ShtTypeOK, Before, Sampling
<1> QED
  BY <1>3, <1>4, <1>5 DEF ShadowTeleopSafe

-----------------------------------------------------------------------------
(***************************************************************************)
(* The tick log.                                                           *)
(***************************************************************************)
TickRecords == [tick : Nat, captured : BOOLEAN, after : Quarantines]
TickLines == [tick : Nat, captured : BOOLEAN]

TickLogTypes ==
  /\ ticking \in {"between", "captured", "bare", "ended"}
  /\ main \in {"watch", "drain", "join", "lastDrain", "closed", "raised"}
  /\ tickIndex \in 0 .. MaxTicks /\ nextLine \in 0 .. tickIndex
  /\ ticking \in {"captured", "bare"} => tickIndex < MaxTicks
  /\ captures \in SUBSET (0 .. tickIndex)
  /\ quarantined \in Quarantines /\ accumulator \in Quarantines
  /\ tickHistory \in Seq(TickRecords) /\ polled \in Seq(TickRecords) /\ lines \in Seq(TickLines)
  /\ Len(tickHistory) <= HistorySize /\ Len(polled) <= HistorySize
  /\ mainDelay \in [ticks : Nat, tooLong : BOOLEAN, joined : BOOLEAN, torn : BOOLEAN]

\* The last records there can be of the ticks before one, in their order.
LastBefore(h, tick) ==
  /\ Len(h) <= tick /\ (Len(h) = tick \/ Len(h) = HistorySize)
  /\ \A i \in 1 .. Len(h) : h[i].tick = tick - Len(h) + i - 1

HistoryIsTheLast ==
  /\ LastBefore(tickHistory, tickIndex)
  /\ tickIndex = 0 /\ ticking \in {"between", "ended"} => quarantined = 0
  /\ tickIndex > 0 /\ ticking \in {"between", "ended"} =>
       quarantined = tickHistory[Len(tickHistory)].after

PolledAt == tickIndex - mainDelay.ticks
PolledWasTheLast ==
  /\ main \in {"drain", "lastDrain"} => LastBefore(polled, PolledAt) /\ nextLine <= PolledAt
  /\ \A i \in 1 .. Len(polled) : polled[i].tick < tickIndex

\* The records either thread holds: of one tick there is one.
Seen == ToSet(tickHistory) \cup ToSet(polled)
RecordsAgree == \A r \in Seen : \A u \in Seen : r.tick = u.tick => r = u

CapturesAwait ==
  /\ ticking = "captured" => tickIndex \in captures
  /\ ticking # "captured" => tickIndex \notin captures

LinesFollow ==
  /\ Len(lines) = nextLine /\ \A i \in 1 .. nextLine : lines[i].tick = i - 1
  /\ nextLine = 0 => accumulator = 0
  /\ \A r \in Seen :
       /\ r.tick >= nextLine => (r.captured <=> r.tick \in captures)
       /\ r.tick < nextLine => lines[r.tick + 1].captured = r.captured
       /\ r.tick + 1 = nextLine => accumulator = r.after

NothingLost ==
  /\ main \in {"watch", "join"} => nextLine >= PolledAt
  /\ main \in {"drain", "lastDrain"} => nextLine >= PolledAt - Len(polled)
  /\ main = "closed" /\ mainDelay.joined => nextLine = tickIndex

TickLogInvariant ==
  /\ TickLogTypes /\ HistoryIsTheLast /\ PolledWasTheLast /\ RecordsAgree /\ CapturesAwait
  /\ mainDelay.joined => ticking = "ended" /\ (main \in {"drain", "lastDrain"} => mainDelay.ticks = 0)
  /\ ~mainDelay.torn => LinesFollow
  /\ ~mainDelay.torn /\ ~mainDelay.tooLong => NothingLost

LEMMA TickLogBegins == TickLogInit => TickLogInvariant
<1> SUFFICES ASSUME TickLogInit PROVE TickLogInvariant
  OBVIOUS
<1>1. /\ tickHistory = <<>> /\ polled = <<>> /\ lines = <<>> /\ Len(tickHistory) = 0 /\ Len(polled) = 0
      /\ Len(lines) = 0 /\ tickIndex = 0 /\ nextLine = 0 /\ captures = {}
      /\ tickHistory \in Seq(TickRecords) /\ polled \in Seq(TickRecords) /\ lines \in Seq(TickLines)
  BY DEF TickLogInit
<1>2. /\ mainDelay \in [ticks : Nat, tooLong : BOOLEAN, joined : BOOLEAN, torn : BOOLEAN]
      /\ mainDelay.ticks = 0 /\ mainDelay.joined = FALSE
  BY DEF TickLogInit
<1>3. Seen = {}
  BY <1>1 DEF Seen, ToSet
<1>4. TickLogTypes
  BY <1>1, <1>2, TickLogAssumption DEF TickLogInit, TickLogTypes
<1>5. HistoryIsTheLast /\ PolledWasTheLast
  BY <1>1 DEF TickLogInit, HistoryIsTheLast, PolledWasTheLast, LastBefore
<1>6. CapturesAwait /\ RecordsAgree /\ LinesFollow /\ NothingLost
  BY <1>1, <1>2, <1>3 DEF TickLogInit, CapturesAwait, RecordsAgree, LinesFollow, NothingLost, PolledAt
<1> QED
  BY <1>2, <1>4, <1>5, <1>6 DEF TickLogInvariant

\* What a record of the next tick makes of the history.
LEMMA KeptIsTheLast ==
  ASSUME NEW h \in Seq(TickRecords), NEW n \in Nat, Len(h) <= HistorySize, LastBefore(h, n),
         NEW r \in TickRecords, r.tick = n
  PROVE  /\ Kept(Append(h, r)) \in Seq(TickRecords) /\ Len(Kept(Append(h, r))) <= HistorySize
         /\ LastBefore(Kept(Append(h, r)), n + 1)
         /\ Kept(Append(h, r))[Len(Kept(Append(h, r)))] = r
         /\ ToSet(Kept(Append(h, r))) \subseteq ToSet(h) \cup {r}
<1> DEFINE a == Append(h, r)
           k == Kept(a)
<1>1. HistorySize \in Nat /\ HistorySize >= 1
  BY TickLogAssumption
<1>2. /\ a \in Seq(TickRecords) /\ Len(a) = Len(h) + 1 /\ Len(h) \in Nat /\ a[Len(h) + 1] = r
      /\ \A i \in 1 .. Len(h) : a[i] = h[i]
  OBVIOUS
<1>3. /\ Len(h) <= n /\ (Len(h) = n \/ Len(h) = HistorySize)
      /\ \A i \in 1 .. Len(h) : h[i].tick = n - Len(h) + i - 1
  BY DEF LastBefore
<1> HIDE DEF a
<1>4. \A i \in 1 .. Len(h) + 1 : a[i].tick = n - Len(h) + i - 1
  <2>1. \A i \in 1 .. Len(h) : a[i].tick = n - Len(h) + i - 1
    BY <1>2, <1>3
  <2>2. a[Len(h) + 1].tick = n - Len(h) + (Len(h) + 1) - 1
    <3>1. n - Len(h) + (Len(h) + 1) - 1 = n
      BY <1>2
    <3> QED
      BY <1>2, <3>1
  <2>3. \A i \in 1 .. Len(h) + 1 : i \in 1 .. Len(h) \/ i = Len(h) + 1
    BY <1>2
  <2> QED
    BY <2>1, <2>2, <2>3
<1>5. \A i \in 1 .. Len(a) : a[i] \in ToSet(h) \cup {r}
  BY <1>2 DEF ToSet
<1>6. CASE Len(a) <= HistorySize
  <2>1. k = a
    BY <1>1, <1>2, <1>6 DEF Kept
  <2> HIDE DEF k
  <2>2. LastBefore(k, n + 1)
    <3>1. Len(k) = Len(h) + 1 /\ \A i \in 1 .. Len(k) : n + 1 - Len(k) + i - 1 = n - Len(h) + i - 1
      BY <1>2, <2>1
    <3>2. \A i \in 1 .. Len(k) : k[i].tick = n + 1 - Len(k) + i - 1
      BY <1>4, <2>1, <3>1
    <3>3. Len(k) <= n + 1 /\ (Len(k) = n + 1 \/ Len(k) = HistorySize)
      BY <1>1, <1>2, <1>3, <1>6, <3>1
    <3> QED
      BY <3>2, <3>3 DEF LastBefore
  <2> QED
    BY <1>2, <1>5, <1>6, <2>1, <2>2 DEF k, a, ToSet
<1>7. CASE Len(a) > HistorySize
  <2>1. k = Tail(a)
    BY <1>1, <1>2, <1>7 DEF Kept
  <2>2. Len(h) = HistorySize
    BY <1>1, <1>2, <1>7
  <2>3. k \in Seq(TickRecords) /\ Len(k) = HistorySize /\ \A i \in 1 .. HistorySize : k[i] = a[i + 1]
    BY <1>1, <1>2, <2>1, <2>2
  <2> HIDE DEF k
  <2>4. \A i \in 1 .. HistorySize : k[i].tick = n - HistorySize + i
    <3>1. \A i \in 1 .. HistorySize :
            i + 1 \in 1 .. Len(h) + 1 /\ n - Len(h) + (i + 1) - 1 = n - HistorySize + i
      BY <1>1, <1>2, <2>2
    <3> QED
      BY <1>4, <2>3, <3>1
  <2>5. LastBefore(k, n + 1)
    BY <1>1, <1>3, <2>2, <2>3, <2>4 DEF LastBefore
  <2>6. k[Len(k)] = r
    BY <1>1, <1>2, <2>2, <2>3
  <2>7. \A i \in 1 .. HistorySize : k[i] \in ToSet(h) \cup {r}
    BY <1>1, <1>2, <1>5, <2>2, <2>3
  <2>8. ToSet(k) \subseteq ToSet(h) \cup {r}
    BY <2>3, <2>7 DEF ToSet
  <2> QED
    BY <2>3, <2>5, <2>6, <2>8 DEF k, a
<1> QED
  BY <1>1, <1>2, <1>6, <1>7

\* What the invariant says of the records either thread holds.
LEMMA SeenRecords ==
  ASSUME TickLogInvariant
  PROVE  /\ \A r \in Seen : r \in TickRecords /\ r.tick < tickIndex
         /\ ToSet(tickHistory) \subseteq Seen /\ ToSet(polled) \subseteq Seen
<1>1. ASSUME NEW r \in ToSet(tickHistory) PROVE r \in TickRecords /\ r.tick < tickIndex
  <2>1. PICK i \in 1 .. Len(tickHistory) : r = tickHistory[i]
    BY DEF ToSet, TickLogInvariant, TickLogTypes
  <2>2. r.tick = tickIndex - Len(tickHistory) + i - 1
    BY <2>1 DEF TickLogInvariant, HistoryIsTheLast, LastBefore
  <2> QED
    BY <2>1, <2>2 DEF TickLogInvariant, TickLogTypes
<1>2. ASSUME NEW r \in ToSet(polled) PROVE r \in TickRecords /\ r.tick < tickIndex
  <2>1. PICK i \in 1 .. Len(polled) : r = polled[i]
    BY DEF ToSet, TickLogInvariant, TickLogTypes
  <2> QED
    BY <2>1 DEF TickLogInvariant, TickLogTypes, PolledWasTheLast
<1> QED
  BY <1>1, <1>2 DEF Seen

\* The control thread computes a tick.
LEMMA TickComputed ==
  ASSUME TickLogInvariant, NEW q \in Quarantines, NEW cap \in BOOLEAN, Ticks(q, cap)
  PROVE  TickLogInvariant'
<1>1. /\ ticking = "between" /\ ticking' \in {"captured", "bare"} /\ (ticking' = "captured" <=> cap)
      /\ captures' = captures \cup {t \in {tickIndex} : cap} /\ quarantined' = q
      /\ UNCHANGED <<tickIndex, tickHistory, main, polled, nextLine, accumulator, lines, mainDelay>>
      /\ tickIndex < MaxTicks
  BY DEF Ticks, logSide
<1>2. /\ tickIndex \in Nat /\ captures' \in SUBSET (0 .. tickIndex)
      /\ (tickIndex \in captures' <=> tickIndex \in captures \/ cap)
      /\ \A t \in Nat : t < tickIndex => (t \in captures' <=> t \in captures)
  <2>1. tickIndex \in Nat /\ captures \in SUBSET (0 .. tickIndex) /\ tickIndex \in 0 .. tickIndex
    BY DEF TickLogInvariant, TickLogTypes
  <2>2. \A t : t \in captures' <=> (t \in captures \/ (t = tickIndex /\ cap))
    BY <1>1
  <2>3. \A t \in Nat : t < tickIndex => t # tickIndex
    BY <2>1
  <2>4. captures' \in SUBSET (0 .. tickIndex)
    BY <2>1, <2>2
  <2>5. tickIndex \in captures' <=> tickIndex \in captures \/ cap
    BY <2>2
  <2>6. \A t \in Nat : t < tickIndex => (t \in captures' <=> t \in captures)
    BY <2>2, <2>3
  <2> QED
    BY <2>1, <2>4, <2>5, <2>6
<1>3. TickLogTypes'
  BY <1>1, <1>2 DEF TickLogInvariant, TickLogTypes
<1>4. HistoryIsTheLast' /\ PolledWasTheLast' /\ NothingLost' = NothingLost
  BY <1>1 DEF TickLogInvariant, HistoryIsTheLast, PolledWasTheLast, LastBefore, PolledAt, NothingLost
<1>5. Seen' = Seen /\ RecordsAgree'
  BY <1>1 DEF TickLogInvariant, Seen, RecordsAgree, ToSet
<1>6. CapturesAwait'
  BY <1>1, <1>2 DEF TickLogInvariant, CapturesAwait
<1>7. ~mainDelay.torn => LinesFollow'
  <2>1. \A r \in Seen : r.tick \in Nat /\ (r.tick \in captures' <=> r.tick \in captures)
    BY <1>2, SeenRecords DEF TickRecords
  <2> QED
    BY <1>1, <1>5, <2>1 DEF TickLogInvariant, LinesFollow
<1> QED
  BY <1>1, <1>3, <1>4, <1>5, <1>6, <1>7 DEF TickLogInvariant

\* It makes the record.
LEMMA TickRecorded ==
  ASSUME TickLogInvariant, RecordsTick
  PROVE  TickLogInvariant'
<1> DEFINE rec0 == RecordOfTick
<1>1. /\ ticking \in {"captured", "bare"} /\ ticking' = "between"
      /\ tickHistory' = Kept(Append(tickHistory, rec0)) /\ tickIndex' = tickIndex + 1
      /\ mainDelay' = [mainDelay EXCEPT !.ticks = @ + 1]
      /\ UNCHANGED <<quarantined, captures, main, polled, nextLine, accumulator, lines>>
  BY DEF RecordsTick, logSide
<1>2. /\ rec0 \in TickRecords /\ rec0.tick = tickIndex /\ rec0.after = quarantined
      /\ (rec0.captured <=> tickIndex \in captures)
  <2>1. tickIndex \in Nat /\ quarantined \in Quarantines /\ (ticking = "captured") \in BOOLEAN
    BY DEF TickLogInvariant, TickLogTypes
  <2>2. ticking = "captured" <=> tickIndex \in captures
    BY DEF TickLogInvariant, CapturesAwait
  <2> QED
    BY <2>1, <2>2 DEF RecordOfTick, TickRecords
<1> HIDE DEF rec0
<1>3. /\ mainDelay' \in [ticks : Nat, tooLong : BOOLEAN, joined : BOOLEAN, torn : BOOLEAN]
      /\ mainDelay'.ticks = mainDelay.ticks + 1 /\ mainDelay'.torn = mainDelay.torn
      /\ mainDelay'.tooLong = mainDelay.tooLong /\ mainDelay'.joined = mainDelay.joined
      /\ mainDelay.ticks \in Nat /\ tickIndex \in Nat /\ nextLine \in Nat /\ nextLine <= tickIndex
  <2>1. mainDelay \in [ticks : Nat, tooLong : BOOLEAN, joined : BOOLEAN, torn : BOOLEAN]
    BY DEF TickLogInvariant, TickLogTypes
  <2>2. mainDelay' = [ticks |-> mainDelay.ticks + 1, tooLong |-> mainDelay.tooLong,
                      joined |-> mainDelay.joined, torn |-> mainDelay.torn]
    BY <1>1, <2>1
  <2>3. tickIndex \in Nat /\ nextLine \in Nat /\ nextLine <= tickIndex
    BY DEF TickLogInvariant, TickLogTypes
  <2> QED
    BY <2>1, <2>2, <2>3
<1>4. /\ tickHistory' \in Seq(TickRecords) /\ Len(tickHistory') <= HistorySize
      /\ LastBefore(tickHistory', tickIndex') /\ tickHistory'[Len(tickHistory')] = rec0
      /\ ToSet(tickHistory') \subseteq ToSet(tickHistory) \cup {rec0}
  BY <1>1, <1>2, <1>3, KeptIsTheLast DEF TickLogInvariant, TickLogTypes, HistoryIsTheLast
<1>5. /\ Seen' \subseteq Seen \cup {rec0} /\ PolledAt' = PolledAt
      /\ \A r \in Seen : r \in TickRecords /\ r.tick < tickIndex
  <2>1. Seen' \subseteq Seen \cup {rec0}
    BY <1>1, <1>4 DEF Seen, ToSet
  <2>2. PolledAt' = PolledAt
    BY <1>1, <1>3 DEF PolledAt
  <2> QED
    BY <2>1, <2>2, SeenRecords
<1>6. TickLogTypes'
  <2>1. tickIndex' \in 0 .. MaxTicks /\ nextLine \in 0 .. tickIndex' /\ captures \subseteq 0 .. tickIndex'
    <3>1. tickIndex < MaxTicks /\ captures \subseteq 0 .. tickIndex
      BY <1>1 DEF TickLogInvariant, TickLogTypes
    <3> QED
      BY <1>1, <1>3, <3>1, TickLogAssumption
  <2> QED
    BY <1>1, <1>3, <1>4, <2>1 DEF TickLogInvariant, TickLogTypes
<1>7. HistoryIsTheLast'
  BY <1>1, <1>2, <1>3, <1>4 DEF HistoryIsTheLast
<1>8. PolledWasTheLast'
  <2>1. \A i \in 1 .. Len(polled) : polled[i].tick < tickIndex + 1
    <3>0. polled \in Seq(TickRecords)
      BY DEF TickLogInvariant, TickLogTypes
    <3>1. \A i \in 1 .. Len(polled) : polled[i].tick \in Nat
      <4>1. \A i \in 1 .. Len(polled) : polled[i] \in TickRecords
        BY <3>0
      <4> QED
        BY <4>1 DEF TickRecords
    <3> QED
      BY <1>3, <3>1 DEF TickLogInvariant, PolledWasTheLast
  <2> QED
    BY <1>1, <1>5, <2>1 DEF TickLogInvariant, PolledWasTheLast, LastBefore
<1>9. RecordsAgree'
  <2>1. \A r \in Seen : r.tick # rec0.tick
    BY <1>2, <1>3, <1>5 DEF TickRecords
  <2> QED
    BY <1>5, <2>1 DEF TickLogInvariant, RecordsAgree
<1>10. CapturesAwait'
  BY <1>1, <1>3 DEF CapturesAwait, TickLogInvariant, TickLogTypes
<1>11. ~mainDelay.torn => LinesFollow'
  <2>1. /\ rec0.tick >= nextLine /\ ~(rec0.tick < nextLine) /\ rec0.tick + 1 # nextLine
    BY <1>2, <1>3
  <2> QED
    BY <1>1, <1>2, <1>5, <2>1 DEF TickLogInvariant, LinesFollow
<1>12. ~mainDelay.torn /\ ~mainDelay.tooLong => NothingLost'
  <2>1. main = "closed" /\ mainDelay.joined => FALSE
    BY <1>1 DEF TickLogInvariant
  <2> QED
    BY <1>1, <1>3, <1>5, <2>1 DEF TickLogInvariant, NothingLost
<1>13. ~ mainDelay'.joined
  BY <1>1, <1>3 DEF TickLogInvariant
<1> QED
  BY <1>3, <1>6, <1>7, <1>8, <1>9, <1>10, <1>11, <1>12, <1>13 DEF TickLogInvariant

LEMMA TicksEnd ==
  ASSUME TickLogInvariant, LoopEnds \/ UNCHANGED tickLogVars
  PROVE  TickLogInvariant'
<1>1. /\ UNCHANGED <<tickIndex, tickHistory, quarantined, captures, main, polled, nextLine, accumulator,
                     lines, mainDelay>>
      /\ ticking' = ticking \/ (ticking = "between" /\ ticking' = "ended")
  BY DEF LoopEnds, logSide, tickLogVars
<1>2. TickLogTypes'
  BY <1>1 DEF TickLogInvariant, TickLogTypes
<1>3. HistoryIsTheLast' /\ PolledWasTheLast' /\ NothingLost' = NothingLost
  BY <1>1 DEF TickLogInvariant, HistoryIsTheLast, PolledWasTheLast, LastBefore, PolledAt, NothingLost
<1>4. Seen' = Seen /\ RecordsAgree' /\ CapturesAwait' /\ LinesFollow' = LinesFollow
  BY <1>1 DEF TickLogInvariant, Seen, RecordsAgree, ToSet, CapturesAwait, LinesFollow
<1> QED
  BY <1>1, <1>2, <1>3, <1>4 DEF TickLogInvariant

\* The main thread is given the history.
LEMMA HistoryTaken ==
  ASSUME TickLogInvariant, MainPolls \/ LastDrain
  PROVE  TickLogInvariant'
<1>1. /\ main \in {"watch", "join"} /\ main' \in {"drain", "lastDrain"} /\ polled' = tickHistory
      /\ mainDelay' = [mainDelay EXCEPT !.ticks = 0, !.tooLong = @ \/ mainDelay.ticks > HistorySize,
                                        !.joined = (ticking = "ended")]
      /\ UNCHANGED <<ticking, tickIndex, tickHistory, quarantined, captures, nextLine, accumulator, lines>>
  BY DEF MainPolls, LastDrain, Takes, loopSide, logSide
<1>2. /\ mainDelay' \in [ticks : Nat, tooLong : BOOLEAN, joined : BOOLEAN, torn : BOOLEAN]
      /\ mainDelay'.ticks = 0 /\ mainDelay'.torn = mainDelay.torn
      /\ ~ mainDelay'.tooLong => ~mainDelay.tooLong /\ mainDelay.ticks <= HistorySize
      /\ mainDelay'.joined = (ticking = "ended")
      /\ mainDelay.ticks \in Nat /\ tickIndex \in Nat /\ nextLine \in Nat /\ nextLine <= tickIndex
  <2>1. mainDelay \in [ticks : Nat, tooLong : BOOLEAN, joined : BOOLEAN, torn : BOOLEAN]
    BY DEF TickLogInvariant, TickLogTypes
  <2>2. mainDelay' = [ticks |-> 0, tooLong |-> mainDelay.tooLong \/ mainDelay.ticks > HistorySize,
                      joined |-> (ticking = "ended"), torn |-> mainDelay.torn]
    BY <1>1, <2>1
  <2>3. tickIndex \in Nat /\ nextLine \in Nat /\ nextLine <= tickIndex
    BY DEF TickLogInvariant, TickLogTypes
  <2>4. (mainDelay.tooLong \/ mainDelay.ticks > HistorySize) \in BOOLEAN /\ (ticking = "ended") \in BOOLEAN
    BY <2>1
  <2>5. mainDelay'.tooLong = (mainDelay.tooLong \/ mainDelay.ticks > HistorySize)
    BY <2>2
  <2>6. ~(mainDelay.ticks > HistorySize) => mainDelay.ticks <= HistorySize
    BY <2>1, TickLogAssumption
  <2>7. ~ mainDelay'.tooLong => ~mainDelay.tooLong /\ mainDelay.ticks <= HistorySize
    BY <2>5, <2>6
  <2>8. mainDelay' \in [ticks : Nat, tooLong : BOOLEAN, joined : BOOLEAN, torn : BOOLEAN]
    BY <2>1, <2>2, <2>4
  <2> QED
    BY <2>1, <2>2, <2>3, <2>7, <2>8
<1>3. TickLogTypes'
  BY <1>1, <1>2 DEF TickLogInvariant, TickLogTypes
<1>4. PolledAt' = tickIndex
  BY <1>1, <1>2 DEF PolledAt
<1>5. HistoryIsTheLast'
  BY <1>1 DEF TickLogInvariant, HistoryIsTheLast, LastBefore
<1>6. Seen' = ToSet(tickHistory) /\ Seen' \subseteq Seen
  BY <1>1 DEF Seen, ToSet
<1>7. PolledWasTheLast'
  <2>1. LastBefore(polled', PolledAt') /\ nextLine <= PolledAt'
    BY <1>1, <1>2, <1>4 DEF TickLogInvariant, HistoryIsTheLast
  <2>2. \A i \in 1 .. Len(tickHistory) : tickHistory[i] \in Seen
    BY DEF Seen, ToSet, TickLogInvariant, TickLogTypes
  <2>3. \A i \in 1 .. Len(tickHistory) : tickHistory[i].tick < tickIndex
    BY <2>2, SeenRecords
  <2> QED
    BY <1>1, <2>1, <2>3 DEF PolledWasTheLast, LastBefore
<1>8. RecordsAgree' /\ CapturesAwait'
  BY <1>1, <1>6 DEF TickLogInvariant, RecordsAgree, CapturesAwait
<1>9. LinesFollow => LinesFollow'
  BY <1>1, <1>6 DEF LinesFollow
<1>10. NothingLost /\ ~mainDelay'.tooLong => NothingLost'
  <2> SUFFICES ASSUME NothingLost, ~mainDelay'.tooLong PROVE NothingLost'
    OBVIOUS
  <2>1. nextLine >= tickIndex - mainDelay.ticks /\ mainDelay.ticks <= HistorySize
    BY <1>1, <1>2, TickLogAssumption DEF NothingLost, PolledAt
  <2>2. nextLine >= tickIndex - Len(tickHistory)
    BY <1>2, <2>1, TickLogAssumption DEF TickLogInvariant, HistoryIsTheLast, LastBefore
  <2> QED
    BY <1>1, <1>4, <2>2 DEF NothingLost
<1>11. mainDelay'.joined => ticking' = "ended" /\ mainDelay'.ticks = 0
  BY <1>1, <1>2
<1>12. ~mainDelay'.torn /\ ~mainDelay'.tooLong => NothingLost'
  BY <1>2, <1>10 DEF TickLogInvariant
<1> QED
  BY <1>2, <1>3, <1>5, <1>7, <1>8, <1>9, <1>11, <1>12 DEF TickLogInvariant

\* The records of a poll that are not written yet are as many as there are.
LEMMA LaterAreCounted ==
  ASSUME TickLogInvariant
  PROVE  /\ Cardinality({r \in ToSet(polled) : r.tick >= nextLine}) \in Nat
         /\ main = "drain" /\ nextLine >= PolledAt - Len(polled) =>
              nextLine >= PolledAt - Cardinality({r \in ToSet(polled) : r.tick >= nextLine})
<1> DEFINE later == {r \in ToSet(polled) : r.tick >= nextLine}
           n == Len(polled)
           m == PolledAt - nextLine
<1>1. /\ polled \in Seq(TickRecords) /\ n \in Nat /\ PolledAt \in Int /\ nextLine \in Nat
  BY DEF TickLogInvariant, TickLogTypes, PolledAt
<1>2. polled \in Surjection(1 .. n, ToSet(polled))
  BY <1>1 DEF Surjection, ToSet
<1>3. IsFiniteSet(1 .. n)
  BY <1>1, FS_Interval
<1>4. IsFiniteSet(ToSet(polled))
  BY <1>2, <1>3, FS_Surjection
<1>5. IsFiniteSet(later) /\ Cardinality(later) \in Nat
  BY <1>4, FS_Subset, FS_CardinalityType
<1>6. ASSUME main = "drain", nextLine >= PolledAt - n
      PROVE  nextLine >= PolledAt - Cardinality(later)
  <2>1. nextLine <= PolledAt /\ \A i \in 1 .. n : polled[i].tick = PolledAt - n + i - 1
    BY <1>6 DEF TickLogInvariant, PolledWasTheLast, LastBefore
  <2>2. m \in Nat
    BY <1>1, <2>1
  <2>3. IsFiniteSet(1 .. m) /\ Cardinality(1 .. m) = m
    <3>1. Cardinality(1 .. m) = IF 1 > m THEN 0 ELSE m - 1 + 1
      BY <2>2, FS_Interval
    <3>2. IsFiniteSet(1 .. m)
      BY <2>2, FS_Interval
    <3> QED
      BY <2>2, <3>1, <3>2
  <2> DEFINE f == [k \in 1 .. m |-> polled[n - m + k]]
  <2>4. \A k \in 1 .. m : n - m + k \in 1 .. n
    BY <1>1, <1>6, <2>2
  <2>5. \A k \in 1 .. m : PolledAt - n + (n - m + k) - 1 = nextLine + k - 1 /\ nextLine + k - 1 >= nextLine
    BY <1>1, <2>2
  <2>6. \A k \in 1 .. m : f[k] = polled[n - m + k] /\ f[k].tick = nextLine + k - 1
    <3>1. \A k \in 1 .. m : f[k] = polled[n - m + k]
      OBVIOUS
    <3>2. \A k \in 1 .. m : polled[n - m + k].tick = PolledAt - n + (n - m + k) - 1
      BY <2>1, <2>4
    <3> HIDE DEF f
    <3> QED
      BY <2>5, <3>1, <3>2
  <2>7. \A k \in 1 .. m : f[k] \in later
    <3>1. \A k \in 1 .. m : polled[n - m + k] \in ToSet(polled)
      BY <1>1, <2>4 DEF ToSet
    <3> HIDE DEF f
    <3> QED
      BY <2>5, <2>6, <3>1
  <2>8. \A j \in 1 .. m : \A k \in 1 .. m : f[j] = f[k] => j = k
    <3> HIDE DEF f
    <3>1. \A j \in 1 .. m : \A k \in 1 .. m : nextLine + j - 1 = nextLine + k - 1 => j = k
      BY <1>1, <2>2
    <3> QED
      BY <2>6, <3>1
  <2>9. f \in [1 .. m -> later]
    BY <2>7
  <2> HIDE DEF f, later
  <2>10. f \in Injection(1 .. m, later)
    BY <2>8, <2>9 DEF Injection, IsInjective
  <2>11. m <= Cardinality(later)
    BY <1>5, <2>3, <2>10, FS_Injection
  <2> QED
    BY <1>1, <1>5, <2>11
<1> QED
  BY <1>5, <1>6

LEMMA MainStopsWatching ==
  ASSUME TickLogInvariant, MainStops
  PROVE  TickLogInvariant'
<1> DEFINE c == Cardinality({r \in ToSet(polled) : r.tick >= nextLine})
<1>1. /\ main \in {"watch", "drain"} /\ main' = "join"
      /\ mainDelay' = [mainDelay EXCEPT !.ticks = @ + c]
      /\ UNCHANGED <<ticking, tickIndex, tickHistory, quarantined, captures, polled, nextLine, accumulator,
                     lines>>
  BY DEF MainStops, loopSide, logSide
<1>2. c \in Nat
  BY LaterAreCounted
<1>3. main = "drain" /\ nextLine >= PolledAt - Len(polled) => nextLine >= PolledAt - c
  BY LaterAreCounted
<1> HIDE DEF c
<1>4. /\ mainDelay' \in [ticks : Nat, tooLong : BOOLEAN, joined : BOOLEAN, torn : BOOLEAN]
      /\ mainDelay'.ticks = mainDelay.ticks + c /\ mainDelay'.torn = mainDelay.torn
      /\ mainDelay'.tooLong = mainDelay.tooLong /\ mainDelay'.joined = mainDelay.joined
      /\ mainDelay.ticks \in Nat /\ tickIndex \in Nat /\ nextLine \in Nat
  <2>1. mainDelay \in [ticks : Nat, tooLong : BOOLEAN, joined : BOOLEAN, torn : BOOLEAN]
    BY DEF TickLogInvariant, TickLogTypes
  <2>2. mainDelay' = [ticks |-> mainDelay.ticks + c, tooLong |-> mainDelay.tooLong,
                      joined |-> mainDelay.joined, torn |-> mainDelay.torn]
    BY <1>1, <2>1
  <2>3. tickIndex \in Nat /\ nextLine \in Nat
    BY DEF TickLogInvariant, TickLogTypes
  <2> QED
    BY <1>2, <2>1, <2>2, <2>3
<1>5. TickLogTypes'
  BY <1>1, <1>4 DEF TickLogInvariant, TickLogTypes
<1>6. HistoryIsTheLast' /\ PolledWasTheLast'
  BY <1>1 DEF TickLogInvariant, HistoryIsTheLast, PolledWasTheLast, LastBefore
<1>7. Seen' = Seen /\ RecordsAgree' /\ CapturesAwait' /\ LinesFollow' = LinesFollow
  BY <1>1 DEF TickLogInvariant, Seen, RecordsAgree, ToSet, CapturesAwait, LinesFollow
<1>8. NothingLost => NothingLost'
  <2> SUFFICES ASSUME NothingLost PROVE nextLine >= tickIndex - (mainDelay.ticks + c)
    BY <1>1, <1>4 DEF NothingLost, PolledAt
  <2>1. CASE main = "watch"
    BY <1>2, <1>4, <2>1 DEF NothingLost, PolledAt
  <2>2. CASE main = "drain"
    <3>1. nextLine >= tickIndex - mainDelay.ticks - c
      BY <1>3, <2>2 DEF NothingLost, PolledAt
    <3> QED
      BY <1>2, <1>4, <3>1
  <2> QED
    BY <1>1, <2>1, <2>2
<1> QED
  BY <1>1, <1>4, <1>5, <1>6, <1>7, <1>8 DEF TickLogInvariant

\* What is written, also in part, is of a record of the poll.
LEMMA DueRecord ==
  ASSUME TickLogInvariant, NEW r \in Due
  PROVE  /\ r \in Seen /\ r \in TickRecords /\ r.tick = nextLine /\ nextLine < tickIndex
         /\ LineOf(r) \in TickLines /\ LineOf(r).tick = nextLine /\ LineOf(r).captured = (nextLine \in captures)
         /\ captures \ {r.tick} \in SUBSET (0 .. tickIndex)
         /\ tickIndex \in captures \ {r.tick} <=> tickIndex \in captures
<1>1. r \in ToSet(polled) /\ r.tick = nextLine
  BY DEF Due
<1>2. r \in Seen /\ r \in TickRecords /\ r.tick < tickIndex /\ tickIndex \in Nat
  BY <1>1, SeenRecords DEF TickLogInvariant, TickLogTypes
<1>3. captures \in SUBSET (0 .. tickIndex)
  BY DEF TickLogInvariant, TickLogTypes
<1>4. r.tick \in Nat /\ r.tick # tickIndex
  BY <1>2 DEF TickRecords
<1> QED
  <2>1. LineOf(r) = [tick |-> r.tick, captured |-> r.tick \in captures]
    BY DEF LineOf
  <2>2. LineOf(r) \in TickLines /\ LineOf(r).tick = nextLine /\ LineOf(r).captured = (nextLine \in captures)
    <3>1. (r.tick \in captures) \in BOOLEAN
      OBVIOUS
    <3> QED
      BY <1>1, <1>4, <2>1, <3>1 DEF TickLines
  <2>3. captures \ {r.tick} \in SUBSET (0 .. tickIndex)
    BY <1>3
  <2>4. tickIndex \in captures \ {r.tick} <=> tickIndex \in captures
    BY <1>4
  <2>5. nextLine < tickIndex
    BY <1>1, <1>2
  <2> QED
    BY <1>1, <1>2, <2>2, <2>3, <2>4, <2>5

LEMMA LineWritten ==
  ASSUME TickLogInvariant, WritesLine
  PROVE  TickLogInvariant'
<1>1. PICK r \in Due : /\ main \in {"drain", "lastDrain"} /\ lines' = Append(lines, LineOf(r))
                       /\ captures' = captures \ {r.tick} /\ accumulator' = r.after /\ nextLine' = r.tick + 1
                       /\ UNCHANGED <<ticking, tickIndex, tickHistory, quarantined, main, polled, mainDelay>>
  BY DEF WritesLine, loopSide
<1>2. /\ r \in Seen /\ r \in TickRecords /\ r.tick = nextLine /\ nextLine < tickIndex
      /\ LineOf(r) \in TickLines /\ LineOf(r).tick = nextLine /\ LineOf(r).captured = (nextLine \in captures)
      /\ captures' \in SUBSET (0 .. tickIndex) /\ (tickIndex \in captures' <=> tickIndex \in captures)
  BY <1>1, DueRecord
<1>3. /\ tickIndex \in Nat /\ nextLine \in Nat /\ nextLine' = nextLine + 1 /\ nextLine' \in 0 .. tickIndex
      /\ accumulator' \in Quarantines /\ lines' \in Seq(TickLines)
  BY <1>1, <1>2 DEF TickLogInvariant, TickLogTypes, TickRecords
<1>4. TickLogTypes'
  BY <1>1, <1>2, <1>3 DEF TickLogInvariant, TickLogTypes
<1>5. HistoryIsTheLast' /\ Seen' = Seen /\ RecordsAgree' /\ PolledAt' = PolledAt
  BY <1>1 DEF TickLogInvariant, HistoryIsTheLast, LastBefore, Seen, RecordsAgree, ToSet, PolledAt
<1>6. PolledWasTheLast'
  <2>1. nextLine + 1 <= PolledAt
    <3>1. PICK i \in 1 .. Len(polled) : r = polled[i]
      <4>1. r \in ToSet(polled)
        BY DEF Due
      <4>2. polled \in Seq(TickRecords)
        BY DEF TickLogInvariant, TickLogTypes
      <4>3. DOMAIN polled = 1 .. Len(polled)
        BY <4>2
      <4> QED
        BY <4>1, <4>3 DEF ToSet
    <3>2. r.tick = PolledAt - Len(polled) + i - 1
      BY <1>1, <3>1 DEF TickLogInvariant, PolledWasTheLast, LastBefore
    <3>3. PolledAt \in Int /\ Len(polled) \in Nat
      BY DEF TickLogInvariant, TickLogTypes, PolledAt
    <3> QED
      BY <1>2, <1>3, <3>2, <3>3
  <2> QED
    BY <1>1, <1>3, <1>5, <2>1 DEF TickLogInvariant, PolledWasTheLast, LastBefore
<1>7. CapturesAwait'
  BY <1>1, <1>2 DEF TickLogInvariant, CapturesAwait
<1>8. LinesFollow => LinesFollow'
  <2> SUFFICES ASSUME LinesFollow PROVE LinesFollow'
    OBVIOUS
  <2>1. lines \in Seq(TickLines) /\ Len(lines) = nextLine /\ \A i \in 1 .. nextLine : lines[i].tick = i - 1
    BY DEF LinesFollow, TickLogInvariant, TickLogTypes
  <2>2. /\ Len(lines') = nextLine + 1 /\ lines'[nextLine + 1] = LineOf(r)
        /\ \A i \in 1 .. nextLine : lines'[i] = lines[i]
    BY <1>1, <1>2, <2>1
  <2>3. \A i \in 1 .. nextLine + 1 : lines'[i].tick = i - 1
    <3>1. LineOf(r).tick = nextLine + 1 - 1
      BY <1>2, <1>3
    <3>2. \A i \in 1 .. nextLine + 1 : i \in 1 .. nextLine \/ i = nextLine + 1
      BY <1>3
    <3> QED
      BY <2>1, <2>2, <3>1, <3>2
  <2>4. ASSUME NEW u \in Seen
        PROVE  /\ u.tick >= nextLine + 1 => (u.captured <=> u.tick \in captures')
               /\ u.tick < nextLine + 1 => lines'[u.tick + 1].captured = u.captured
               /\ u.tick + 1 = nextLine + 1 => accumulator' = u.after
    <3>1. u \in TickRecords /\ u.tick \in Nat /\ u.captured \in BOOLEAN
      BY SeenRecords DEF TickRecords
    <3>2. CASE u.tick = nextLine
      <4>1. u = r
        BY <1>2, <3>2 DEF TickLogInvariant, RecordsAgree
      <4>2. u.captured = (nextLine \in captures)
        <5>1. u.tick >= nextLine
          BY <1>3, <3>2
        <5> QED
          BY <3>1, <3>2, <5>1 DEF LinesFollow
      <4>3. ~(u.tick >= nextLine + 1)
        BY <1>3, <3>2
      <4>4. lines'[u.tick + 1].captured = u.captured
        BY <1>2, <2>2, <3>2, <4>2
      <4> QED
        BY <1>1, <4>1, <4>3, <4>4
    <3>3. CASE u.tick > nextLine
      <4>1. ~(u.tick < nextLine + 1) /\ u.tick + 1 # nextLine + 1 /\ u.tick >= nextLine
        BY <1>3, <3>1, <3>3
      <4>2. u.tick # r.tick
        BY <1>2, <1>3, <3>1, <3>3
      <4> QED
        BY <1>1, <4>1, <4>2 DEF LinesFollow
    <3>4. CASE u.tick < nextLine
      <4>1. ~(u.tick >= nextLine + 1) /\ u.tick + 1 # nextLine + 1 /\ u.tick + 1 \in 1 .. nextLine
        BY <1>3, <3>1, <3>4
      <4> QED
        BY <2>2, <3>4, <4>1 DEF LinesFollow
    <3> QED
      BY <1>3, <3>1, <3>2, <3>3, <3>4
  <2>5. nextLine + 1 # 0
    BY <1>3
  <2> QED
    BY <1>1, <1>3, <1>5, <2>2, <2>3, <2>4, <2>5 DEF LinesFollow
<1>9. NothingLost => NothingLost'
  <2>1. PolledAt \in Int /\ Len(polled) \in Nat
    BY DEF TickLogInvariant, TickLogTypes, PolledAt
  <2> QED
    BY <1>1, <1>3, <1>5, <2>1 DEF NothingLost
<1> QED
  BY <1>1, <1>4, <1>5, <1>6, <1>7, <1>8, <1>9 DEF TickLogInvariant

LEMMA LineBroken ==
  ASSUME TickLogInvariant, WriteFails \/ InterruptedInLine
  PROVE  TickLogInvariant'
<1>1. PICK r \in Due : /\ main' \in {"join", "raised", "closed"}
                       /\ captures' = captures \ {r.tick} /\ accumulator' = r.after
                       /\ lines' \in {lines, Append(lines, LineOf(r))}
                       /\ mainDelay' = [mainDelay EXCEPT !.torn = TRUE]
                       /\ UNCHANGED <<ticking, tickIndex, tickHistory, quarantined, polled, nextLine>>
  BY DEF WriteFails, InterruptedInLine, loopSide
<1>2. /\ r \in TickRecords /\ LineOf(r) \in TickLines
      /\ captures' \in SUBSET (0 .. tickIndex) /\ (tickIndex \in captures' <=> tickIndex \in captures)
  BY <1>1, DueRecord
<1>3. accumulator' \in Quarantines /\ lines' \in Seq(TickLines)
  <2>1. accumulator' \in Quarantines
    BY <1>1, <1>2 DEF TickRecords
  <2>2. lines \in Seq(TickLines)
    BY DEF TickLogInvariant, TickLogTypes
  <2>3. Append(lines, LineOf(r)) \in Seq(TickLines)
    BY <1>2, <2>2
  <2> QED
    BY <1>1, <2>1, <2>2, <2>3
<1>4. /\ mainDelay' \in [ticks : Nat, tooLong : BOOLEAN, joined : BOOLEAN, torn : BOOLEAN]
      /\ mainDelay'.torn = TRUE /\ mainDelay'.joined = mainDelay.joined
  BY <1>1 DEF TickLogInvariant, TickLogTypes
<1>5. TickLogTypes'
  BY <1>1, <1>2, <1>3, <1>4 DEF TickLogInvariant, TickLogTypes
<1>6. HistoryIsTheLast' /\ PolledWasTheLast' /\ RecordsAgree'
  BY <1>1 DEF TickLogInvariant, HistoryIsTheLast, PolledWasTheLast, LastBefore, RecordsAgree, Seen, ToSet
<1>7. CapturesAwait'
  BY <1>1, <1>2 DEF TickLogInvariant, CapturesAwait
<1> QED
  BY <1>1, <1>4, <1>5, <1>6, <1>7 DEF TickLogInvariant

LEMMA PollDrained ==
  ASSUME TickLogInvariant, DrainEnds
  PROVE  TickLogInvariant'
<1>1. /\ main \in {"drain", "lastDrain"} /\ Due = {}
      /\ main' = IF main = "drain" THEN "watch" ELSE "closed"
      /\ polled' = <<>>
      /\ UNCHANGED <<ticking, tickIndex, tickHistory, quarantined, captures, nextLine, accumulator, lines,
                     mainDelay>>
  BY DEF DrainEnds, loopSide, logSide
<1>2. TickLogTypes'
  <2>1. Len(polled') = 0 /\ polled' \in Seq(TickRecords)
    BY <1>1
  <2> QED
    BY <1>1, <2>1, TickLogAssumption DEF TickLogInvariant, TickLogTypes
<1>3. Seen' \subseteq Seen /\ PolledAt' = PolledAt /\ HistoryIsTheLast' /\ CapturesAwait'
  BY <1>1 DEF Seen, ToSet, PolledAt, TickLogInvariant, HistoryIsTheLast, LastBefore, CapturesAwait
<1>4. RecordsAgree' /\ (LinesFollow => LinesFollow')
  BY <1>1, <1>3 DEF TickLogInvariant, RecordsAgree, LinesFollow
<1>5. PolledWasTheLast'
  BY <1>1 DEF PolledWasTheLast
<1>6. NothingLost => NothingLost'
  <2> SUFFICES ASSUME NothingLost PROVE NothingLost'
    OBVIOUS
  <2>1. /\ polled \in Seq(TickRecords) /\ PolledAt \in Int /\ nextLine \in Nat /\ Len(polled) \in Nat
        /\ tickIndex \in Nat /\ mainDelay.ticks \in Nat
    BY DEF TickLogInvariant, TickLogTypes, PolledAt
  <2>2. /\ nextLine <= PolledAt /\ nextLine >= PolledAt - Len(polled)
        /\ \A i \in 1 .. Len(polled) : polled[i].tick = PolledAt - Len(polled) + i - 1
    BY <1>1 DEF TickLogInvariant, PolledWasTheLast, LastBefore, NothingLost
  <2>3. nextLine = PolledAt
    <3> SUFFICES ASSUME nextLine # PolledAt PROVE FALSE
      OBVIOUS
    <3> DEFINE i == nextLine - PolledAt + Len(polled) + 1
    <3>1. i \in 1 .. Len(polled) /\ PolledAt - Len(polled) + i - 1 = nextLine
      BY <2>1, <2>2
    <3> HIDE DEF i
    <3>2. polled[i].tick = nextLine /\ polled[i] \in ToSet(polled)
      <4>1. polled[i].tick = nextLine
        BY <2>2, <3>1
      <4>2. polled[i] \in ToSet(polled)
        BY <2>1, <3>1 DEF ToSet
      <4> QED
        BY <4>1, <4>2
    <3> QED
      BY <1>1, <3>2 DEF Due
  <2>4. mainDelay.joined => PolledAt = tickIndex
    BY <1>1, <2>1 DEF TickLogInvariant, PolledAt
  <2> QED
    BY <1>1, <1>3, <2>1, <2>3, <2>4 DEF NothingLost
<1> QED
  BY <1>1, <1>2, <1>3, <1>4, <1>5, <1>6 DEF TickLogInvariant

LEMMA TickLogStep == TickLogInvariant /\ [TickLogNext]_tickLogVars => TickLogInvariant'
BY TickComputed, TickRecorded, TicksEnd, HistoryTaken, MainStopsWatching, LineWritten, LineBroken, PollDrained
   DEF TickLogNext

LEMMA TickLogIsSafe == TickLogInvariant => TickLogSafe /\ TickLogTypeOK
<1> SUFFICES ASSUME TickLogInvariant PROVE TickLogSafe /\ TickLogTypeOK
  OBVIOUS
<1>1. TickLogTypeOK
  BY DEF TickLogInvariant, TickLogTypes, TickLogTypeOK
<1>2. ASSUME ~mainDelay.torn PROVE LinesInOrder /\ CaptureIsMerged
  <2>1. LinesFollow
    BY <1>2 DEF TickLogInvariant
  <2>2. \A r \in Seen : r.captured /\ r.tick >= nextLine => r.tick \in captures
    BY <2>1 DEF LinesFollow
  <2>3. \A r \in Seen : r.tick < Len(lines) => lines[r.tick + 1].captured = r.captured
    BY <2>1 DEF LinesFollow
  <2> QED
    BY <2>1, <2>2, <2>3, SeenRecords DEF LinesFollow, LinesInOrder, CaptureIsMerged
<1>3. ASSUME ~mainDelay.torn, ~mainDelay.tooLong PROVE AllLogged
  <2> SUFFICES ASSUME main = "closed", mainDelay.joined
               PROVE  Len(lines) = tickIndex /\ accumulator = quarantined
    BY DEF AllLogged
  <2>1. nextLine = tickIndex /\ ticking = "ended" /\ LinesFollow
    BY <1>3 DEF TickLogInvariant, NothingLost
  <2>2. tickIndex \in Nat /\ tickHistory \in Seq(TickRecords) /\ HistorySize \in Nat /\ HistorySize >= 1
    BY TickLogAssumption DEF TickLogInvariant, TickLogTypes
  <2>3. CASE tickIndex = 0
    BY <2>1, <2>3 DEF TickLogInvariant, HistoryIsTheLast, LinesFollow
  <2>4. CASE tickIndex > 0
    <3> DEFINE n == Len(tickHistory)
    <3>1. n \in 1 .. n /\ tickHistory[n].tick = tickIndex - n + n - 1
      BY <2>2, <2>4 DEF TickLogInvariant, HistoryIsTheLast, LastBefore
    <3>2. tickHistory[n] \in Seen /\ tickHistory[n].tick + 1 = nextLine
      BY <2>1, <2>2, <3>1 DEF Seen, ToSet
    <3> QED
      BY <2>1, <2>4, <3>2 DEF TickLogInvariant, HistoryIsTheLast, LinesFollow
  <2> QED
    BY <2>2, <2>3, <2>4
<1> QED
  BY <1>1, <1>2, <1>3 DEF TickLogSafe
=============================================================================
