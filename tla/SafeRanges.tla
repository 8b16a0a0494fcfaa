----------------------------- MODULE SafeRanges -----------------------------
(***************************************************************************)
(* The ranges a joint was seen in: the analysis of recorded datasets       *)
(* (data_collection/teleop_safe_range_analysis.py, started by              *)
(* scripts/analyze_teleop_safe_ranges.py), whose file the test of one      *)
(* joint reads, and the search for commands outside a joint's range        *)
(* (simulation/mujoco/joint_range_diagnostics.py).                         *)
(*                                                                         *)
(* The analysis looks at the directories one after the other, twice: once  *)
(* to judge and hash each, once to load those it uses.  Meanwhile the      *)
(* directories are recorded into, copied and removed.                      *)
(***************************************************************************)
EXTENDS Integers, FiniteSets, FiniteSetsExt, Sequences, Functions

CONSTANTS
  Roots,            \* 1 .. n: directories, in the order of their paths
  Recordings,
  Angle(_, _),      \* of the joint in a frame of a recording; NotFinite: NaN
  LastFrame,        \* frames of a recording
  MinimumSamples, TrimEvery, RangeMargin,   \* the policy
  MaxDiskChanges, MaxAnalyses,              \* bounds
  SearchedCommands, SearchedFrames, LimitLow, LimitHigh   \* the search: angles, frames, the joint's range

ASSUME RangesAssumption ==
  /\ Roots \subseteq Nat /\ IsFiniteSet(Roots)
  /\ \A recording \in Recordings, i \in 1 .. LastFrame : Angle(recording, i) \in Int
  /\ {LastFrame, MinimumSamples, RangeMargin, MaxDiskChanges, MaxAnalyses, SearchedFrames} \subseteq Nat
  /\ TrimEvery \in Nat \ {0, 1}
  /\ SearchedCommands \cup {LimitLow, LimitHigh} \subseteq Int

VARIABLES
  disk,           \* per directory: info.json, the recording, its frames, the tasks' column
  diskChanges,
  analysis,       \* the script
  ranges,         \* configs/generated/teleop_safe_ranges.json, for one joint
  search          \* the search for runs of commands outside the range

rangesVars == <<disk, diskChanges, analysis, ranges, search>>

NotFinite == -99

\* A book of directories with one more entry.
Entered(book, root, entry) == [r \in DOMAIN book \cup {root} |-> IF r = root THEN entry ELSE book[r]]

NoFile == [whole |-> FALSE, status |-> "none", low |-> 0, high |-> 0, used |-> <<>>, judged |-> <<>>]

-----------------------------------------------------------------------------
(***************************************************************************)
(* One directory.                                                          *)
(***************************************************************************)
\* evaluate_dataset_trust: everything that excludes, in the order of the checks.
Excluded == {"absent", "broken", "old_codebase", "simulated", "no_state", "bad_names"}
Trusted(root) == disk[root].info \notin Excluded /\ disk[root].frames > 0

Content(root) == [recording |-> disk[root].recording, frames |-> disk[root].frames, tasks |-> disk[root].tasks]

\* Mutant of ContentHash: of the path.
PathHash(root) == <<root>>

\* _content_hash: of names and bytes of the data files, nothing of meta/.
ContentHash(root) == Content(root)

\* deduplicate_by_content: the first path of those with the same hash.
Deduplicated(hashes) ==
  {root \in DOMAIN hashes : \A other \in DOMAIN hashes : hashes[other] = hashes[root] => root <= other}

-----------------------------------------------------------------------------
(***************************************************************************)
(* The result for a joint, from a pool: per directory what was loaded.     *)
(***************************************************************************)
Value(pool, sample) == Angle(pool[sample[1]].recording, sample[2])
PooledSamples(pool) ==
  {sample \in (DOMAIN pool) \X (1 .. LastFrame) :
     sample[2] <= pool[sample[1]].frames /\ Value(pool, sample) # NotFinite}

\* Percentiles: so many samples are left out at either end.
Trim(pool) == Cardinality(PooledSamples(pool)) \div TrimEvery
Lowest(pool) ==
  CHOOSE v \in {Value(pool, s) : s \in PooledSamples(pool)} :
    /\ Cardinality({s \in PooledSamples(pool) : Value(pool, s) < v}) <= Trim(pool)
    /\ Cardinality({s \in PooledSamples(pool) : Value(pool, s) <= v}) > Trim(pool)
Highest(pool) ==
  CHOOSE v \in {Value(pool, s) : s \in PooledSamples(pool)} :
    /\ Cardinality({s \in PooledSamples(pool) : Value(pool, s) > v}) <= Trim(pool)
    /\ Cardinality({s \in PooledSamples(pool) : Value(pool, s) >= v}) > Trim(pool)

\* Mutant of JointResult: the margin widens the range.
JointResultWidened(pool, judged) ==
  LET of(status, low, high) ==
        [whole |-> TRUE, status |-> status, low |-> low, high |-> high,
         used |-> pool, judged |-> judged]
  IN IF PooledSamples(pool) = {} THEN of("UNTRUSTED_SOURCE", 0, 0)
     ELSE IF Cardinality(PooledSamples(pool)) < MinimumSamples THEN of("INSUFFICIENT_SAMPLES", 0, 0)
     ELSE IF Lowest(pool) - RangeMargin >= Highest(pool) + RangeMargin THEN of("MARGIN_COLLAPSED", 0, 0)
     ELSE of("TRUSTED", Lowest(pool) - RangeMargin, Highest(pool) + RangeMargin)

\* _compute_joint_result
JointResult(pool, judged) ==
  LET of(status, low, high) ==
        [whole |-> TRUE, status |-> status, low |-> low, high |-> high,
         used |-> pool, judged |-> judged]
  IN IF PooledSamples(pool) = {} THEN of("UNTRUSTED_SOURCE", 0, 0)
     ELSE IF Cardinality(PooledSamples(pool)) < MinimumSamples THEN of("INSUFFICIENT_SAMPLES", 0, 0)
     ELSE IF Lowest(pool) + RangeMargin >= Highest(pool) - RangeMargin THEN of("MARGIN_COLLAPSED", 0, 0)
     ELSE of("TRUSTED", Lowest(pool) + RangeMargin, Highest(pool) - RangeMargin)

-----------------------------------------------------------------------------
(***************************************************************************)
(* The script.  `judged` is history: what a directory held when it was     *)
(* hashed.                                              *)
(***************************************************************************)
Idle(runs) == [phase |-> "idle", todo |-> {}, hashes |-> <<>>, pool |-> <<>>,
               judged |-> <<>>, runs |-> runs]

\* Either the analysis, of directories one of which may be refused, with a file of
\* before or none; or the search, over the commands of an episode.
RangesInit ==
  /\ diskChanges = 0
  /\ ranges = NoFile
  /\ \/ /\ \E info \in Excluded \cup {"fine"}, recording \in [Roots -> Recordings], frames \in 1 .. LastFrame :
             disk = [root \in Roots |-> [info |-> IF root = 1 THEN info ELSE "fine",
                                         recording |-> recording[root], tasks |-> 0,
                                         frames |-> IF root = 1 THEN frames ELSE LastFrame]]
        /\ analysis = Idle(0)
        /\ search = [angles |-> <<>>, i |-> 1, inRun |-> FALSE, start |-> 0, runs |-> {}]
     \/ /\ disk = [root \in Roots |-> [info |-> "absent", recording |-> 1, tasks |-> 0, frames |-> 0]]
        /\ analysis = Idle(MaxAnalyses)
        /\ \E n \in 1 .. SearchedFrames : \E angles \in [1 .. n -> SearchedCommands] :
             search = [angles |-> angles, i |-> 1, inRun |-> FALSE, start |-> 0, runs |-> {}]

\* A take is saved, a directory copied (by the dataset tools with the tasks' column
\* rewritten) or removed.
DiskChanges ==
  /\ search.angles = <<>>
  /\ diskChanges < MaxDiskChanges /\ diskChanges' = diskChanges + 1
  /\ \E root \in Roots :
       \/ disk[root].frames < LastFrame /\ disk' = [disk EXCEPT ![root].frames = @ + 1]
       \/ disk' = [disk EXCEPT ![root].info = "absent", ![root].frames = 0]
       \/ \E from \in Roots \ {root}, tasks \in {0, 1} :
            disk' = [disk EXCEPT ![root] = [disk[from] EXCEPT !.tasks = tasks]]
  /\ UNCHANGED <<analysis, ranges, search>>

\* discover_dataset_roots, or the directories that were given.  Nothing found, or
\* anything that raises: exit 1, and the file stays as it is.
Discovers ==
  /\ analysis.phase = "idle" /\ analysis.runs < MaxAnalyses
  /\ \E candidates \in {Roots, {root \in Roots : disk[root].info # "absent"}} :
       analysis' = IF candidates = {} THEN Idle(analysis.runs + 1)
                   ELSE [Idle(analysis.runs + 1) EXCEPT !.phase = "judge", !.todo = candidates]
  /\ UNCHANGED <<disk, diskChanges, ranges, search>>

\* evaluate_dataset_trust of the next candidate; after the last one the copies are
\* left out.
Evaluates ==
  /\ analysis.phase = "judge"
  /\ LET root == Min(analysis.todo)
         left == analysis.todo \ {root}
         hashes == IF Trusted(root) THEN Entered(analysis.hashes, root, ContentHash(root)) ELSE analysis.hashes
         judged == IF Trusted(root) THEN Entered(analysis.judged, root, Content(root)) ELSE analysis.judged
         used == Deduplicated(hashes)
         noted == [analysis EXCEPT !.hashes = hashes, !.judged = judged]
     IN analysis' = IF left # {} THEN [noted EXCEPT !.todo = left]
                    ELSE IF used = {} THEN Idle(analysis.runs)
                    ELSE [noted EXCEPT !.phase = "load", !.todo = used]
  /\ UNCHANGED <<disk, diskChanges, ranges, search>>

\* _load_state_matrix: whatever is in the directory by now.
Loads ==
  /\ analysis.phase = "load"
  /\ LET root == Min(analysis.todo)
         left == analysis.todo \ {root}
         pool == Entered(analysis.pool, root, Content(root))
     IN analysis' = IF disk[root].frames = 0 THEN Idle(analysis.runs)
                    ELSE [analysis EXCEPT !.todo = left, !.pool = pool,
                                          !.phase = IF left = {} THEN "write" ELSE "load"]
  /\ UNCHANGED <<disk, diskChanges, ranges, search>>

\* write_text() empties the file before it fills it; with --dry-run nothing is
\* written.
Truncates ==
  /\ analysis.phase = "write"
  /\ \/ ranges' = NoFile /\ analysis' = [analysis EXCEPT !.phase = "fill"]
     \/ UNCHANGED ranges /\ analysis' = Idle(analysis.runs)
  /\ UNCHANGED <<disk, diskChanges, search>>

Fills ==
  /\ analysis.phase = "fill"
  /\ ranges' = JointResult(analysis.pool, analysis.judged)
  /\ analysis' = Idle(analysis.runs)
  /\ UNCHANGED <<disk, diskChanges, search>>

Interrupted ==
  /\ analysis.phase # "idle"
  /\ analysis' = Idle(analysis.runs)
  /\ UNCHANGED <<disk, diskChanges, ranges, search>>

-----------------------------------------------------------------------------
(***************************************************************************)
(* The search for commands outside the range: _find_runs over the frames   *)
(* of an episode.                                                          *)
(***************************************************************************)
Over(angle) == angle < LimitLow \/ angle > LimitHigh
OverAmount(angle) == IF angle > LimitHigh THEN angle - LimitHigh ELSE IF angle < LimitLow THEN LimitLow - angle ELSE 0

Searching == search.angles # <<>> /\ search.i <= Len(search.angles)

SearchStep ==
  /\ Searching
  /\ LET over == Over(search.angles[search.i])
         next == [search EXCEPT !.i = @ + 1]
     IN search' = CASE over /\ ~search.inRun -> [next EXCEPT !.inRun = TRUE, !.start = search.i]
                    [] ~over /\ search.inRun ->
                         [next EXCEPT !.inRun = FALSE, !.runs = @ \cup {<<search.start, search.i - 1>>}]
                    [] OTHER -> next
  /\ UNCHANGED <<disk, diskChanges, analysis, ranges>>

\* Mutant of SearchEnds: a run that lasts to the end of the episode is forgotten.
SearchEndsOutside ==
  /\ search.angles # <<>> /\ search.i = Len(search.angles) + 1
  /\ search' = [search EXCEPT !.i = @ + 1]
  /\ UNCHANGED <<disk, diskChanges, analysis, ranges>>

\* After the last frame: a run may last to the end.
SearchEnds ==
  /\ search.angles # <<>> /\ search.i = Len(search.angles) + 1
  /\ search' = [search EXCEPT !.i = @ + 1,
                              !.runs = IF search.inRun THEN @ \cup {<<search.start, search.i - 1>>} ELSE @]
  /\ UNCHANGED <<disk, diskChanges, analysis, ranges>>

RangesNext ==
  \/ DiskChanges \/ Discovers \/ Evaluates \/ Loads \/ Truncates \/ Fills \/ Interrupted
  \/ SearchStep \/ SearchEnds

RangesSpec == RangesInit /\ [][RangesNext]_rangesVars

-----------------------------------------------------------------------------
RangesTypeOK ==
  /\ DOMAIN disk = Roots /\ diskChanges \in 0 .. MaxDiskChanges
  /\ analysis.phase \in {"idle", "judge", "load", "write", "fill"} /\ analysis.todo \subseteq Roots
  /\ ranges.status \in {"none", "UNTRUSTED_SOURCE", "INSUFFICIENT_SAMPLES", "MARGIN_COLLAPSED", "TRUSTED"}

FramesSeen == UNION {{<<p.recording, i>> : i \in 1 .. p.frames} : p \in Range(ranges.used)}

\* A range that is given out was visited by the follower at both ends and beyond, by
\* the margin; whatever happened to the directories while they were read.
RangeWasVisited ==
  ranges.status = "TRUSTED" =>
    /\ ranges.low < ranges.high
    /\ \E f \in FramesSeen : Angle(f[1], f[2]) # NotFinite /\ Angle(f[1], f[2]) + RangeMargin <= ranges.low
    /\ \E f \in FramesSeen : Angle(f[1], f[2]) - RangeMargin >= ranges.high

\* It rests on enough different frames, unless one recording was found in two
\* directories that are not copies byte for byte (the tasks' column of a copy is
\* rewritten, or recording went on), or that changed after they were hashed.
EnoughFrames ==
  ranges.status = "TRUSTED" =>
    \/ Cardinality(FramesSeen) >= MinimumSamples
    \/ \E r, q \in DOMAIN ranges.used :
         /\ r # q /\ ranges.used[r].recording = ranges.used[q].recording
         /\ ranges.used[r] # ranges.used[q] \/ ranges.used # [root \in DOMAIN ranges.used |-> ranges.judged[root]]

\* The runs are the longest ones, and between them they hold every frame that counts
\* as outside: the count, the largest excess and the runs of a report agree.
RunsAreTheExcess ==
  search.angles # <<>> /\ search.i = Len(search.angles) + 2 =>
    LET frames == 1 .. Len(search.angles)
        outside == {i \in frames : OverAmount(search.angles[i]) > 0}
    IN /\ UNION {r[1] .. r[2] : r \in search.runs} = outside
       /\ \A r \in search.runs : {r[1] - 1, r[2] + 1} \cap outside = {}

RangesTrue == RangeWasVisited /\ EnoughFrames /\ RunsAreTheExcess
=============================================================================
