---------------------------- MODULE DatasetBuild ----------------------------
(***************************************************************************)
(* The datasets a policy is trained on: V2 and V3 are copied, given the    *)
(* task of pick and drop and merged (build_pick_drop_datasets.py), the     *)
(* copy of V3 is merged with V4 (build_pick_drop_v3_v4_combined69_         *)
(* dataset.py).  Either script may be started while the other runs, may    *)
(* die at any point, and recording may go on in a source meanwhile.  And   *)
(* the structure of a dataset is judged (validator.py).                    *)
(***************************************************************************)
EXTENDS Integers, Sequences, FiniteSets

CONSTANTS
  Versions,    \* states of a source, one after the other
  AsExpected,  \* those with the number of episodes and frames the scripts expect
  MaxChanges,  \* bound: changes of the sources
  MaxBuilds    \* bound: starts of the two scripts

ASSUME BuildAssumption ==
  /\ Versions \subseteq Nat /\ 0 \in Versions /\ AsExpected \subseteq Versions
  /\ MaxChanges \in Nat /\ MaxBuilds \in Nat

Sources == {"v2", "v3", "v4"}
Built == {"v2 copy", "v3 copy", "combined65", "combined69"}

VARIABLES
  source,    \* the version of each source; V4 is recorded with the new task
  built,     \* what is at the place of each built dataset
  at65, at69,      \* how far each script is
  force65, force69,
  snap65, snap69,  \* snapshots of the originals before anything is done
  opened69,        \* what merge_datasets saw of the copy of V3 when it opened it
  reports,   \* summary.json of each script: the dataset it was written of
  starts,    \* how often either was started
  forced,    \* history: those ever started with force
  judged     \* what validate_dataset was given and how it ended

buildVars ==
  <<source, built, at65, at69, force65, force69, snap65, snap69, opened69, reports, starts, forced, judged>>

Absent == [parts |-> <<>>, task |-> "absent"]
Partial == [parts |-> <<>>, task |-> "partial"]   \* a directory that is not a dataset
CopyOf(s, task) == [parts |-> <<[of |-> s, version |-> source[s]]>>, task |-> task]
Merged(a, b) ==
  [parts |-> a.parts \o b.parts, task |-> IF a.task = b.task THEN a.task ELSE "mixed"]
IsDataset(d) == d.parts # <<>>

Unjudged == [facts |-> {}, levels |-> {}, exit |-> "none", written |-> FALSE]

BuildInit ==
  /\ source = [s \in Sources |-> 0]
  /\ built = [d \in Built |-> Absent]
  /\ at65 = "idle" /\ at69 = "idle" /\ force65 = FALSE /\ force69 = FALSE
  /\ snap65 = source /\ snap69 = <<>> /\ opened69 = Absent
  /\ reports = [r \in {"combined65", "combined69"} |-> Absent]
  /\ starts = 0
  /\ forced = {} /\ judged = Unjudged

Others65 == <<source, at69, force65, force69, snap69, opened69, starts, forced, judged>>
Others69 == <<source, at65, force65, force69, snap65, starts, forced, judged>>

\* Episodes are recorded into a source, or edited, at any time.
SourceChanges ==
  /\ judged = Unjudged /\ source["v2"] + source["v3"] + source["v4"] < MaxChanges
  /\ \E s \in Sources : source[s] + 1 \in Versions /\ source' = [source EXCEPT ![s] = @ + 1]
  /\ UNCHANGED <<built, at65, at69, force65, force69, snap65, snap69, opened69, reports, starts, forced, judged>>

-----------------------------------------------------------------------------
(* build_pick_drop_datasets.py                                             *)

Start65 ==
  /\ judged = Unjudged /\ at65 = "idle" /\ starts < MaxBuilds
  /\ starts' = starts + 1
  /\ at65' = "copy v2" /\ force65' \in BOOLEAN
  /\ forced' = IF force65' THEN forced \union {"combined65"} ELSE forced
  /\ snap65' = source
  /\ UNCHANGED <<source, built, at69, force69, snap69, opened69, reports, judged>>

\* An assertion, an exception or the end of the process: what is on the disk stays.
Dies65 ==
  /\ at65 # "idle" /\ at65' = "idle"
  /\ UNCHANGED <<built, snap65, reports, Others65>>

\* A directory is there already: with force it is removed, without it the run ends.
Clears65(at, d, next) ==
  /\ at65 = at
  /\ IF built[d] # Absent /\ ~force65 THEN at65' = "idle" /\ UNCHANGED built
     ELSE at65' = next /\ built' = [built EXCEPT ![d] = Partial]
  /\ UNCHANGED <<snap65, reports, Others65>>

ClearV2 == Clears65("copy v2", "v2 copy", "fill v2")
ClearV3 == Clears65("copy v3", "v3 copy", "fill v3")
ClearCombined65 == Clears65("merge", "combined65", "fill combined")

Does65(at, d, content, next) ==
  /\ at65 = at /\ at65' = next /\ built' = [built EXCEPT ![d] = content]
  /\ UNCHANGED <<snap65, reports, Others65>>

CopyV2 == Does65("fill v2", "v2 copy", CopyOf("v2", "old"), "copy v3")
CopyV3 == Does65("fill v3", "v3 copy", CopyOf("v3", "old"), "retask v2")

\* modify_tasks works in place, which is why it is given the copy.
RetaskV2 == Does65("retask v2", "v2 copy", [built["v2 copy"] EXCEPT !.task = "new"], "retask v3")
RetaskV3 == Does65("retask v3", "v3 copy", [built["v3 copy"] EXCEPT !.task = "new"], "check")

\* Only the snapshots of the first two steps: what is copied later is not looked at.
Untouched65Early == at65 # "check" \/ source["v2"] = snap65["v2"]

\* diff_snapshots of both originals.
Untouched65 == source["v2"] = snap65["v2"] /\ source["v3"] = snap65["v3"]

HasExpected(d) == \A i \in DOMAIN d.parts : d.parts[i].version \in AsExpected

\* Steps 3 to 5: differences between the columns of original and copy are reported and
\* not asserted.
Check65 ==
  /\ at65 = "check"
  /\ at65' = IF /\ Untouched65
                /\ \A d \in {"v2 copy", "v3 copy"} : HasExpected(built[d]) /\ built[d].task = "new"
             THEN "merge" ELSE "idle"
  /\ UNCHANGED <<built, snap65, reports, Others65>>

Merge65 ==
  Does65("fill combined", "combined65", Merged(built["v2 copy"], built["v3 copy"]), "validate")

\* Steps 7 and 8, then the comparison with an earlier report, which raises when there
\* is none and has no consequence when it fails.
Validate65 ==
  /\ at65 = "validate"
  /\ at65' = IF HasExpected(built["combined65"]) /\ built["combined65"].task = "new" /\ Untouched65
             THEN "report" ELSE "idle"
  /\ UNCHANGED <<built, snap65, reports, Others65>>

Report65 ==
  /\ at65 = "report" /\ at65' = "reported"
  /\ reports' = [reports EXCEPT !["combined65"] = built["combined65"]]
  /\ UNCHANGED <<built, snap65, Others65>>

-----------------------------------------------------------------------------
(* build_pick_drop_v3_v4_combined69_dataset.py: its original of V3 is the  *)
(* other script's copy.                                                    *)

Originals69 == [copy |-> built["v3 copy"], v4 |-> source["v4"]]

Start69 ==
  /\ judged = Unjudged /\ at69 = "idle" /\ starts < MaxBuilds
  /\ starts' = starts + 1
  /\ at69' = "check" /\ force69' \in BOOLEAN
  /\ forced' = IF force69' THEN forced \union {"combined69"} ELSE forced
  /\ snap69' = Originals69
  /\ UNCHANGED <<source, built, at65, force65, snap65, opened69, reports, judged>>

Dies69 ==
  /\ at69 # "idle" /\ at69' = "idle"
  /\ UNCHANGED <<built, snap69, opened69, reports, Others69>>

\* validate_source_dataset and the schema; a copy that is not there cannot be read.
Check69 ==
  /\ at69 = "check"
  /\ at69' = IF /\ IsDataset(built["v3 copy"]) /\ HasExpected(built["v3 copy"])
                /\ built["v3 copy"].task = "new" /\ source["v4"] \in AsExpected
             THEN "clear" ELSE "idle"
  /\ UNCHANGED <<built, snap69, opened69, reports, Others69>>

Clear69 ==
  /\ at69 = "clear"
  /\ IF built["combined69"] # Absent /\ ~force69 THEN at69' = "idle" /\ UNCHANGED built
     ELSE at69' = "open" /\ built' = [built EXCEPT !["combined69"] = Partial]
  /\ UNCHANGED <<snap69, opened69, reports, Others69>>

\* The datasets are opened, with tasks and episodes; their files are copied after that.
Open69 ==
  /\ at69 = "open"
  /\ IF IsDataset(built["v3 copy"])
     THEN opened69' = built["v3 copy"] /\ at69' = "fill"
     ELSE at69' = "idle" /\ UNCHANGED opened69
  /\ UNCHANGED <<built, snap69, reports, Others69>>

Merge69 ==
  /\ at69 = "fill"
  /\ IF IsDataset(built["v3 copy"])
     THEN /\ built' = [built EXCEPT !["combined69"] =
                        Merged([built["v3 copy"] EXCEPT !.task = opened69.task], CopyOf("v4", "new"))]
          /\ at69' = "untouched"
     ELSE at69' = "idle" /\ UNCHANGED built
  /\ UNCHANGED <<snap69, opened69, reports, Others69>>

\* What counts is that the originals are whole, not that they are the same.
Untouched69IfWhole == IsDataset(Originals69.copy)

Untouched69 == Originals69 = snap69

Validate69 ==
  /\ at69 = "untouched"
  /\ at69' = IF Untouched69 /\ HasExpected(built["combined69"]) /\ built["combined69"].task = "new"
             THEN "report" ELSE "idle"
  /\ UNCHANGED <<built, snap69, opened69, reports, Others69>>

Report69 ==
  /\ at69 = "report" /\ at69' = "reported"
  /\ reports' = [reports EXCEPT !["combined69"] = built["combined69"]]
  /\ UNCHANGED <<built, snap69, opened69, Others69>>

-----------------------------------------------------------------------------
(* validator.py and validate_dataset.py: facts about a dataset, what is    *)
(* found of them and how it ends.                                          *)

Facts ==
  {"directory", "files", "json", "counts", "readable", "rows", "columns", "dims", "finite",
   "noNulls", "noNullTimes", "indices", "lengths", "cameras", "ffprobe", "videos", "videoFrames", "shape"}

\* Without a directory or with an info.json that is none, and when an index is null
\* (astype(int)), nothing but an error comes of it.
Raises(facts) ==
  \/ "directory" \notin facts
  \/ "files" \in facts /\ "json" \notin facts
  \/ {"files", "readable"} \subseteq facts /\ "noNulls" \notin facts

\* Facts whose absence is a FAIL where somebody looked.
Fails(facts) ==
  IF "files" \notin facts THEN {"files"}
  ELSE IF "readable" \notin facts THEN {"counts", "readable"} \ facts
  ELSE ({"counts", "rows", "columns", "finite", "noNullTimes", "indices", "lengths", "cameras"}
          \union (IF "shape" \in facts THEN {"dims"} ELSE {})
          \union (IF "ffprobe" \in facts THEN {"videos"} ELSE {})) \ facts

\* And those whose absence is only a WARN: nobody could look.
Warns(facts) ==
  IF {"files", "readable"} \subseteq facts
  THEN ({"shape", "ffprobe"} \union (IF "ffprobe" \in facts THEN {"videoFrames"} ELSE {})) \ facts
  ELSE {}

\* A warning counts like none unless something failed as well.
ExitCodeLenient(facts, strict) ==
  IF Fails(facts) # {} THEN "failed" ELSE "ok"

ExitCode(facts, strict) ==
  IF Raises(facts) \/ Fails(facts) # {} THEN "failed"
  ELSE IF strict /\ Warns(facts) # {} THEN "warned" ELSE "ok"

\* Bound: not more than two things are wrong at a time.
FewWrong == {{a, b} : a \in Facts, b \in Facts} \union {{}}

JudgeDataset ==
  /\ judged = Unjudged /\ starts = 0
  /\ \E wrong \in FewWrong, strict \in BOOLEAN :
       LET facts == Facts \ wrong
       IN  judged' = [facts |-> facts, exit |-> ExitCode(facts, strict), written |-> ~Raises(facts),
                      levels |-> IF strict THEN {"FAIL", "WARN"} ELSE {"FAIL"}]
  /\ UNCHANGED <<source, built, at65, at69, force65, force69, snap65, snap69, opened69, reports, starts, forced>>

BuildNext ==
  \/ SourceChanges
  \/ Start65 \/ Dies65 \/ ClearV2 \/ CopyV2 \/ ClearV3 \/ CopyV3 \/ RetaskV2 \/ RetaskV3
  \/ Check65 \/ ClearCombined65 \/ Merge65 \/ Validate65 \/ Report65
  \/ Start69 \/ Dies69 \/ Check69 \/ Clear69 \/ Open69 \/ Merge69 \/ Validate69 \/ Report69
  \/ JudgeDataset

BuildSpec == BuildInit /\ [][BuildNext]_buildVars

-----------------------------------------------------------------------------
(* The types of what is on the disk and of the scripts' state.             *)
BuildTypeOK ==
  /\ source \in [Sources -> Versions]
  /\ \A d \in Built :
       /\ built[d].task \in {"absent", "partial", "old", "new", "mixed"}
       /\ \A i \in DOMAIN built[d].parts :
            built[d].parts[i].of \in Sources /\ built[d].parts[i].version \in Versions
  /\ at65 \in {"idle", "copy v2", "fill v2", "copy v3", "fill v3", "retask v2", "retask v3",
               "check", "merge", "fill combined", "validate", "report", "reported"}
  /\ at69 \in {"idle", "check", "clear", "open", "fill", "untouched", "report", "reported"}
  /\ judged.exit \in {"none", "ok", "warned", "failed"}

Whole(d, srcs) ==
  /\ d.task = "new" /\ [i \in DOMAIN d.parts |-> d.parts[i].of] = srcs
  /\ HasExpected(d)

\* A report is written only of a dataset that is whole, in the task's words and of one
\* state of each original: nothing that recording or the other script did meanwhile
\* went in between, unless the copy of V3 was not there when the snapshot was taken.
ReportsAreTrue ==
  /\ at65 = "reported" =>
       /\ Whole(reports["combined65"], <<"v2", "v3">>)
       /\ \A i \in 1 .. 2 :
            reports["combined65"].parts[i].version = snap65[reports["combined65"].parts[i].of]
  /\ at69 = "reported" =>
       /\ Whole(reports["combined69"], <<"v3", "v4">>)
       /\ IsDataset(snap69.copy) =>
            reports["combined69"].parts[1] = snap69.copy.parts[1]
       /\ reports["combined69"].parts[2].version = snap69.v4

\* While nothing is forced, what a report was written of stays on the disk: a run that
\* finds something there ends without a change, whatever an earlier one left behind.
ReportsLast ==
  \A r \in DOMAIN reports : r \notin forced /\ reports[r] # Absent => built[r] = reports[r]

\* Everything was looked at and in order when the strict validation succeeds, and in
\* order where it was looked at when the other does; success leaves a report.
JudgementMeans ==
  judged.exit = "ok" =>
    /\ judged.written
    /\ Facts \ judged.facts \subseteq
         (IF "WARN" \in judged.levels THEN {} ELSE {"ffprobe", "videos", "videoFrames", "shape", "dims"})
    /\ "ffprobe" \in judged.facts => "videos" \in judged.facts
    /\ "shape" \in judged.facts => "dims" \in judged.facts

DatasetsSafe == ReportsAreTrue /\ ReportsLast /\ JudgementMeans
=============================================================================
