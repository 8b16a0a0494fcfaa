-------------------------- MODULE EpisodeRecording --------------------------
(***************************************************************************)
(* Recording labelled episodes: lerobot_record_runner.py, the labels of    *)
(* episode_labels.py and the start checks of recorder.py.  record() and    *)
(* record_loop() of LeRobot are external.  They call the patched functions *)
(* of the runner; the key listener of LeRobot calls apply_episode_key from *)
(* its own thread, which reads the lifecycle first and acts on it later.   *)
(* A take is one call of the patched record_loop with a dataset.           *)
(***************************************************************************)
EXTENDS Naturals, Sequences

CONSTANTS
  NumEpisodes,   \* --dataset.num_episodes of a session
  SyncSeconds,   \* sync_warmup_s; at 0 no warm-up loop runs
  ResetSeconds,  \* reset_time_s; at 0 the reset loop makes no pass
  MaxTakes,      \* bound: takes of a behaviour
  MaxSessions    \* bound: runs of the recorder

ASSUME RecordingAssumption ==
  NumEpisodes \in Nat \ {0} /\ {SyncSeconds, ResetSeconds, MaxTakes, MaxSessions} \subseteq Nat

VARIABLES
  events,    \* the dictionary the two threads share
  marks,     \* attributes the runner puts on the dataset object
  rec,       \* where record() is, the number of the take and its count
  buffer,    \* the takes whose frames are in the writer's buffer
  disk,      \* whether the dataset exists, its episodes, the label file
  handler,   \* the key being handled: what it is and the take it was read in
  pressed,   \* accepted keys that lead to a save, with the take they were read in
  overtaken  \* takes in which a key of an earlier take took effect

recordingVars ==
  <<events, marks, rec, buffer, disk, handler, pressed, overtaken>>

RecordPhases == {"off", "episode", "sync", "recording", "returned", "discarding",
                 "review", "labelling", "handled", "reset"}
EpisodeTypes == {"clean", "recovery"}
ReviewKeys == {"c", "v", "r", "q"}
TypeOfKey == [c |-> "clean", v |-> "recovery"]
NoKey == [key |-> "none", take |-> 0]

FreshEvents ==
  [lifecycle |-> "prepare", exitEarly |-> FALSE, rerecord |-> FALSE, stop |-> FALSE,
   choice |-> "none", set |-> FALSE]
FreshMarks == [saved |-> FALSE, cleared |-> FALSE, pending |-> "none"]

RecordingInit ==
  /\ events = FreshEvents /\ marks = FreshMarks
  /\ rec = [phase |-> "off", take |-> 0, recorded |-> 0, sessions |-> 0]
  /\ buffer = {}
  /\ disk = [exists |-> FALSE, episodes |-> <<>>, labels |-> <<>>]
  /\ handler = NoKey /\ pressed = {} /\ overtaken = {}

Goto(p) == rec' = [rec EXCEPT !.phase = p]

\* What ends with the process: everything but the disk.
ProcessGone ==
  /\ Goto("off") /\ events' = FreshEvents /\ marks' = FreshMarks
  /\ buffer' = {} /\ handler' = NoKey

-----------------------------------------------------------------------------
(* The labels.                                                             *)

\* A label file that lags behind passes the check.
AlignedUnlessAhead(labels, n) == Len(labels) <= n

Aligned(labels, n) == Len(labels) = n

\* The file is replaced as a whole, by what it held and the new row.
WithLabel(labels, type) == Append(labels, type)

-----------------------------------------------------------------------------
(* Attributes that make the later call of record() empty.                  *)

ClearedBufferMarkKept ==
  /\ buffer' = IF marks.cleared THEN buffer ELSE {}
  /\ marks' = marks

\* clear_episode_buffer: the call after the runner's own discard is swallowed.
ClearedBuffer ==
  /\ buffer' = IF marks.cleared THEN buffer ELSE {}
  /\ marks' = [marks EXCEPT !.cleared = FALSE]

\* The runner's discard: clear, then leave the mark.
Discards ==
  /\ buffer' = IF marks.cleared THEN buffer ELSE {}
  /\ marks' = [marks EXCEPT !.cleared = TRUE]

-----------------------------------------------------------------------------
(* The key listener's thread.                                              *)

Accepted(lifecycle) ==
  IF lifecycle = "recording" THEN {"enter"}
  ELSE IF lifecycle = "review" THEN ReviewKeys ELSE {}

KeyRead(k) ==
  /\ rec.phase # "off" /\ handler = NoKey
  /\ k \in Accepted(events.lifecycle)
  /\ handler' = [key |-> k, take |-> rec.take]
  /\ pressed' = pressed \cup ({<<rec.take, k>>} \ (Nat \X {"r", "q"}))
  /\ UNCHANGED <<events, marks, rec, buffer, disk, overtaken>>

\* Two assignments and, for a choice, the event of the review.
KeyEffect(e, k) ==
  IF k = "enter" THEN [e EXCEPT !.lifecycle = "recording_finished", !.exitEarly = TRUE]
  ELSE [e EXCEPT !.choice = k, !.set = TRUE]

KeyActs ==
  /\ handler # NoKey
  /\ events' = KeyEffect(events, handler.key)
  /\ overtaken' = IF handler.take = rec.take THEN overtaken ELSE overtaken \cup {rec.take}
  /\ handler' = NoKey
  /\ UNCHANGED <<marks, rec, buffer, disk, pressed>>

-----------------------------------------------------------------------------
(* record() and the patched record_loop, in the main thread.               *)

\* record_episodes refuses a new name that exists and a resume of nothing.
RunnerStarts(resume) ==
  /\ rec.phase = "off" /\ rec.sessions < MaxSessions
  /\ disk.exists = resume
  /\ disk' = [disk EXCEPT !.exists = TRUE]
  /\ rec' = [rec EXCEPT !.phase = "episode", !.recorded = 0, !.sessions = @ + 1]
  /\ UNCHANGED <<events, marks, buffer, handler, pressed, overtaken>>

MoreToRecord == rec.recorded < NumEpisodes /\ ~events.stop

StartsTake ==
  /\ rec.phase = "episode" /\ MoreToRecord /\ rec.take < MaxTakes
  /\ rec' = [rec EXCEPT !.phase = "sync", !.take = @ + 1]
  /\ events' = [events EXCEPT !.lifecycle = "sync"]
  /\ UNCHANGED <<marks, buffer, disk, handler, pressed, overtaken>>

SessionEnds ==
  /\ rec.phase = "episode" /\ ~MoreToRecord
  /\ ProcessGone
  /\ UNCHANGED <<disk, pressed, overtaken>>

\* A loop of record_loop that makes a pass consumes exit_early.
LeftOver(seconds) == events.exitEarly /\ seconds = 0

\* The event of the last review is not cleared.
ReadyButStillSet ==
  [events EXCEPT !.lifecycle = "recording", !.exitEarly = LeftOver(SyncSeconds)]

ReadyToRecord ==
  [events EXCEPT !.lifecycle = "recording", !.choice = "none", !.set = FALSE,
                 !.exitEarly = LeftOver(SyncSeconds)]

SyncEnds ==
  /\ rec.phase = "sync"
  /\ events' = ReadyToRecord
  /\ Goto("recording")
  /\ UNCHANGED <<marks, buffer, disk, handler, pressed, overtaken>>

FrameAdded ==
  /\ rec.phase = "recording" /\ ~events.exitEarly
  /\ buffer' = buffer \cup {rec.take}
  /\ UNCHANGED <<events, marks, rec, disk, handler, pressed, overtaken>>

\* By exit_early or at the emergency limit.
RecordingReturns ==
  /\ rec.phase = "recording"
  /\ events' = [events EXCEPT !.exitEarly = FALSE]
  /\ Goto("returned")
  /\ UNCHANGED <<marks, buffer, disk, handler, pressed, overtaken>>

\* Whatever ended the loop counts as finished by the operator.
FinishedAnyhow == TRUE

Finished == events.lifecycle = "recording_finished"

\* The lifecycle stays "recording" while the images of the take are deleted: a
\* key read in between is overwritten, but not its exit_early.
TimesOut ==
  /\ rec.phase = "returned" /\ ~Finished
  /\ Discards
  /\ events' = [events EXCEPT !.rerecord = TRUE]
  /\ Goto("discarding")
  /\ UNCHANGED <<disk, handler, pressed, overtaken>>

DiscardEnds ==
  /\ rec.phase = "discarding"
  /\ events' = [events EXCEPT !.lifecycle = "handled"]
  /\ Goto("handled")
  /\ UNCHANGED <<marks, buffer, disk, handler, pressed, overtaken>>

Reviews ==
  /\ rec.phase = "returned" /\ Finished
  /\ events' = [events EXCEPT !.lifecycle = "review"]
  /\ Goto("review")
  /\ UNCHANGED <<marks, buffer, disk, handler, pressed, overtaken>>

Woken == rec.phase = "review" /\ events.set

\* R and Q, and no choice at all.
ReviewDiscards ==
  /\ Woken /\ events.choice \notin DOMAIN TypeOfKey
  /\ Discards
  /\ events' = [events EXCEPT !.lifecycle = "handled", !.rerecord = TRUE,
                              !.stop = (events.choice = "q")]
  /\ Goto("handled")
  /\ UNCHANGED <<disk, handler, pressed, overtaken>>

\* validate_episode_buffer: an empty buffer never passes, another may not either.
IntegrityFails ==
  /\ Woken /\ events.choice \in DOMAIN TypeOfKey
  /\ Discards
  /\ events' = [events EXCEPT !.lifecycle = "handled", !.rerecord = TRUE]
  /\ Goto("handled")
  /\ UNCHANGED <<disk, handler, pressed, overtaken>>

MaySave == buffer # {} /\ Aligned(disk.labels, Len(disk.episodes))

\* labeled_save_episode up to the end of LeRobot's own save.
SavesData ==
  /\ Woken /\ events.choice \in DOMAIN TypeOfKey /\ MaySave
  /\ disk' = [disk EXCEPT !.episodes = Append(@, buffer)]
  /\ marks' = [marks EXCEPT !.pending = TypeOfKey[events.choice]]
  /\ buffer' = {}
  /\ Goto("labelling")
  /\ UNCHANGED <<events, handler, pressed, overtaken>>

\* The label, the mark that swallows the save of record(), the lifecycle.
SavesLabel ==
  /\ rec.phase = "labelling"
  /\ disk' = [disk EXCEPT !.labels = WithLabel(@, marks.pending)]
  /\ marks' = [marks EXCEPT !.saved = TRUE, !.pending = "none"]
  /\ events' = [events EXCEPT !.lifecycle = "handled"]
  /\ Goto("handled")
  /\ UNCHANGED <<buffer, handler, pressed, overtaken>>

\* Before a repeated take, and after every episode but the last.
ResetNeeded == ~events.stop /\ (rec.recorded + 1 < NumEpisodes \/ events.rerecord)

\* Only a lifecycle nobody has overwritten becomes "reset".
StartsReset ==
  /\ rec.phase = "handled" /\ ResetNeeded
  /\ events' = IF events.lifecycle = "handled"
               THEN [events EXCEPT !.lifecycle = "reset"] ELSE events
  /\ Goto("reset")
  /\ UNCHANGED <<marks, buffer, disk, handler, pressed, overtaken>>

\* record() after the reset, when the take is to be repeated.  The lifecycle is not
\* read before the next take sets it.
RepeatsTake ==
  /\ events.rerecord
  /\ ClearedBuffer
  /\ events' = [events EXCEPT !.rerecord = FALSE, !.exitEarly = FALSE, !.lifecycle = "prepare"]
  /\ Goto("episode")
  /\ UNCHANGED disk

\* Otherwise record() saves, which the mark makes empty.
CountsEpisode ==
  /\ ~events.rerecord /\ marks.saved
  /\ marks' = [marks EXCEPT !.saved = FALSE]
  /\ events' = [events EXCEPT !.exitEarly = LeftOver(ResetSeconds), !.lifecycle = "prepare"]
  /\ rec' = [rec EXCEPT !.phase = "episode", !.recorded = @ + 1]
  /\ UNCHANGED <<buffer, disk>>

EndsTake ==
  /\ rec.phase = "reset" \/ (rec.phase = "handled" /\ ~ResetNeeded)
  /\ RepeatsTake \/ CountsEpisode
  /\ UNCHANGED <<handler, pressed, overtaken>>

\* Ctrl-C, an exception of LeRobot, or the EpisodeLabelError of a misaligned
\* dataset: the data of a take may be saved and its label not.
RecorderCrashes ==
  /\ rec.phase # "off"
  /\ ProcessGone
  /\ UNCHANGED <<disk, pressed, overtaken>>

RecordingNext ==
  \/ \E resume \in BOOLEAN : RunnerStarts(resume)
  \/ StartsTake \/ SyncEnds \/ FrameAdded \/ RecordingReturns
  \/ TimesOut \/ DiscardEnds \/ Reviews \/ ReviewDiscards \/ IntegrityFails
  \/ SavesData \/ SavesLabel \/ StartsReset \/ EndsTake \/ SessionEnds
  \/ RecorderCrashes
  \/ (\E k \in {"enter"} \cup ReviewKeys : KeyRead(k)) \/ KeyActs

RecordingSpec == RecordingInit /\ [][RecordingNext]_recordingVars

-----------------------------------------------------------------------------
RecordingTypeOK ==
  /\ rec \in [phase : RecordPhases, take : 0 .. MaxTakes, recorded : 0 .. NumEpisodes,
              sessions : 0 .. MaxSessions]
  /\ marks \in [saved : BOOLEAN, cleared : BOOLEAN, pending : EpisodeTypes \cup {"none"}]
  /\ buffer \subseteq 1 .. MaxTakes
  /\ disk.labels \in Seq(EpisodeTypes) /\ disk.episodes \in Seq(SUBSET (1 .. MaxTakes))

\* An episode on disk holds the frames of one take, and no two hold the same: a
\* discard that is swallowed too often, or a save that is not swallowed, would mix
\* takes or store one twice (the two attributes on the dataset).
OneTakeEach ==
  /\ \A i \in 1 .. Len(disk.episodes) : \E t \in 1 .. MaxTakes : disk.episodes[i] = {t}
  /\ \A i, j \in 1 .. Len(disk.episodes) : disk.episodes[i] = disk.episodes[j] => i = j

\* The label of an episode is a key the operator pressed while reviewing that very
\* take, after finishing that very take, unless a key read in an earlier take
\* took effect in this one (the event and the choice are cleared at each take).
LabelledByItsReview ==
  \A i \in 1 .. Len(disk.labels) : \A t \in disk.episodes[i] \ overtaken :
    /\ <<t, "enter">> \in pressed
    /\ \E k \in DOMAIN TypeOfKey :
         TypeOfKey[k] = disk.labels[i] /\ <<t, k>> \in pressed

\* The labels never run ahead of the episodes and fall behind by the last one only,
\* however often the recorder is stopped between the two (validate_label_alignment
\* refuses every later save).
LabelsFollow == Len(disk.episodes) - Len(disk.labels) \in {0, 1}

\* Between two takes nothing is left over: an empty buffer and no attribute that
\* would swallow a call of the next take.
CleanBetweenTakes ==
  rec.phase \in {"episode", "sync"} => buffer = {} /\ ~marks.saved /\ ~marks.cleared

RecordingSafe == OneTakeEach /\ LabelledByItsReview /\ LabelsFollow /\ CleanBetweenTakes
=============================================================================
