----------------------------- MODULE ToolsProofs -----------------------------
(***************************************************************************)
(* The tools around the runtime keep their promises for every value of     *)
(* their constants.  The parts of DiagnosticsProofs are joined here by     *)
(* the recording of episodes, the building of datasets, the judgement of a *)
(* rollout, the replay, a step in shadow, the layer before MuJoCo and the  *)
(* comparison of policies; the theorems at the end are about the           *)
(* specification that is model-checked, in which a behaviour is one part.  *)
(***************************************************************************)
EXTENDS Tools, DiagnosticsProofs

(***************************************************************************)
(* The recording of episodes.                                              *)
(***************************************************************************)
TakeNumbers == 1 .. MaxTakes
BetweenTakes == {"off", "episode"}
UnderWay == {"sync", "recording", "returned", "review"}
TakeOver == {"handled", "reset"}
Lifecycles == {"prepare", "sync", "recording", "recording_finished", "handled", "review", "reset"}
KeysHeard == {"enter"} \cup ReviewKeys

RecordingTypes ==
  /\ rec \in [phase : RecordPhases, take : 0 .. MaxTakes, recorded : 0 .. NumEpisodes,
              sessions : 0 .. MaxSessions]
  /\ marks \in [saved : BOOLEAN, cleared : BOOLEAN, pending : EpisodeTypes \cup {"none"}]
  /\ buffer \in SUBSET TakeNumbers
  /\ disk \in [exists : BOOLEAN, episodes : Seq(SUBSET TakeNumbers), labels : Seq(EpisodeTypes)]
  /\ events \in [lifecycle : Lifecycles, exitEarly : BOOLEAN, rerecord : BOOLEAN, stop : BOOLEAN,
                 choice : {"none"} \cup ReviewKeys, set : BOOLEAN]
  /\ handler \in {NoKey} \cup [key : KeysHeard, take : Nat]

\* Where record() is says what its two attributes are, and what is in the buffer.
MarksByPhase ==
  /\ rec.phase \in BetweenTakes \cup UnderWay \cup {"labelling"} =>
       ~marks.saved /\ ~marks.cleared /\ ~events.rerecord
  /\ rec.phase = "discarding" => ~marks.saved /\ marks.cleared /\ events.rerecord
  /\ rec.phase \in TakeOver => marks.saved = ~events.rerecord /\ marks.cleared = events.rerecord
  /\ rec.phase \notin {"recording", "returned", "review"} => buffer = {}
  /\ buffer \subseteq {rec.take}
  /\ rec.phase \notin BetweenTakes => rec.take >= 1 /\ rec.recorded < NumEpisodes

\* The episodes on disk are of earlier takes while one is under way.
EpisodesOfTakes ==
  /\ OneTakeEach
  /\ \A i \in 1 .. Len(disk.episodes) : \A t \in disk.episodes[i] :
       t <= rec.take /\ (rec.phase \in UnderWay => t < rec.take)
  /\ rec.phase = "labelling" =>
       /\ Len(disk.episodes) = Len(disk.labels) + 1
       /\ disk.episodes[Len(disk.episodes)] = {rec.take}

\* A key was pressed in this take, or a key of an earlier one took effect in it.
Said(keys) == rec.take \in overtaken \/ \E k \in keys : <<rec.take, k>> \in pressed

KeysOfTheTake ==
  /\ handler.key \in {"enter", "c", "v"} => <<handler.take, handler.key>> \in pressed
  /\ events.lifecycle = "recording_finished" => Said({"enter"})
  /\ rec.phase \in {"review", "labelling"} => Said({"enter"})
  /\ rec.phase \in {"recording", "returned", "review"} /\ events.choice \in {"c", "v"} =>
       Said({events.choice})
  /\ rec.phase = "labelling" =>
       /\ marks.pending \in EpisodeTypes
       /\ Said({k \in {"c", "v"} : TypeOfKey[k] = marks.pending})

RecordingInvariant ==
  /\ RecordingTypes /\ MarksByPhase /\ EpisodesOfTakes /\ KeysOfTheTake
  /\ LabelledByItsReview /\ LabelsFollow

LEMMA RecordingBegins == RecordingInit => RecordingInvariant
<1> SUFFICES ASSUME RecordingInit PROVE RecordingInvariant
  OBVIOUS
<1>1. RecordingTypes
  <2>1. /\ rec.phase = "off" /\ 0 \in 0 .. MaxTakes /\ 0 \in 0 .. NumEpisodes /\ 0 \in 0 .. MaxSessions
        /\ rec = [phase |-> "off", take |-> 0, recorded |-> 0, sessions |-> 0]
    BY RecordingAssumption DEF RecordingInit
  <2>2. /\ marks \in [saved : BOOLEAN, cleared : BOOLEAN, pending : EpisodeTypes \cup {"none"}]
        /\ buffer \in SUBSET TakeNumbers
        /\ handler \in {NoKey} \cup [key : KeysHeard, take : Nat]
    BY DEF RecordingInit, FreshMarks, NoKey
  <2>3. /\ disk = [exists |-> FALSE, episodes |-> <<>>, labels |-> <<>>]
        /\ <<>> \in Seq(SUBSET TakeNumbers) /\ <<>> \in Seq(EpisodeTypes)
    BY DEF RecordingInit
  <2>4. events \in [lifecycle : Lifecycles, exitEarly : BOOLEAN, rerecord : BOOLEAN, stop : BOOLEAN,
                    choice : {"none"} \cup ReviewKeys, set : BOOLEAN]
    BY DEF RecordingInit, FreshEvents, Lifecycles
  <2>5. disk \in [exists : BOOLEAN, episodes : Seq(SUBSET TakeNumbers), labels : Seq(EpisodeTypes)]
    BY <2>3
  <2>6. rec \in [phase : RecordPhases, take : 0 .. MaxTakes, recorded : 0 .. NumEpisodes,
                 sessions : 0 .. MaxSessions]
    BY <2>1 DEF RecordPhases
  <2> QED
    BY <2>2, <2>4, <2>5, <2>6 DEF RecordingTypes
<1>2. MarksByPhase
  BY DEF RecordingInit, MarksByPhase, BetweenTakes, UnderWay, TakeOver, FreshMarks, FreshEvents
<1>3. KeysOfTheTake
  BY DEF RecordingInit, KeysOfTheTake, FreshEvents, NoKey
<1>4. EpisodesOfTakes /\ LabelledByItsReview /\ LabelsFollow
  <2>1. Len(disk.episodes) = 0 /\ Len(disk.labels) = 0 /\ rec.phase = "off"
    BY DEF RecordingInit
  <2> QED
    BY <2>1 DEF EpisodesOfTakes, OneTakeEach, LabelledByItsReview, LabelsFollow
<1> QED
  BY <1>1, <1>2, <1>3, <1>4 DEF RecordingInvariant

LEMMA KeyTypes ==
  /\ DOMAIN TypeOfKey = {"c", "v"} /\ TypeOfKey["c"] = "clean" /\ TypeOfKey["v"] = "recovery"
  /\ \A k \in {"c", "v"} : TypeOfKey[k] \in EpisodeTypes
BY DEF TypeOfKey, EpisodeTypes

\* What was said stays said in the same take.
LEMMA SaidStays ==
  ASSUME NEW keys, Said(keys), rec'.take = rec.take, overtaken \subseteq overtaken', pressed \subseteq pressed'
  PROVE  Said(keys)'
BY DEF Said

\* A step that leaves the disk alone keeps what is said of it.
LEMMA DiskKept ==
  ASSUME RecordingInvariant, disk'.episodes = disk.episodes, disk'.labels = disk.labels,
         overtaken \subseteq overtaken', pressed \subseteq pressed',
         \/ rec' = rec
         \/ /\ rec'.take = rec.take /\ rec'.phase # "labelling"
            /\ rec'.phase \in UnderWay => rec.phase \in UnderWay
         \/ rec'.take = rec.take + 1 /\ rec'.phase # "labelling"
  PROVE  EpisodesOfTakes' /\ LabelledByItsReview' /\ LabelsFollow'
<1>1. rec.take \in Nat
  BY RecordingAssumption DEF RecordingInvariant, RecordingTypes
<1>2. OneTakeEach' /\ LabelsFollow'
  <2>1. OneTakeEach'
    BY DEF RecordingInvariant, EpisodesOfTakes, OneTakeEach
  <2>2. LabelsFollow'
    BY DEF RecordingInvariant, LabelsFollow
  <2> QED
    BY <2>1, <2>2
<1>3. \A i \in 1 .. Len(disk.episodes) : \A t \in disk.episodes[i] : t \in Nat
  BY DEF RecordingInvariant, RecordingTypes, TakeNumbers
<1>4. LabelledByItsReview'
  BY DEF RecordingInvariant, LabelledByItsReview
<1>5. EpisodesOfTakes'
  BY <1>1, <1>2, <1>3 DEF RecordingInvariant, EpisodesOfTakes
<1> QED
  BY <1>2, <1>4, <1>5

-----------------------------------------------------------------------------
\* The key listener: what it reads is remembered as pressed, what it does later takes
\* effect in the take that is under way by then.
LEMMA ListenerKeeps ==
  ASSUME RecordingInvariant,
         (\E k \in {"enter"} \cup ReviewKeys : KeyRead(k)) \/ KeyActs
  PROVE  RecordingInvariant'
<1>1. CASE \E k \in {"enter"} \cup ReviewKeys : KeyRead(k)
  <2>1. PICK k \in {"enter"} \cup ReviewKeys : KeyRead(k)
    BY <1>1
  <2>2. /\ handler' = [key |-> k, take |-> rec.take]
        /\ pressed' = pressed \cup ({<<rec.take, k>>} \ (Nat \X {"r", "q"}))
        /\ UNCHANGED <<events, marks, rec, buffer, disk, overtaken>>
    BY <2>1 DEF KeyRead
  <2>3. rec.take \in Nat
    BY RecordingAssumption DEF RecordingInvariant, RecordingTypes
  <2>4. RecordingTypes'
    BY <2>2, <2>3 DEF RecordingInvariant, RecordingTypes, KeysHeard
  <2>5. MarksByPhase'
    BY <2>2 DEF RecordingInvariant, MarksByPhase
  <2>6. KeysOfTheTake'
    <3>1. k \in {"enter", "c", "v"} => <<rec.take, k>> \in pressed'
      BY <2>2
    <3> QED
      BY <2>2, <3>1 DEF RecordingInvariant, KeysOfTheTake, Said
  <2> QED
    BY <2>2, <2>4, <2>5, <2>6, DiskKept DEF RecordingInvariant
<1>2. CASE KeyActs
  <2>1. /\ handler # NoKey /\ handler' = NoKey
        /\ events' = KeyEffect(events, handler.key)
        /\ overtaken' = IF handler.take = rec.take THEN overtaken ELSE overtaken \cup {rec.take}
        /\ UNCHANGED <<marks, rec, buffer, disk, pressed>>
    BY <1>2 DEF KeyActs
  <2>2. handler \in [key : KeysHeard, take : Nat]
    BY <2>1 DEF RecordingInvariant, RecordingTypes
  <2>3. PICK k \in KeysHeard : k = handler.key
    BY <2>2
  <2>4. events' \in [lifecycle : Lifecycles, exitEarly : BOOLEAN, rerecord : BOOLEAN, stop : BOOLEAN,
                     choice : {"none"} \cup ReviewKeys, set : BOOLEAN]
    BY <2>1, <2>3 DEF RecordingInvariant, RecordingTypes, KeyEffect, Lifecycles, KeysHeard
  <2>5. /\ events'.rerecord = events.rerecord
        /\ k = "enter" => events'.choice = events.choice
        /\ k # "enter" => events'.lifecycle = events.lifecycle /\ events'.choice = k
    BY <2>1, <2>3 DEF RecordingInvariant, RecordingTypes, KeyEffect
  <2>6. k \in {"enter", "c", "v"} => Said({k})'
    BY <2>1, <2>3 DEF RecordingInvariant, KeysOfTheTake, Said
  <2>7. \A keys : Said(keys) => Said(keys)'
    BY <2>1 DEF Said
  <2>8. RecordingTypes'
    BY <2>1, <2>4 DEF RecordingInvariant, RecordingTypes
  <2>9. MarksByPhase'
    BY <2>1, <2>5 DEF RecordingInvariant, MarksByPhase
  <2>10. handler'.key = "none"
    BY <2>1 DEF NoKey
  <2>11. (events.lifecycle = "recording_finished")' => Said({"enter"})'
    BY <2>5, <2>6, <2>7 DEF RecordingInvariant, KeysOfTheTake
  <2>12. (rec.phase \in {"review", "labelling"})' => Said({"enter"})'
    BY <2>1, <2>7 DEF RecordingInvariant, KeysOfTheTake
  <2>13. ASSUME (rec.phase \in {"recording", "returned", "review"} /\ events.choice \in {"c", "v"})'
         PROVE  Said({events.choice})'
    <3>1. CASE k = "enter"
      <4>1. events'.choice = events.choice /\ Said({events.choice})
        BY <2>1, <2>5, <2>13, <3>1 DEF RecordingInvariant, KeysOfTheTake
      <4> QED
        BY <2>1, <4>1 DEF Said
    <3>2. CASE k # "enter"
      BY <2>5, <2>6, <2>13, <3>2 DEF Said
    <3> QED
      BY <3>1, <3>2
  <2>14. (rec.phase = "labelling")' =>
           /\ (marks.pending \in EpisodeTypes)'
           /\ Said({kk \in {"c", "v"} : TypeOfKey[kk] = marks.pending})'
    BY <2>1 DEF RecordingInvariant, KeysOfTheTake, Said
  <2>15. KeysOfTheTake'
    BY <2>10, <2>11, <2>12, <2>13, <2>14 DEF KeysOfTheTake
  <2> QED
    BY <2>1, <2>8, <2>9, <2>15, DiskKept DEF RecordingInvariant
<1> QED
  BY <1>1, <1>2

-----------------------------------------------------------------------------
(* record() and the patched record_loop.                                   *)
RecTypes ==
  [phase : RecordPhases, take : 0 .. MaxTakes, recorded : 0 .. NumEpisodes, sessions : 0 .. MaxSessions]
EventTypes ==
  [lifecycle : Lifecycles, exitEarly : BOOLEAN, rerecord : BOOLEAN, stop : BOOLEAN,
   choice : {"none"} \cup ReviewKeys, set : BOOLEAN]
MarkTypes == [saved : BOOLEAN, cleared : BOOLEAN, pending : EpisodeTypes \cup {"none"}]

LEMMA GoesTo ==
  ASSUME RecordingTypes, NEW p \in RecordPhases, Goto(p)
  PROVE  /\ rec' \in RecTypes /\ rec'.phase = p /\ rec'.take = rec.take /\ rec'.recorded = rec.recorded
         /\ rec.take \in Nat /\ rec.recorded \in Nat
<1>1. NumEpisodes \in Nat /\ MaxTakes \in Nat
  BY RecordingAssumption
<1> QED
  BY <1>1 DEF RecordingTypes, Goto, RecTypes

\* The end of the process leaves the disk and nothing else.
LEMMA ProcessEnds ==
  ASSUME RecordingInvariant, ProcessGone, UNCHANGED <<disk, pressed, overtaken>>
  PROVE  RecordingInvariant'
<1>1. /\ rec' \in RecTypes /\ rec'.phase = "off" /\ rec'.take = rec.take
      /\ events' = FreshEvents /\ marks' = FreshMarks /\ buffer' = {} /\ handler' = NoKey
  BY GoesTo DEF RecordingInvariant, ProcessGone, RecordPhases
<1>2. events' \in EventTypes /\ marks' \in MarkTypes
  BY <1>1 DEF EventTypes, MarkTypes, FreshEvents, FreshMarks, Lifecycles
<1>3. RecordingTypes'
  BY <1>1, <1>2 DEF RecordingInvariant, RecordingTypes, RecTypes, EventTypes, MarkTypes
<1>4. MarksByPhase'
  BY <1>1 DEF MarksByPhase, FreshMarks, FreshEvents, BetweenTakes, UnderWay, TakeOver
<1>5. KeysOfTheTake'
  BY <1>1 DEF KeysOfTheTake, FreshEvents, NoKey
<1>6. EpisodesOfTakes' /\ LabelledByItsReview' /\ LabelsFollow'
  BY <1>1, DiskKept DEF UnderWay
<1> QED
  BY <1>3, <1>4, <1>5, <1>6 DEF RecordingInvariant

\* From the start of the runner to the end of the warm-up.
LEMMA TakeBegins ==
  ASSUME RecordingInvariant, (\E resume \in BOOLEAN : RunnerStarts(resume)) \/ StartsTake \/ SyncEnds
  PROVE  RecordingInvariant'
<1>1. CASE \E resume \in BOOLEAN : RunnerStarts(resume)
  <2>1. /\ rec.phase = "off" /\ rec.sessions < MaxSessions
        /\ disk' = [disk EXCEPT !.exists = TRUE]
        /\ rec' = [rec EXCEPT !.phase = "episode", !.recorded = 0, !.sessions = @ + 1]
        /\ UNCHANGED <<events, marks, buffer, handler, pressed, overtaken>>
    BY <1>1 DEF RunnerStarts
  <2>2. /\ disk' \in [exists : BOOLEAN, episodes : Seq(SUBSET TakeNumbers), labels : Seq(EpisodeTypes)]
        /\ disk'.episodes = disk.episodes /\ disk'.labels = disk.labels
    BY <2>1 DEF RecordingInvariant, RecordingTypes
  <2>3. rec' \in RecTypes /\ rec'.phase = "episode" /\ rec'.take = rec.take
    <3>1. NumEpisodes \in Nat /\ MaxTakes \in Nat /\ MaxSessions \in Nat
      BY RecordingAssumption
    <3>2. rec.sessions + 1 \in 0 .. MaxSessions /\ 0 \in 0 .. NumEpisodes
      BY <2>1, <3>1 DEF RecordingInvariant, RecordingTypes
    <3> QED
      BY <2>1, <3>2 DEF RecordingInvariant, RecordingTypes, RecTypes, RecordPhases
  <2>4. RecordingTypes'
    BY <2>1, <2>2, <2>3 DEF RecordingInvariant, RecordingTypes, RecTypes
  <2>5. MarksByPhase'
    BY <2>1, <2>3 DEF RecordingInvariant, MarksByPhase, BetweenTakes, UnderWay, TakeOver
  <2>6. KeysOfTheTake'
    BY <2>1, <2>3 DEF RecordingInvariant, KeysOfTheTake, Said
  <2>7. EpisodesOfTakes' /\ LabelledByItsReview' /\ LabelsFollow'
    BY <2>1, <2>2, <2>3, DiskKept DEF UnderWay
  <2> QED
    BY <2>4, <2>5, <2>6, <2>7 DEF RecordingInvariant
<1>2. CASE StartsTake
  <2>1. /\ rec.phase = "episode" /\ rec.recorded < NumEpisodes /\ rec.take < MaxTakes
        /\ rec' = [rec EXCEPT !.phase = "sync", !.take = @ + 1]
        /\ events' = [events EXCEPT !.lifecycle = "sync"]
        /\ UNCHANGED <<marks, buffer, disk, handler, pressed, overtaken>>
    BY <1>2 DEF StartsTake, MoreToRecord
  <2>2. /\ rec' \in RecTypes /\ rec'.phase = "sync" /\ rec'.take = rec.take + 1
        /\ rec'.recorded = rec.recorded /\ rec.take \in Nat
    <3>1. NumEpisodes \in Nat /\ MaxTakes \in Nat
      BY RecordingAssumption
    <3>2. rec.take + 1 \in 0 .. MaxTakes /\ rec.take \in Nat
      BY <2>1, <3>1 DEF RecordingInvariant, RecordingTypes
    <3> QED
      BY <2>1, <3>2 DEF RecordingInvariant, RecordingTypes, RecTypes, RecordPhases
  <2>3. events' \in EventTypes /\ events'.lifecycle = "sync" /\ events'.rerecord = events.rerecord
    BY <2>1 DEF RecordingInvariant, RecordingTypes, EventTypes, Lifecycles
  <2>4. RecordingTypes'
    BY <2>1, <2>2, <2>3 DEF RecordingInvariant, RecordingTypes, RecTypes, EventTypes
  <2>5. MarksByPhase'
    BY <2>1, <2>2, <2>3 DEF RecordingInvariant, MarksByPhase, BetweenTakes, UnderWay, TakeOver
  <2>6. KeysOfTheTake'
    BY <2>1, <2>2, <2>3 DEF RecordingInvariant, KeysOfTheTake
  <2>7. EpisodesOfTakes' /\ LabelledByItsReview' /\ LabelsFollow'
    BY <2>1, <2>2, DiskKept
  <2> QED
    BY <2>4, <2>5, <2>6, <2>7 DEF RecordingInvariant
<1>3. CASE SyncEnds
  <2>1. /\ rec.phase = "sync" /\ events' = ReadyToRecord
        /\ UNCHANGED <<marks, buffer, disk, handler, pressed, overtaken>>
    BY <1>3 DEF SyncEnds
  <2>2. /\ rec' \in RecTypes /\ rec'.phase = "recording" /\ rec'.take = rec.take
        /\ rec'.recorded = rec.recorded
    BY <1>3, GoesTo DEF SyncEnds, RecordingInvariant, RecordPhases
  <2>3. /\ events' \in EventTypes /\ events'.lifecycle = "recording" /\ events'.rerecord = events.rerecord
        /\ events'.choice = "none"
    <3>1. LeftOver(SyncSeconds) \in BOOLEAN
      BY DEF LeftOver, RecordingInvariant, RecordingTypes
    <3> QED
      BY <2>1, <3>1 DEF RecordingInvariant, RecordingTypes, EventTypes, Lifecycles, ReadyToRecord
  <2>4. RecordingTypes'
    BY <2>1, <2>2, <2>3 DEF RecordingInvariant, RecordingTypes, RecTypes, EventTypes
  <2>5. MarksByPhase'
    BY <2>1, <2>2, <2>3 DEF RecordingInvariant, MarksByPhase, BetweenTakes, UnderWay, TakeOver
  <2>6. KeysOfTheTake'
    BY <2>1, <2>2, <2>3 DEF RecordingInvariant, KeysOfTheTake
  <2>7. EpisodesOfTakes' /\ LabelledByItsReview' /\ LabelsFollow'
    BY <2>1, <2>2, DiskKept DEF UnderWay
  <2> QED
    BY <2>4, <2>5, <2>6, <2>7 DEF RecordingInvariant
<1> QED
  BY <1>1, <1>2, <1>3

\* Frames are of the take under way.
LEMMA FrameKeepsBuffer ==
  ASSUME RecordingInvariant, FrameAdded
  PROVE  RecordingInvariant'
<1>1. /\ rec.phase = "recording" /\ buffer' = buffer \cup {rec.take}
      /\ UNCHANGED <<events, marks, rec, disk, handler, pressed, overtaken>>
  BY DEF FrameAdded
<1>2. rec.take \in TakeNumbers
  BY <1>1, RecordingAssumption
     DEF RecordingInvariant, RecordingTypes, MarksByPhase, BetweenTakes, TakeNumbers
<1>3. RecordingTypes'
  BY <1>1, <1>2 DEF RecordingInvariant, RecordingTypes
<1>4. MarksByPhase'
  BY <1>1 DEF RecordingInvariant, MarksByPhase
<1>5. KeysOfTheTake'
  BY <1>1 DEF RecordingInvariant, KeysOfTheTake, Said
<1>6. EpisodesOfTakes' /\ LabelledByItsReview' /\ LabelsFollow'
  BY <1>1, DiskKept
<1> QED
  BY <1>3, <1>4, <1>5, <1>6 DEF RecordingInvariant

\* A step of the main thread that moves it within a take and leaves the disk.
LEMMA MoveKeeps ==
  ASSUME RecordingInvariant, NEW p \in RecordPhases, Goto(p), p \notin {"off", "episode", "labelling", "sync"},
         p \in UnderWay => rec.phase \in UnderWay,
         UNCHANGED <<disk, handler, pressed, overtaken>>,
         events' \in EventTypes, marks' \in MarkTypes, buffer' \in SUBSET buffer,
         MarksByPhase',
         events'.choice = events.choice,
         events'.lifecycle # "recording_finished" \/ events'.lifecycle = events.lifecycle,
         p = "review" => events.lifecycle = "recording_finished",
         p \in {"recording", "returned", "review"} => rec.phase \in {"recording", "returned", "review"}
  PROVE  RecordingInvariant'
<1>1. /\ rec' \in RecTypes /\ rec'.phase = p /\ rec'.take = rec.take /\ rec'.recorded = rec.recorded
  BY GoesTo DEF RecordingInvariant
<1>2. RecordingTypes'
  BY <1>1 DEF RecordingInvariant, RecordingTypes, RecTypes, EventTypes, MarkTypes
<1>3. KeysOfTheTake'
  <2>1. \A keys : Said(keys)' <=> Said(keys)
    BY <1>1 DEF Said
  <2>2. (rec.phase = "labelling")' <=> FALSE
    BY <1>1
  <2>3. (handler.key \in {"enter", "c", "v"} => <<handler.take, handler.key>> \in pressed)'
    BY DEF RecordingInvariant, KeysOfTheTake
  <2>4. (events.lifecycle = "recording_finished")' => Said({"enter"})'
    BY <2>1 DEF RecordingInvariant, KeysOfTheTake
  <2>5. (rec.phase \in {"review", "labelling"})' => Said({"enter"})'
    BY <1>1, <2>1, <2>2 DEF RecordingInvariant, KeysOfTheTake
  <2>6. (rec.phase \in {"recording", "returned", "review"} /\ events.choice \in {"c", "v"})' => Said({events.choice})'
    BY <1>1 DEF RecordingInvariant, KeysOfTheTake, Said
  <2> QED
    BY <2>2, <2>3, <2>4, <2>5, <2>6 DEF KeysOfTheTake
<1>4. EpisodesOfTakes' /\ LabelledByItsReview' /\ LabelsFollow'
  BY <1>1, DiskKept
<1> QED
  BY <1>2, <1>3, <1>4 DEF RecordingInvariant

\* The runner's own discard leaves nothing but the mark.
LEMMA Discarded ==
  ASSUME RecordingInvariant, rec.phase \in {"returned", "review"}, Discards
  PROVE  /\ buffer' = {} /\ marks' \in MarkTypes /\ marks'.cleared /\ marks'.saved = FALSE
         /\ rec.take >= 1 /\ rec.recorded < NumEpisodes
<1>1. ~marks.saved /\ ~marks.cleared /\ rec.take >= 1 /\ rec.recorded < NumEpisodes
  BY DEF RecordingInvariant, MarksByPhase, UnderWay, BetweenTakes
<1>2. marks \in MarkTypes /\ marks.saved = FALSE
  BY <1>1 DEF RecordingInvariant, RecordingTypes, MarkTypes
<1> QED
  BY <1>1, <1>2 DEF Discards, MarkTypes

LEMMA TakeMoves ==
  ASSUME RecordingInvariant,
         RecordingReturns \/ TimesOut \/ DiscardEnds \/ Reviews \/ ReviewDiscards \/ IntegrityFails \/ StartsReset
  PROVE  RecordingInvariant'
<1> USE DEF BetweenTakes, UnderWay, TakeOver
<1>0. events \in EventTypes /\ marks \in MarkTypes
  BY DEF RecordingInvariant, RecordingTypes, EventTypes, MarkTypes
<1>1. CASE RecordingReturns
  <2>1. /\ rec.phase = "recording" /\ events' = [events EXCEPT !.exitEarly = FALSE] /\ Goto("returned")
        /\ UNCHANGED <<marks, buffer, disk, handler, pressed, overtaken>>
    BY <1>1 DEF RecordingReturns
  <2>2. /\ events' \in EventTypes /\ events'.choice = events.choice
        /\ events'.lifecycle = events.lifecycle /\ events'.rerecord = events.rerecord
    BY <1>0, <2>1 DEF EventTypes
  <2>3. rec'.phase = "returned" /\ rec'.take = rec.take /\ rec'.recorded = rec.recorded
    BY <2>1, GoesTo DEF RecordingInvariant, RecordPhases
  <2>4. MarksByPhase'
    BY <2>1, <2>2, <2>3 DEF RecordingInvariant, MarksByPhase
  <2> QED
    BY <1>0, <2>1, <2>2, <2>4, MoveKeeps DEF RecordPhases
<1>2. CASE TimesOut
  <2>1. /\ rec.phase = "returned" /\ Discards /\ events' = [events EXCEPT !.rerecord = TRUE] /\ Goto("discarding")
        /\ UNCHANGED <<disk, handler, pressed, overtaken>>
    BY <1>2 DEF TimesOut
  <2>2. /\ events' \in EventTypes /\ events'.choice = events.choice
        /\ events'.lifecycle = events.lifecycle /\ events'.rerecord
    BY <1>0, <2>1 DEF EventTypes
  <2>3. rec'.phase = "discarding" /\ rec'.take = rec.take /\ rec'.recorded = rec.recorded
    BY <2>1, GoesTo DEF RecordingInvariant, RecordPhases
  <2>4. /\ buffer' = {} /\ marks' \in MarkTypes /\ marks'.cleared /\ marks'.saved = FALSE
        /\ rec.take >= 1 /\ rec.recorded < NumEpisodes
    BY <2>1, Discarded
  <2>5. MarksByPhase'
    BY <2>2, <2>3, <2>4 DEF MarksByPhase
  <2> QED
    BY <2>1, <2>2, <2>4, <2>5, MoveKeeps DEF RecordPhases
<1>3. CASE DiscardEnds
  <2>1. /\ rec.phase = "discarding" /\ events' = [events EXCEPT !.lifecycle = "handled"] /\ Goto("handled")
        /\ UNCHANGED <<marks, buffer, disk, handler, pressed, overtaken>>
    BY <1>3 DEF DiscardEnds
  <2>2. /\ events' \in EventTypes /\ events'.choice = events.choice
        /\ events'.lifecycle = "handled" /\ events'.rerecord = events.rerecord
    BY <1>0, <2>1 DEF EventTypes, Lifecycles
  <2>3. rec'.phase = "handled" /\ rec'.take = rec.take /\ rec'.recorded = rec.recorded
    BY <2>1, GoesTo DEF RecordingInvariant, RecordPhases
  <2>4. marks.saved = FALSE /\ marks.cleared = TRUE /\ events.rerecord = TRUE
    BY <1>0, <2>1 DEF RecordingInvariant, MarksByPhase, MarkTypes, EventTypes
  <2>5. MarksByPhase'
    BY <2>1, <2>2, <2>3, <2>4 DEF RecordingInvariant, MarksByPhase
  <2> QED
    BY <1>0, <2>1, <2>2, <2>5, MoveKeeps DEF RecordPhases
<1>4. CASE Reviews
  <2>1. /\ rec.phase = "returned" /\ events.lifecycle = "recording_finished"
        /\ events' = [events EXCEPT !.lifecycle = "review"] /\ Goto("review")
        /\ UNCHANGED <<marks, buffer, disk, handler, pressed, overtaken>>
    BY <1>4 DEF Reviews, Finished
  <2>2. /\ events' \in EventTypes /\ events'.choice = events.choice
        /\ events'.lifecycle = "review" /\ events'.rerecord = events.rerecord
    BY <1>0, <2>1 DEF EventTypes, Lifecycles
  <2>3. rec'.phase = "review" /\ rec'.take = rec.take /\ rec'.recorded = rec.recorded
    BY <2>1, GoesTo DEF RecordingInvariant, RecordPhases
  <2>4. MarksByPhase'
    BY <2>1, <2>2, <2>3 DEF RecordingInvariant, MarksByPhase
  <2> QED
    BY <1>0, <2>1, <2>2, <2>4, MoveKeeps DEF RecordPhases
<1>5. CASE ReviewDiscards \/ IntegrityFails
  <2>1. /\ rec.phase = "review" /\ Discards /\ Goto("handled")
        /\ \E stop \in BOOLEAN :
             events' = [events EXCEPT !.lifecycle = "handled", !.rerecord = TRUE, !.stop = stop]
        /\ UNCHANGED <<disk, handler, pressed, overtaken>>
    <3>1. CASE ReviewDiscards
      <4>1. (events.choice = "q") \in BOOLEAN
        OBVIOUS
      <4> QED
        BY <3>1, <4>1 DEF ReviewDiscards, Woken
    <3>2. CASE IntegrityFails
      <4>1. events.stop \in BOOLEAN /\ [events EXCEPT !.lifecycle = "handled", !.rerecord = TRUE] =
              [events EXCEPT !.lifecycle = "handled", !.rerecord = TRUE, !.stop = events.stop]
        BY <1>0 DEF EventTypes
      <4> QED
        BY <3>2, <4>1 DEF IntegrityFails, Woken
    <3> QED
      BY <1>5, <3>1, <3>2
  <2>2. /\ events' \in EventTypes /\ events'.choice = events.choice
        /\ events'.lifecycle = "handled" /\ events'.rerecord = TRUE
    BY <1>0, <2>1 DEF EventTypes, Lifecycles
  <2>3. rec'.phase = "handled" /\ rec'.take = rec.take /\ rec'.recorded = rec.recorded
    BY <2>1, GoesTo DEF RecordingInvariant, RecordPhases
  <2>4. /\ buffer' = {} /\ marks' \in MarkTypes /\ marks'.cleared /\ marks'.saved = FALSE
        /\ rec.take >= 1 /\ rec.recorded < NumEpisodes
    BY <2>1, Discarded
  <2>5. marks'.cleared = TRUE
    BY <2>4 DEF MarkTypes
  <2>6. MarksByPhase'
    BY <2>2, <2>3, <2>4, <2>5 DEF MarksByPhase
  <2> QED
    BY <2>1, <2>2, <2>4, <2>6, MoveKeeps DEF RecordPhases
<1>6. CASE StartsReset
  <2>1. /\ rec.phase = "handled" /\ Goto("reset")
        /\ events' = IF events.lifecycle = "handled" THEN [events EXCEPT !.lifecycle = "reset"] ELSE events
        /\ UNCHANGED <<marks, buffer, disk, handler, pressed, overtaken>>
    BY <1>6 DEF StartsReset
  <2>2. /\ events' \in EventTypes /\ events'.choice = events.choice /\ events'.rerecord = events.rerecord
        /\ events'.lifecycle # "recording_finished" \/ events'.lifecycle = events.lifecycle
    BY <1>0, <2>1 DEF EventTypes, Lifecycles
  <2>3. rec'.phase = "reset" /\ rec'.take = rec.take /\ rec'.recorded = rec.recorded
    BY <2>1, GoesTo DEF RecordingInvariant, RecordPhases
  <2>4. MarksByPhase'
    BY <2>1, <2>2, <2>3 DEF RecordingInvariant, MarksByPhase
  <2> QED
    BY <1>0, <2>1, <2>2, <2>4, MoveKeeps DEF RecordPhases
<1> QED
  BY <1>1, <1>2, <1>3, <1>4, <1>5, <1>6

\* A take is over: repeated, or counted.
LEMMA TakeEnds ==
  ASSUME RecordingInvariant, EndsTake
  PROVE  RecordingInvariant'
<1> USE DEF BetweenTakes, UnderWay, TakeOver
<1>0. events \in EventTypes /\ marks \in MarkTypes
  BY DEF RecordingInvariant, RecordingTypes, EventTypes, MarkTypes
<1>1. rec.phase \in TakeOver /\ UNCHANGED <<handler, pressed, overtaken>>
  BY DEF EndsTake
<1>2. marks.saved = ~events.rerecord /\ marks.cleared = events.rerecord /\ buffer = {}
      /\ rec.recorded < NumEpisodes
  BY <1>1 DEF RecordingInvariant, MarksByPhase
<1>3. /\ rec' \in RecTypes /\ rec'.phase = "episode" /\ rec'.take = rec.take
      /\ UNCHANGED <<buffer, disk>>
      /\ events' \in EventTypes /\ events'.lifecycle = "prepare" /\ events'.rerecord = FALSE
      /\ marks' \in MarkTypes /\ marks'.saved = FALSE /\ marks'.cleared = FALSE
  <2>1. CASE RepeatsTake
    <3>1. /\ events.rerecord /\ ClearedBuffer /\ Goto("episode") /\ UNCHANGED disk
          /\ events' = [events EXCEPT !.rerecord = FALSE, !.exitEarly = FALSE, !.lifecycle = "prepare"]
      BY <2>1 DEF RepeatsTake
    <3>2. marks.cleared /\ marks.saved = FALSE
      BY <1>0, <1>2, <3>1 DEF EventTypes
    <3>3. buffer' = buffer /\ marks' = [marks EXCEPT !.cleared = FALSE]
      BY <3>1, <3>2 DEF ClearedBuffer
    <3>4. marks' \in MarkTypes /\ marks'.saved = FALSE /\ marks'.cleared = FALSE
      BY <1>0, <3>2, <3>3 DEF MarkTypes
    <3>5. events' \in EventTypes /\ events'.lifecycle = "prepare" /\ events'.rerecord = FALSE
      BY <1>0, <3>1 DEF EventTypes, Lifecycles
    <3> QED
      BY <3>1, <3>3, <3>4, <3>5, GoesTo DEF RecordingInvariant, RecordPhases
  <2>2. CASE CountsEpisode
    <3>1. /\ ~events.rerecord /\ marks' = [marks EXCEPT !.saved = FALSE] /\ UNCHANGED <<buffer, disk>>
          /\ events' = [events EXCEPT !.exitEarly = LeftOver(ResetSeconds), !.lifecycle = "prepare"]
          /\ rec' = [rec EXCEPT !.phase = "episode", !.recorded = @ + 1]
      BY <2>2 DEF CountsEpisode
    <3>2. events.rerecord = FALSE /\ marks.cleared = FALSE
      BY <1>0, <1>2, <3>1 DEF EventTypes
    <3>3. marks' \in MarkTypes /\ marks'.saved = FALSE /\ marks'.cleared = FALSE
      BY <1>0, <3>1, <3>2 DEF MarkTypes
    <3>4. LeftOver(ResetSeconds) \in BOOLEAN
      BY <1>0 DEF LeftOver, EventTypes
    <3>5. events' \in EventTypes /\ events'.lifecycle = "prepare" /\ events'.rerecord = FALSE
      BY <1>0, <3>1, <3>2, <3>4 DEF EventTypes, Lifecycles
    <3>6. rec.recorded + 1 \in 0 .. NumEpisodes
      BY <1>2, RecordingAssumption DEF RecordingInvariant, RecordingTypes
    <3>7. rec' \in RecTypes /\ rec'.phase = "episode" /\ rec'.take = rec.take
      BY <3>1, <3>6 DEF RecordingInvariant, RecordingTypes, RecTypes, RecordPhases
    <3> QED
      BY <3>1, <3>3, <3>5, <3>7
  <2> QED
    BY <2>1, <2>2 DEF EndsTake
<1>4. RecordingTypes'
  BY <1>1, <1>3 DEF RecordingInvariant, RecordingTypes, RecTypes, EventTypes, MarkTypes
<1>5. MarksByPhase'
  BY <1>2, <1>3 DEF MarksByPhase
<1>6. KeysOfTheTake'
  BY <1>1, <1>3 DEF RecordingInvariant, KeysOfTheTake
<1>7. EpisodesOfTakes' /\ LabelledByItsReview' /\ LabelsFollow'
  BY <1>1, <1>3, DiskKept
<1> QED
  BY <1>4, <1>5, <1>6, <1>7 DEF RecordingInvariant

-----------------------------------------------------------------------------
(* The save: the data of a take, then its label.                           *)
LEMMA DataSaved ==
  ASSUME RecordingInvariant, SavesData
  PROVE  RecordingInvariant'
<1> USE DEF BetweenTakes, UnderWay, TakeOver
<1>1. /\ rec.phase = "review" /\ events.choice \in DOMAIN TypeOfKey
      /\ buffer # {} /\ Len(disk.labels) = Len(disk.episodes)
      /\ disk' = [disk EXCEPT !.episodes = Append(@, buffer)]
      /\ marks' = [marks EXCEPT !.pending = TypeOfKey[events.choice]]
      /\ buffer' = {} /\ Goto("labelling")
      /\ UNCHANGED <<events, handler, pressed, overtaken>>
  BY DEF SavesData, Woken, MaySave, Aligned
<1>2. /\ rec' \in RecTypes /\ rec'.phase = "labelling" /\ rec'.take = rec.take
      /\ rec'.recorded = rec.recorded /\ rec.take \in Nat
  BY <1>1, GoesTo DEF RecordingInvariant, RecordPhases
<1>3. buffer = {rec.take} /\ rec.take \in TakeNumbers
  BY <1>1, <1>2 DEF RecordingInvariant, MarksByPhase, RecordingTypes
<1>4. events.choice \in {"c", "v"} /\ TypeOfKey[events.choice] \in EpisodeTypes
  BY <1>1, KeyTypes
<1>5. /\ marks' \in MarkTypes /\ marks'.saved = marks.saved /\ marks'.cleared = marks.cleared
      /\ marks'.pending = TypeOfKey[events.choice]
  BY <1>1, <1>4 DEF RecordingInvariant, RecordingTypes, MarkTypes
<1> DEFINE n == Len(disk.episodes)
<1>6. /\ disk.episodes \in Seq(SUBSET TakeNumbers) /\ disk.labels \in Seq(EpisodeTypes) /\ n \in Nat
      /\ disk' \in [exists : BOOLEAN, episodes : Seq(SUBSET TakeNumbers), labels : Seq(EpisodeTypes)]
      /\ disk'.labels = disk.labels /\ disk'.episodes = Append(disk.episodes, buffer)
  <2>1. disk.episodes \in Seq(SUBSET TakeNumbers)
    BY DEF RecordingInvariant, RecordingTypes
  <2>2. Append(disk.episodes, buffer) \in Seq(SUBSET TakeNumbers)
    BY <2>1 DEF RecordingInvariant, RecordingTypes
  <2>3. disk \in [exists : BOOLEAN, episodes : Seq(SUBSET TakeNumbers), labels : Seq(EpisodeTypes)]
    BY DEF RecordingInvariant, RecordingTypes
  <2>4. disk' = [exists |-> disk.exists, episodes |-> Append(disk.episodes, buffer), labels |-> disk.labels]
    BY <1>1, <2>3
  <2>5. disk.labels \in Seq(EpisodeTypes) /\ disk.exists \in BOOLEAN
    BY <2>3
  <2>6. n \in Nat
    BY <2>1
  <2> QED
    BY <2>1, <2>2, <2>4, <2>5, <2>6
<1>7. /\ Len(disk'.episodes) = n + 1 /\ disk'.episodes[n + 1] = {rec.take}
      /\ \A i \in 1 .. n : disk'.episodes[i] = disk.episodes[i]
  BY <1>3, <1>6
<1>8. RecordingTypes'
  BY <1>1, <1>2, <1>5, <1>6 DEF RecordingInvariant, RecordingTypes, RecTypes, MarkTypes
<1>9. MarksByPhase'
  BY <1>1, <1>2, <1>5 DEF RecordingInvariant, MarksByPhase
<1>10. EpisodesOfTakes'
  <2>1. \A i \in 1 .. n : \A t \in disk.episodes[i] : t \in Nat /\ t < rec.take
    BY <1>1, <1>6 DEF RecordingInvariant, EpisodesOfTakes, TakeNumbers
  <2>2. OneTakeEach'
    <3>1. \A i \in 1 .. n + 1 : \E t \in TakeNumbers : disk'.episodes[i] = {t}
      <4>1. \A i \in 1 .. n : \E t \in TakeNumbers : disk.episodes[i] = {t}
        BY DEF RecordingInvariant, EpisodesOfTakes, OneTakeEach, TakeNumbers
      <4>2. \A i \in 1 .. n : \E t \in TakeNumbers : disk'.episodes[i] = {t}
        BY <1>7, <4>1
      <4>3. \A i \in 1 .. n + 1 : i \in 1 .. n \/ i = n + 1
        BY <1>6
      <4> QED
        BY <1>3, <1>7, <4>2, <4>3
    <3>2. ASSUME NEW i \in 1 .. n + 1, NEW j \in 1 .. n + 1, disk'.episodes[i] = disk'.episodes[j]
          PROVE  i = j
      <4>1. CASE i \in 1 .. n /\ j \in 1 .. n
        BY <1>7, <3>2, <4>1 DEF RecordingInvariant, EpisodesOfTakes, OneTakeEach
      <4>2. \A k \in 1 .. n : disk'.episodes[k] # {rec.take}
        <5>1. SUFFICES ASSUME NEW k \in 1 .. n, disk.episodes[k] = {rec.take} PROVE FALSE
          BY <1>7
        <5>2. rec.take \in disk.episodes[k]
          BY <5>1
        <5>3. rec.take \in Nat /\ rec.take < rec.take
          BY <2>1, <5>2
        <5> QED
          BY <5>3
      <4>3. CASE ~(i \in 1 .. n /\ j \in 1 .. n)
        <5>1. n \in Nat
          BY <1>6
        <5>2. (i \in 1 .. n \/ i = n + 1) /\ (j \in 1 .. n \/ j = n + 1)
          BY <5>1
        <5> QED
          BY <1>7, <3>2, <4>2, <4>3, <5>2
      <4> QED
        BY <4>1, <4>3
    <3> QED
      BY <1>7, <3>1, <3>2 DEF OneTakeEach, TakeNumbers
  <2>3. \A i \in 1 .. n + 1 : \A t \in disk'.episodes[i] : t <= rec.take
    BY <1>2, <1>6, <1>7, <2>1
  <2> QED
    BY <1>1, <1>2, <1>6, <1>7, <2>2, <2>3 DEF EpisodesOfTakes
<1>11. KeysOfTheTake'
  <2>1. Said({"enter"})
    BY <1>1 DEF RecordingInvariant, KeysOfTheTake
  <2>2. Said({events.choice})
    BY <1>1, <1>4 DEF RecordingInvariant, KeysOfTheTake
  <2>3. Said({k \in {"c", "v"} : TypeOfKey[k] = marks.pending})'
    BY <1>1, <1>2, <1>4, <1>5, <2>2 DEF Said
  <2>4. Said({"enter"})'
    BY <1>1, <1>2, <2>1 DEF Said
  <2> QED
    BY <1>1, <1>2, <1>4, <1>5, <2>3, <2>4 DEF RecordingInvariant, KeysOfTheTake
<1>12. LabelsFollow'
  BY <1>1, <1>6, <1>7 DEF LabelsFollow
<1>13. LabelledByItsReview'
  <2>1. Len(disk.labels) = n
    BY <1>1
  <2>2. \A i \in 1 .. Len(disk'.labels) : disk'.episodes[i] = disk.episodes[i]
    BY <1>6, <1>7, <2>1
  <2> QED
    BY <1>1, <1>6, <2>2 DEF RecordingInvariant, LabelledByItsReview
<1> QED
  BY <1>8, <1>9, <1>10, <1>11, <1>12, <1>13 DEF RecordingInvariant

LEMMA LabelSaved ==
  ASSUME RecordingInvariant, SavesLabel
  PROVE  RecordingInvariant'
<1> USE DEF BetweenTakes, UnderWay, TakeOver
<1>1. /\ rec.phase = "labelling"
      /\ disk' = [disk EXCEPT !.labels = Append(@, marks.pending)]
      /\ marks' = [marks EXCEPT !.saved = TRUE, !.pending = "none"]
      /\ events' = [events EXCEPT !.lifecycle = "handled"]
      /\ Goto("handled")
      /\ UNCHANGED <<buffer, handler, pressed, overtaken>>
  BY DEF SavesLabel, WithLabel
<1>2. /\ rec' \in RecTypes /\ rec'.phase = "handled" /\ rec'.take = rec.take
      /\ rec'.recorded = rec.recorded /\ rec.take \in Nat
  BY <1>1, GoesTo DEF RecordingInvariant, RecordPhases
<1> DEFINE n == Len(disk.labels)
<1>3. /\ marks.pending \in EpisodeTypes
      /\ disk.episodes \in Seq(SUBSET TakeNumbers) /\ disk.labels \in Seq(EpisodeTypes) /\ n \in Nat
      /\ disk' \in [exists : BOOLEAN, episodes : Seq(SUBSET TakeNumbers), labels : Seq(EpisodeTypes)]
      /\ disk'.episodes = disk.episodes /\ disk'.labels = Append(disk.labels, marks.pending)
  <2>1. marks.pending \in EpisodeTypes /\ disk.labels \in Seq(EpisodeTypes)
    BY <1>1 DEF RecordingInvariant, RecordingTypes, KeysOfTheTake
  <2>2. Append(disk.labels, marks.pending) \in Seq(EpisodeTypes)
    BY <2>1
  <2>3. disk \in [exists : BOOLEAN, episodes : Seq(SUBSET TakeNumbers), labels : Seq(EpisodeTypes)]
    BY DEF RecordingInvariant, RecordingTypes
  <2>4. disk' = [exists |-> disk.exists, episodes |-> disk.episodes,
                 labels |-> Append(disk.labels, marks.pending)]
    BY <1>1, <2>3
  <2>5. disk.episodes \in Seq(SUBSET TakeNumbers) /\ disk.exists \in BOOLEAN
    BY <2>3
  <2>6. n \in Nat
    BY <2>1
  <2> QED
    BY <2>1, <2>2, <2>4, <2>5, <2>6
<1>4. /\ Len(disk'.labels) = n + 1 /\ disk'.labels[n + 1] = marks.pending
      /\ \A i \in 1 .. n : disk'.labels[i] = disk.labels[i]
  BY <1>3
<1>5. Len(disk.episodes) = n + 1 /\ disk.episodes[n + 1] = {rec.take}
  BY <1>1 DEF RecordingInvariant, EpisodesOfTakes
<1>6. /\ events' \in EventTypes /\ events'.lifecycle = "handled" /\ events'.rerecord = FALSE
      /\ marks' \in MarkTypes /\ marks'.saved = TRUE /\ marks'.cleared = FALSE
  <2>1. events.rerecord = FALSE /\ marks.cleared = FALSE
    BY <1>1 DEF RecordingInvariant, RecordingTypes, MarksByPhase
  <2> QED
    BY <1>1, <2>1 DEF RecordingInvariant, RecordingTypes, EventTypes, MarkTypes, Lifecycles
<1>7. RecordingTypes'
  BY <1>1, <1>2, <1>3, <1>6 DEF RecordingInvariant, RecordingTypes, RecTypes, MarkTypes, EventTypes
<1>8. MarksByPhase'
  BY <1>1, <1>2, <1>6 DEF RecordingInvariant, MarksByPhase
<1>9. EpisodesOfTakes'
  BY <1>1, <1>2, <1>3 DEF RecordingInvariant, EpisodesOfTakes, OneTakeEach
<1>10. KeysOfTheTake'
  BY <1>1, <1>2, <1>6 DEF RecordingInvariant, KeysOfTheTake
<1>11. LabelledByItsReview'
  <2>1. ASSUME rec.take \notin overtaken
        PROVE  /\ <<rec.take, "enter">> \in pressed
               /\ \E k \in {"c", "v"} : TypeOfKey[k] = marks.pending /\ <<rec.take, k>> \in pressed
    BY <1>1, <2>1 DEF RecordingInvariant, KeysOfTheTake, Said
  <2> SUFFICES ASSUME NEW i \in 1 .. Len(disk'.labels), NEW t \in disk'.episodes[i] \ overtaken
               PROVE  /\ <<t, "enter">> \in pressed
                      /\ \E k \in {"c", "v"} : TypeOfKey[k] = disk'.labels[i] /\ <<t, k>> \in pressed
    BY <1>1, KeyTypes DEF LabelledByItsReview
  <2>2. CASE i = n + 1
    BY <1>3, <1>4, <1>5, <2>1, <2>2
  <2>3. CASE i \in 1 .. n
    BY <1>3, <1>4, <2>3, KeyTypes DEF RecordingInvariant, LabelledByItsReview
  <2> QED
    BY <1>3, <1>4, <2>2, <2>3
<1>12. LabelsFollow'
  BY <1>3, <1>4, <1>5 DEF LabelsFollow
<1> QED
  BY <1>7, <1>8, <1>9, <1>10, <1>11, <1>12 DEF RecordingInvariant

LEMMA RecordingStep == RecordingInvariant /\ [RecordingNext]_recordingVars => RecordingInvariant'
<1> SUFFICES ASSUME RecordingInvariant, [RecordingNext]_recordingVars PROVE RecordingInvariant'
  OBVIOUS
<1>1. CASE SessionEnds \/ RecorderCrashes
  BY <1>1, ProcessEnds DEF SessionEnds, RecorderCrashes
<1>2. CASE UNCHANGED recordingVars
  <2>1. UNCHANGED <<events, marks, rec, buffer, disk, handler, pressed, overtaken>>
    BY <1>2 DEF recordingVars
  <2>2. RecordingTypes' /\ MarksByPhase'
    BY <2>1 DEF RecordingInvariant, RecordingTypes, MarksByPhase
  <2>3. KeysOfTheTake'
    BY <2>1 DEF RecordingInvariant, KeysOfTheTake, Said
  <2> QED
    BY <2>1, <2>2, <2>3, DiskKept DEF RecordingInvariant
<1> QED
  BY <1>1, <1>2, ListenerKeeps, TakeBegins, FrameKeepsBuffer, TakeMoves, TakeEnds, DataSaved, LabelSaved
     DEF RecordingNext

LEMMA RecordingIsSafe == RecordingInvariant => RecordingSafe /\ RecordingTypeOK
<1> SUFFICES ASSUME RecordingInvariant PROVE RecordingSafe /\ RecordingTypeOK
  OBVIOUS
<1>1. CleanBetweenTakes
  BY DEF RecordingInvariant, MarksByPhase, BetweenTakes, UnderWay, CleanBetweenTakes
<1>2. RecordingTypeOK
  BY DEF RecordingInvariant, RecordingTypes, RecordingTypeOK, TakeNumbers
<1> QED
  BY <1>1, <1>2 DEF RecordingInvariant, EpisodesOfTakes, RecordingSafe

-----------------------------------------------------------------------------
(***************************************************************************)
(* The building of datasets.                                               *)
(***************************************************************************)
Tasks == {"absent", "partial", "old", "new", "mixed"}
DataParts == [of : Sources, version : Versions]
Contents == [parts : Seq(DataParts), task : Tasks]
Phases65 == {"idle", "copy v2", "fill v2", "copy v3", "fill v3", "retask v2", "retask v3",
             "check", "merge", "fill combined", "validate", "report", "reported"}
Phases69 == {"idle", "check", "clear", "open", "fill", "untouched", "report", "reported"}
V2IsCopied == {"copy v3", "fill v3", "retask v2", "retask v3", "check", "merge", "fill combined"}
V3IsCopied == {"retask v2", "retask v3", "check", "merge", "fill combined"}

BuildTypes ==
  /\ source \in [Sources -> Versions] /\ snap65 \in [Sources -> Versions]
  /\ built \in [Built -> Contents] /\ reports \in [{"combined65", "combined69"} -> Contents]
  /\ at65 \in Phases65 /\ at69 \in Phases69 /\ force65 \in BOOLEAN /\ force69 \in BOOLEAN
  /\ opened69 \in Contents
  /\ at69 # "idle" => snap69 \in [copy : Contents, v4 : Versions]
  /\ judged \in [facts : SUBSET Facts, levels : SUBSET {"FAIL", "WARN"},
                 exit : {"none", "ok", "warned", "failed"}, written : BOOLEAN]

\* A copy made in this run of the script, of a state since its snapshot.
CopiedOf(d, s) ==
  /\ Len(d.parts) = 1 /\ d.parts[1].of = s
  /\ snap65[s] <= d.parts[1].version /\ d.parts[1].version <= source[s]

CopyAsSnapped(d, s) ==
  Len(d.parts) = 1 /\ d.parts[1].of = s /\ d.parts[1].version = snap65[s] /\ d.task = "new"

BothAsSnapped(d) ==
  /\ Len(d.parts) = 2 /\ d.task = "new"
  /\ d.parts[1].of = "v2" /\ d.parts[1].version = snap65["v2"]
  /\ d.parts[2].of = "v3" /\ d.parts[2].version = snap65["v3"]

Copies65 ==
  /\ \A s \in Sources : snap65[s] <= source[s]
  /\ at65 \in V2IsCopied => CopiedOf(built["v2 copy"], "v2")
  /\ at65 \in V3IsCopied => CopiedOf(built["v3 copy"], "v3")
  /\ at65 \in {"merge", "fill combined"} =>
       CopyAsSnapped(built["v2 copy"], "v2") /\ CopyAsSnapped(built["v3 copy"], "v3")
  /\ at65 \in {"validate", "report"} => BothAsSnapped(built["combined65"])
  /\ at65 = "report" => HasExpected(built["combined65"])
  /\ at65 = "reported" => BothAsSnapped(reports["combined65"]) /\ HasExpected(reports["combined65"])

\* The copy of V3, when there is one, is of a state of V3 so far.
V3CopyIs(d) == Len(d.parts) = 0 \/ (Len(d.parts) = 1 /\ d.parts[1].of = "v3" /\ d.parts[1].version <= source["v3"])

\* As the other script is to find it: no older than the copy of the snapshot, no younger
\* than the copy that is there.
MergedBetween(d) ==
  /\ Len(d.parts) = 2 /\ d.parts[1].of = "v3" /\ d.parts[2].of = "v4"
  /\ d.parts[1].version <= source["v3"]
  /\ Len(built["v3 copy"].parts) = 1 => d.parts[1].version <= built["v3 copy"].parts[1].version
  /\ Len(snap69.copy.parts) = 1 => snap69.copy.parts[1].version <= d.parts[1].version
  /\ snap69.v4 <= d.parts[2].version /\ d.parts[2].version <= source["v4"]

MergedAsSnapped(d) ==
  /\ Len(d.parts) = 2 /\ d.task = "new" /\ HasExpected(d)
  /\ d.parts[1].of = "v3" /\ d.parts[2].of = "v4"
  /\ Len(snap69.copy.parts) = 1 => d.parts[1].version = snap69.copy.parts[1].version
  /\ d.parts[2].version = snap69.v4

Copies69 ==
  /\ V3CopyIs(built["v3 copy"])
  /\ at69 # "idle" =>
       /\ V3CopyIs(snap69.copy) /\ snap69.v4 <= source["v4"]
       /\ Len(snap69.copy.parts) = 1 /\ Len(built["v3 copy"].parts) = 1 =>
            snap69.copy.parts[1].version <= built["v3 copy"].parts[1].version
  /\ at69 = "untouched" => MergedBetween(built["combined69"])
  /\ at69 = "report" => MergedAsSnapped(built["combined69"])
  /\ at69 = "reported" => MergedAsSnapped(reports["combined69"])

\* Without force nothing that was reported is written over.
NothingReportedYet ==
  /\ force65 => "combined65" \in forced
  /\ force69 => "combined69" \in forced
  /\ at65 = "fill combined" /\ "combined65" \notin forced => reports["combined65"] = Absent
  /\ at69 \in {"open", "fill"} /\ "combined69" \notin forced => reports["combined69"] = Absent

BuildInvariant ==
  BuildTypes /\ Copies65 /\ Copies69 /\ NothingReportedYet /\ ReportsLast /\ JudgementMeans

LEMMA BuildBegins == BuildInit => BuildInvariant
<1> SUFFICES ASSUME BuildInit PROVE BuildInvariant
  OBVIOUS
<1>1. Absent \in Contents /\ Len(Absent.parts) = 0
  BY DEF Absent, Contents, Tasks
<1>2. \A s \in Sources : source[s] = 0 /\ snap65[s] = 0
  BY DEF BuildInit
<1>3. BuildTypes
  <2>1. 0 \in Versions
    BY BuildAssumption
  <2>2. source \in [Sources -> Versions] /\ snap65 \in [Sources -> Versions]
    BY <2>1 DEF BuildInit
  <2>3. built \in [Built -> Contents] /\ reports \in [{"combined65", "combined69"} -> Contents]
    BY <1>1 DEF BuildInit
  <2>4. judged \in [facts : SUBSET Facts, levels : SUBSET {"FAIL", "WARN"},
                    exit : {"none", "ok", "warned", "failed"}, written : BOOLEAN]
    BY DEF BuildInit, Unjudged
  <2> QED
    BY <1>1, <2>2, <2>3, <2>4 DEF BuildInit, BuildTypes, Phases65, Phases69
<1>4. Copies65
  BY <1>2 DEF BuildInit, Copies65, V2IsCopied, V3IsCopied
<1>5. Copies69
  BY <1>1 DEF BuildInit, Copies69, V3CopyIs, Built
<1>6. NothingReportedYet /\ ReportsLast /\ JudgementMeans
  BY DEF BuildInit, NothingReportedYet, ReportsLast, JudgementMeans, Unjudged
<1> QED
  BY <1>3, <1>4, <1>5, <1>6 DEF BuildInvariant

\* What the invariant says of versions and parts.
LEMMA VersionsOrdered ==
  ASSUME BuildInvariant
  PROVE  /\ \A v \in Versions : v \in Nat
         /\ \A s \in Sources : source[s] \in Versions /\ snap65[s] \in Versions
         /\ \A d \in Contents : \A i \in 1 .. Len(d.parts) : d.parts[i] \in DataParts
         /\ \A d \in Contents : \A i \in 1 .. Len(d.parts) : d.parts[i].version \in Nat
         /\ \A d \in Contents : Len(d.parts) \in Nat /\ (IsDataset(d) <=> Len(d.parts) > 0)
         /\ "v3 copy" \in Built /\ "v2 copy" \in Built /\ "combined65" \in Built /\ "combined69" \in Built
<1>1. \A v \in Versions : v \in Nat
  BY BuildAssumption
<1>2. \A s \in Sources : source[s] \in Versions /\ snap65[s] \in Versions
  BY DEF BuildInvariant, BuildTypes
<1>3. ASSUME NEW d \in Contents
      PROVE  /\ \A i \in 1 .. Len(d.parts) : d.parts[i] \in DataParts
             /\ \A i \in 1 .. Len(d.parts) : d.parts[i].version \in Nat
             /\ Len(d.parts) \in Nat /\ (IsDataset(d) <=> Len(d.parts) > 0)
  <2>1. d.parts \in Seq(DataParts)
    BY DEF Contents
  <2>2. \A i \in 1 .. Len(d.parts) : d.parts[i] \in DataParts
    BY <2>1
  <2>3. \A i \in 1 .. Len(d.parts) : d.parts[i].version \in Nat
    BY <1>1, <2>2 DEF DataParts
  <2>4. Len(d.parts) \in Nat /\ (d.parts # <<>> <=> Len(d.parts) > 0)
    BY <2>1
  <2> QED
    BY <2>2, <2>3, <2>4 DEF IsDataset
<1> QED
  BY <1>1, <1>2, <1>3 DEF Built

LEMMA NothingIsSeq == ASSUME NEW S PROVE <<>> \in Seq(S)
OBVIOUS

LEMMA OneIsNotNone == \A k : k = 1 => k # 0
OBVIOUS

LEMMA SameNumbers == \A a, b \in Nat : a <= b /\ b <= a => a = b
OBVIOUS

LEMMA NoMoreThanItself == \A k \in Nat : k <= k /\ (k > 0 => k # 0)
OBVIOUS

LEMMA OneAndOne ==
  ASSUME NEW S, NEW x \in Seq(S), NEW y \in Seq(S), Len(x) = 1, Len(y) = 1
  PROVE  /\ x \o y \in Seq(S) /\ Len(x \o y) = 2 /\ (x \o y)[1] = x[1] /\ (x \o y)[2] = y[1]
<1>1. /\ x \o y \in Seq(S) /\ Len(x \o y) = Len(x) + Len(y)
      /\ \A i \in 1 .. Len(x) + Len(y) : (x \o y)[i] = IF i <= Len(x) THEN x[i] ELSE y[i - Len(x)]
  BY ConcatProperties
<1>2. 1 \in 1 .. 1 + 1 /\ 2 \in 1 .. 1 + 1 /\ 1 <= 1 /\ ~(2 <= 1) /\ 2 - 1 = 1 /\ 1 + 1 = 2
  OBVIOUS
<1> DEFINE z == x \o y
<1> HIDE DEF z
<1>3. z[1] = x[1]
  BY <1>1, <1>2 DEF z
<1>4. z[2] = y[2 - 1]
  BY <1>1, <1>2 DEF z
<1> QED
  BY <1>1, <1>2, <1>3, <1>4 DEF z

LEMMA FirstPart ==
  ASSUME BuildInvariant, NEW d \in Contents, Len(d.parts) = 1
  PROVE  d.parts[1] \in DataParts /\ d.parts[1].version \in Nat
<1>1. 1 \in 1 .. 1
  OBVIOUS
<1>2. 1 \in 1 .. Len(d.parts)
  BY <1>1
<1> QED
  BY <1>2, VersionsOrdered

LEMMA SourceRecorded ==
  ASSUME BuildInvariant, SourceChanges
  PROVE  BuildInvariant'
<1>1. PICK s \in Sources : source[s] + 1 \in Versions /\ source' = [source EXCEPT ![s] = @ + 1]
  BY DEF SourceChanges
<1>2. UNCHANGED <<built, at65, at69, force65, force69, snap65, snap69, opened69, reports, starts, forced, judged>>
  BY DEF SourceChanges
<1>3. source' \in [Sources -> Versions] /\ \A t \in Sources : source[t] <= source'[t]
  <2>1. \A t \in Sources : source[t] \in Nat
    BY VersionsOrdered
  <2>2. source \in [Sources -> Versions]
    BY DEF BuildInvariant, BuildTypes
  <2> QED
    BY <1>1, <2>1, <2>2
<1>4. \A t \in Sources : source[t] \in Nat /\ source'[t] \in Nat /\ snap65[t] \in Nat
  BY <1>3, VersionsOrdered
<1>5. BuildTypes'
  BY <1>2, <1>3 DEF BuildInvariant, BuildTypes
<1>6. "v2" \in Sources /\ "v3" \in Sources /\ "v4" \in Sources
  BY DEF Sources
<1>7. \A d \in Contents, t \in Sources : CopiedOf(d, t) => CopiedOf(d, t)'
  <2> SUFFICES ASSUME NEW d \in Contents, NEW t \in Sources, CopiedOf(d, t) PROVE CopiedOf(d, t)'
    OBVIOUS
  <2>1. d.parts[1].version \in Nat
    <3>1. Len(d.parts) = 1
      BY DEF CopiedOf
    <3>2. 1 \in 1 .. Len(d.parts)
      BY <3>1
    <3> QED
      BY <3>2, VersionsOrdered
  <2> QED
    BY <1>2, <1>3, <1>4, <2>1 DEF CopiedOf
<1>8. \A d \in Contents : V3CopyIs(d) => V3CopyIs(d)'
  <2> SUFFICES ASSUME NEW d \in Contents, V3CopyIs(d), Len(d.parts) # 0 PROVE V3CopyIs(d)'
    BY DEF V3CopyIs
  <2>1. d.parts[1].version \in Nat /\ d.parts[1].version <= source["v3"]
    <3>1. Len(d.parts) = 1 /\ d.parts[1].version <= source["v3"]
      BY DEF V3CopyIs
    <3>2. 1 \in 1 .. Len(d.parts)
      BY <3>1
    <3> QED
      BY <3>1, <3>2, VersionsOrdered
  <2>2. d.parts[1].version <= source'["v3"]
    BY <1>3, <1>4, <1>6, <2>1
  <2> QED
    BY <2>2 DEF V3CopyIs
<1>9. \A d \in Contents : MergedBetween(d) => MergedBetween(d)'
  <2> SUFFICES ASSUME NEW d \in Contents, MergedBetween(d) PROVE MergedBetween(d)'
    OBVIOUS
  <2>1. d.parts[1].version \in Nat /\ d.parts[2].version \in Nat
    <3>1. Len(d.parts) = 2
      BY DEF MergedBetween
    <3>2. 1 \in 1 .. Len(d.parts) /\ 2 \in 1 .. Len(d.parts)
      BY <3>1
    <3> QED
      BY <3>2, VersionsOrdered
  <2>2. d.parts[1].version <= source'["v3"] /\ d.parts[2].version <= source'["v4"]
    <3>1. d.parts[1].version <= source["v3"] /\ d.parts[2].version <= source["v4"]
      BY DEF MergedBetween
    <3>2. source["v3"] <= source'["v3"] /\ source["v4"] <= source'["v4"]
      BY <1>3, <1>6
    <3>3. source["v3"] \in Nat /\ source["v4"] \in Nat /\ source'["v3"] \in Nat /\ source'["v4"] \in Nat
      BY <1>4, <1>6
    <3> QED
      BY <2>1, <3>1, <3>2, <3>3
  <2> QED
    BY <1>2, <2>2 DEF MergedBetween
<1>10. \A d \in Built : built[d] \in Contents
  BY DEF BuildInvariant, BuildTypes
<1>11. Copies65'
  <2>1. \A t \in Sources : snap65'[t] <= source'[t]
    <3>1. \A t \in Sources : snap65[t] <= source[t]
      BY DEF BuildInvariant, Copies65
    <3> SUFFICES ASSUME NEW t \in Sources PROVE snap65[t] <= source'[t]
      BY <1>2
    <3>2. snap65[t] <= source[t] /\ source[t] <= source'[t]
      BY <1>3, <3>1
    <3>3. snap65[t] \in Nat /\ source[t] \in Nat /\ source'[t] \in Nat
      BY <1>4
    <3> QED
      BY <3>2, <3>3
  <2>2. \A d \in Contents, t \in Sources : CopyAsSnapped(d, t)' = CopyAsSnapped(d, t)
    BY <1>2 DEF CopyAsSnapped
  <2>3. \A d \in Contents : BothAsSnapped(d)' = BothAsSnapped(d) /\ HasExpected(d)' = HasExpected(d)
    BY <1>2 DEF BothAsSnapped, HasExpected
  <2> QED
    BY <1>2, <1>6, <1>7, <1>10, <2>1 DEF BuildInvariant, Copies65, Built, CopyAsSnapped, BothAsSnapped, HasExpected,
      CopiedOf
<1>12. Copies69'
  <2>1. snap69.v4 <= source["v4"] => at69 = "idle" \/ snap69.v4 <= source'["v4"]
    <3> SUFFICES ASSUME snap69.v4 <= source["v4"], at69 # "idle" PROVE snap69.v4 <= source'["v4"]
      OBVIOUS
    <3>1. snap69.v4 \in Versions
      BY DEF BuildInvariant, BuildTypes
    <3>2. snap69.v4 \in Nat
      BY <3>1, VersionsOrdered
    <3>3. source["v4"] <= source'["v4"] /\ source["v4"] \in Nat /\ source'["v4"] \in Nat
      BY <1>3, <1>4, <1>6
    <3> QED
      BY <3>2, <3>3
  <2> QED
    BY <1>2, <1>8, <1>9, <1>10, <2>1 DEF BuildInvariant, BuildTypes, Copies69, Built, MergedAsSnapped, HasExpected,
      V3CopyIs, MergedBetween
<1>13. NothingReportedYet' /\ ReportsLast' /\ JudgementMeans'
  BY <1>2 DEF BuildInvariant, NothingReportedYet, ReportsLast, JudgementMeans
<1> QED
  BY <1>5, <1>11, <1>12, <1>13 DEF BuildInvariant

\* A step of the first script leaves the second's state, and what it gave it, as it was.
LEMMA OtherScriptKept69 ==
  ASSUME BuildInvariant,
         UNCHANGED <<source, at69, snap69>>,
         built' \in [Built -> Contents],
         built'["combined69"] = built["combined69"], reports'["combined69"] = reports["combined69"],
         V3CopyIs(built'["v3 copy"]),
         Len(built'["v3 copy"].parts) = 1 =>
           \/ built'["v3 copy"].parts[1].version = source["v3"]
           \/ Len(built["v3 copy"].parts) = 1 /\ built'["v3 copy"].parts[1].version = built["v3 copy"].parts[1].version
  PROVE  Copies69'
<1>1. /\ \A v \in Versions : v \in Nat
      /\ source["v3"] \in Nat
  BY VersionsOrdered DEF Sources
<1>2. \A d \in Contents : Len(d.parts) = 1 => d.parts[1].version \in Nat
  BY FirstPart
<1>3. built["v3 copy"] \in Contents /\ built'["v3 copy"] \in Contents /\ built["combined69"] \in Contents
  BY DEF BuildInvariant, BuildTypes, Built
<1>4. ASSUME at69 # "idle", Len(snap69.copy.parts) = 1, Len(built'["v3 copy"].parts) = 1
      PROVE  snap69.copy.parts[1].version <= built'["v3 copy"].parts[1].version
  <2>1. snap69.copy \in Contents
    BY <1>4 DEF BuildInvariant, BuildTypes
  <2>2. snap69.copy.parts[1].version \in Nat /\ built'["v3 copy"].parts[1].version \in Nat
    BY <1>2, <1>3, <1>4, <2>1
  <2>3. snap69.copy.parts[1].version <= source["v3"]
    <3>1. V3CopyIs(snap69.copy)
      BY <1>4 DEF BuildInvariant, Copies69
    <3>2. Len(snap69.copy.parts) # 0
      BY <1>4, OneIsNotNone
    <3> QED
      BY <3>1, <3>2 DEF V3CopyIs
  <2> QED
    BY <1>1, <1>4, <2>2, <2>3 DEF BuildInvariant, Copies69
<1>5. at69 = "untouched" => MergedBetween(built["combined69"])'
  <2> SUFFICES ASSUME at69 = "untouched", Len(built'["v3 copy"].parts) = 1
               PROVE  built["combined69"].parts[1].version <= built'["v3 copy"].parts[1].version
    <3>1. at69 = "untouched" => MergedBetween(built["combined69"])
      BY DEF BuildInvariant, Copies69
    <3> QED
      BY <3>1 DEF MergedBetween
  <2>1. MergedBetween(built["combined69"])
    BY DEF BuildInvariant, Copies69
  <2> QED
    BY <1>1, <2>1 DEF MergedBetween
<1>6. \A d : V3CopyIs(d)' = V3CopyIs(d) /\ MergedAsSnapped(d)' = MergedAsSnapped(d)
  BY DEF V3CopyIs, MergedAsSnapped, HasExpected
<1> QED
  BY <1>4, <1>5, <1>6 DEF BuildInvariant, Copies69, V3CopyIs, MergedBetween, MergedAsSnapped, HasExpected

\* And the other way round: the second script only writes its own dataset and report.
LEMMA OtherScriptKept65 ==
  ASSUME BuildInvariant, UNCHANGED <<source, at65, snap65>>,
         built'["v2 copy"] = built["v2 copy"], built'["v3 copy"] = built["v3 copy"],
         built'["combined65"] = built["combined65"], reports'["combined65"] = reports["combined65"]
  PROVE  Copies65'
BY DEF BuildInvariant, Copies65, CopiedOf, CopyAsSnapped, BothAsSnapped, HasExpected

LEMMA FirstStarts ==
  ASSUME BuildInvariant, Start65
  PROVE  BuildInvariant'
<1>1. /\ at65 = "idle" /\ at65' = "copy v2" /\ force65' \in BOOLEAN
      /\ forced' = IF force65' THEN forced \union {"combined65"} ELSE forced
      /\ snap65' = source
      /\ UNCHANGED <<source, built, at69, force69, snap69, opened69, reports, judged>>
  BY DEF Start65
<1>2. BuildTypes'
  BY <1>1 DEF BuildInvariant, BuildTypes, Phases65
<1>3. Copies65'
  <2>1. \A t \in Sources : source[t] <= source[t]
    <3>1. \A t \in Sources : source[t] \in Nat
      BY VersionsOrdered
    <3> QED
      BY <3>1
  <2> QED
    BY <1>1, <2>1 DEF Copies65, V2IsCopied, V3IsCopied
<1>4. Copies69'
  BY <1>1 DEF BuildInvariant, Copies69, V3CopyIs, MergedBetween, MergedAsSnapped, HasExpected
<1>5. NothingReportedYet'
  BY <1>1 DEF BuildInvariant, NothingReportedYet
<1>6. ReportsLast' /\ JudgementMeans'
  BY <1>1 DEF BuildInvariant, ReportsLast, JudgementMeans
<1> QED
  BY <1>2, <1>3, <1>4, <1>5, <1>6 DEF BuildInvariant

\* The first script ends, or goes on without touching the disk.
LEMMA FirstLooks ==
  ASSUME BuildInvariant, Dies65 \/ Check65 \/ Validate65
  PROVE  BuildInvariant'
<1>1. UNCHANGED <<built, snap65, reports, source, at69, force65, force69, snap69, opened69, starts, forced, judged>>
  BY DEF Dies65, Check65, Validate65, Others65
<1>2. \/ at65' = "idle"
      \/ /\ at65 = "check" /\ at65' = "merge" /\ Untouched65
         /\ \A d \in {"v2 copy", "v3 copy"} : HasExpected(built[d]) /\ built[d].task = "new"
      \/ at65 = "validate" /\ at65' = "report" /\ HasExpected(built["combined65"])
  BY DEF Dies65, Check65, Validate65
<1>3. BuildTypes'
  BY <1>1, <1>2 DEF BuildInvariant, BuildTypes, Phases65
<1>4. Copies69'
  BY <1>1 DEF BuildInvariant, Copies69, V3CopyIs, MergedBetween, MergedAsSnapped, HasExpected
<1>5. NothingReportedYet' /\ ReportsLast' /\ JudgementMeans'
  BY <1>1, <1>2 DEF BuildInvariant, NothingReportedYet, ReportsLast, JudgementMeans
<1>6. Copies65'
  <2>1. CASE at65' = "idle"
    BY <1>1, <2>1 DEF BuildInvariant, Copies65, V2IsCopied, V3IsCopied
  <2>2. CASE at65 = "check" /\ at65' = "merge"
    <3>1. source["v2"] = snap65["v2"] /\ source["v3"] = snap65["v3"]
      BY <1>2, <2>2 DEF Untouched65
    <3>2. CopiedOf(built["v2 copy"], "v2") /\ CopiedOf(built["v3 copy"], "v3")
      BY <2>2 DEF BuildInvariant, Copies65, V2IsCopied, V3IsCopied
    <3>3. built["v2 copy"].parts[1].version \in Nat /\ built["v3 copy"].parts[1].version \in Nat
      <4>1. built["v2 copy"] \in Contents /\ built["v3 copy"] \in Contents
        BY DEF BuildInvariant, BuildTypes, Built
      <4>2. Len(built["v2 copy"].parts) = 1 /\ Len(built["v3 copy"].parts) = 1
        BY <3>2 DEF CopiedOf
      <4> QED
        BY <4>1, <4>2, FirstPart
    <3>4. snap65["v2"] \in Nat /\ snap65["v3"] \in Nat
      BY VersionsOrdered DEF Sources
    <3>5. built["v2 copy"].parts[1].version = snap65["v2"] /\ built["v3 copy"].parts[1].version = snap65["v3"]
      <4>1. /\ snap65["v2"] <= built["v2 copy"].parts[1].version /\ built["v2 copy"].parts[1].version <= snap65["v2"]
            /\ snap65["v3"] <= built["v3 copy"].parts[1].version /\ built["v3 copy"].parts[1].version <= snap65["v3"]
        BY <3>1, <3>2 DEF CopiedOf
      <4> QED
        BY <3>3, <3>4, <4>1, SameNumbers
    <3>6. CopyAsSnapped(built["v2 copy"], "v2") /\ CopyAsSnapped(built["v3 copy"], "v3")
      BY <1>2, <2>2, <3>2, <3>5 DEF CopiedOf, CopyAsSnapped
    <3> QED
      BY <1>1, <2>2, <3>2, <3>6 DEF BuildInvariant, Copies65, CopiedOf, CopyAsSnapped
  <2>3. CASE at65 = "validate" /\ at65' = "report"
    <3>1. HasExpected(built["combined65"])
      BY <1>2, <2>3
    <3> QED
      BY <1>1, <2>3, <3>1 DEF BuildInvariant, Copies65, BothAsSnapped, HasExpected, V2IsCopied, V3IsCopied
  <2> QED
    BY <1>2, <2>1, <2>2, <2>3
<1> QED
  BY <1>3, <1>4, <1>5, <1>6 DEF BuildInvariant

\* It writes its report.
LEMMA FirstReports ==
  ASSUME BuildInvariant, Report65
  PROVE  BuildInvariant'
<1>1. /\ at65 = "report" /\ at65' = "reported"
      /\ reports' = [reports EXCEPT !["combined65"] = built["combined65"]]
      /\ UNCHANGED <<built, snap65, source, at69, force65, force69, snap69, opened69, starts, forced, judged>>
  BY DEF Report65, Others65
<1>2. /\ reports'["combined65"] = built["combined65"] /\ reports'["combined69"] = reports["combined69"]
      /\ reports' \in [{"combined65", "combined69"} -> Contents]
      /\ DOMAIN reports' = {"combined65", "combined69"} /\ DOMAIN reports = {"combined65", "combined69"}
  BY <1>1 DEF BuildInvariant, BuildTypes, Built
<1>3. BuildTypes'
  BY <1>1, <1>2 DEF BuildInvariant, BuildTypes, Phases65
<1>4. Copies65'
  BY <1>1, <1>2 DEF BuildInvariant, Copies65, V2IsCopied, V3IsCopied, BothAsSnapped, HasExpected
<1>5. Copies69'
  BY <1>1, <1>2 DEF BuildInvariant, Copies69, V3CopyIs, MergedBetween, MergedAsSnapped, HasExpected
<1>6. NothingReportedYet' /\ ReportsLast' /\ JudgementMeans'
  BY <1>1, <1>2 DEF BuildInvariant, NothingReportedYet, ReportsLast, JudgementMeans
<1> QED
  BY <1>3, <1>4, <1>5, <1>6 DEF BuildInvariant

\* What it writes to one place.
LEMMA FirstWrites ==
  ASSUME BuildInvariant, NEW d \in {"v2 copy", "v3 copy", "combined65"}, NEW content \in Contents,
         built' = [built EXCEPT ![d] = content], at65' \in Phases65,
         UNCHANGED <<snap65, reports, source, at69, force65, force69, snap69, opened69, starts, forced, judged>>,
         d = "v3 copy" => /\ V3CopyIs(content)
                          /\ Len(content.parts) = 1 =>
                               \/ content.parts[1].version = source["v3"]
                               \/ /\ Len(built["v3 copy"].parts) = 1
                                  /\ content.parts[1].version = built["v3 copy"].parts[1].version,
         d = "combined65" => "combined65" \in forced \/ reports["combined65"] = Absent,
         at65' = "fill combined" /\ "combined65" \notin forced => reports["combined65"] = Absent
  PROVE  /\ BuildTypes' /\ Copies69' /\ NothingReportedYet' /\ ReportsLast' /\ JudgementMeans'
         /\ built'[d] = content /\ \A e \in Built : e # d => built'[e] = built[e]
<1>1. /\ built' \in [Built -> Contents] /\ built'[d] = content /\ \A e \in Built : e # d => built'[e] = built[e]
  BY DEF BuildInvariant, BuildTypes, Built
<1>2. BuildTypes'
  BY <1>1 DEF BuildInvariant, BuildTypes
<1>3. built'["combined69"] = built["combined69"]
  BY <1>1 DEF Built
<1>4. /\ V3CopyIs(built'["v3 copy"])
      /\ Len(built'["v3 copy"].parts) = 1 =>
           \/ built'["v3 copy"].parts[1].version = source["v3"]
           \/ Len(built["v3 copy"].parts) = 1 /\ built'["v3 copy"].parts[1].version = built["v3 copy"].parts[1].version
  <2>1. CASE d = "v3 copy"
    BY <1>1, <2>1
  <2>2. CASE d # "v3 copy"
    BY <1>1, <2>2 DEF BuildInvariant, Copies69, Built
  <2> QED
    BY <2>1, <2>2
<1>5. Copies69'
  BY <1>1, <1>3, <1>4, OtherScriptKept69
<1>6. NothingReportedYet' /\ JudgementMeans'
  BY DEF BuildInvariant, NothingReportedYet, JudgementMeans
<1>7. ReportsLast'
  <2>1. DOMAIN reports = {"combined65", "combined69"}
    BY DEF BuildInvariant, BuildTypes
  <2>2. "combined65" \notin forced /\ reports["combined65"] # Absent => built'["combined65"] = reports["combined65"]
    <3>1. CASE d = "combined65"
      BY <3>1
    <3>2. CASE d # "combined65"
      BY <1>1, <2>1, <3>2 DEF BuildInvariant, ReportsLast, Built
    <3> QED
      BY <3>1, <3>2
  <2>3. "combined69" \notin forced /\ reports["combined69"] # Absent => built'["combined69"] = reports["combined69"]
    BY <1>3, <2>1 DEF BuildInvariant, ReportsLast
  <2> QED
    BY <2>1, <2>2, <2>3 DEF ReportsLast
<1> QED
  BY <1>1, <1>2, <1>5, <1>6, <1>7

LEMMA FirstClears ==
  ASSUME BuildInvariant, ClearV2 \/ ClearV3 \/ ClearCombined65
  PROVE  BuildInvariant'
<1>1. PICK d \in {"v2 copy", "v3 copy", "combined65"} :
        /\ \/ at65 = "copy v2" /\ d = "v2 copy" /\ at65' \in {"idle", "fill v2"}
           \/ at65 = "copy v3" /\ d = "v3 copy" /\ at65' \in {"idle", "fill v3"}
           \/ at65 = "merge" /\ d = "combined65" /\ at65' \in {"idle", "fill combined"}
        /\ \/ at65' = "idle" /\ UNCHANGED built
           \/ ~(built[d] # Absent /\ ~force65) /\ built' = [built EXCEPT ![d] = Partial]
        /\ UNCHANGED <<snap65, reports, source, at69, force65, force69, snap69, opened69, starts, forced, judged>>
  BY DEF ClearV2, ClearV3, ClearCombined65, Clears65, Others65
<1>2. CASE at65' = "idle" /\ UNCHANGED built
  <2>1. BuildTypes' /\ Copies65'
    BY <1>1, <1>2 DEF BuildInvariant, BuildTypes, Copies65, Phases65, V2IsCopied, V3IsCopied
  <2>2. Copies69'
    BY <1>1, <1>2 DEF BuildInvariant, Copies69, V3CopyIs, MergedBetween, MergedAsSnapped, HasExpected
  <2>3. NothingReportedYet' /\ ReportsLast' /\ JudgementMeans'
    BY <1>1, <1>2 DEF BuildInvariant, NothingReportedYet, ReportsLast, JudgementMeans
  <2> QED
    BY <2>1, <2>2, <2>3 DEF BuildInvariant
<1>3. CASE ~(built[d] # Absent /\ ~force65) /\ built' = [built EXCEPT ![d] = Partial]
  <2>1. Partial \in Contents /\ Len(Partial.parts) = 0
    <3>0. <<>> \in Seq(DataParts) /\ "partial" \in Tasks
      <4>1. <<>> \in Seq(DataParts)
        BY NothingIsSeq
      <4>2. "partial" \in Tasks
        BY DEF Tasks
      <4> QED
        BY <4>1, <4>2
    <3>1. Partial = [parts |-> <<>>, task |-> "partial"]
      BY DEF Partial
    <3>2. Partial \in Contents /\ Partial.parts = <<>>
      BY <3>0, <3>1 DEF Contents
    <3> QED
      BY <3>2
  <2>2. V3CopyIs(Partial) /\ Len(Partial.parts) # 1
    BY <2>1, OneIsNotNone DEF V3CopyIs
  <2>3. d = "combined65" => "combined65" \in forced \/ reports["combined65"] = Absent
    <3>1. DOMAIN reports = {"combined65", "combined69"}
      BY DEF BuildInvariant, BuildTypes
    <3> QED
      BY <1>3, <3>1 DEF BuildInvariant, NothingReportedYet, ReportsLast
  <2>4. at65' \in Phases65
    BY <1>1 DEF Phases65
  <2>5. at65' = "fill combined" => d = "combined65"
    BY <1>1
  <2>6. /\ BuildTypes' /\ Copies69' /\ NothingReportedYet' /\ ReportsLast' /\ JudgementMeans'
        /\ \A e \in Built : e # d => built'[e] = built[e]
    BY <1>1, <1>3, <2>1, <2>2, <2>3, <2>4, <2>5, FirstWrites
  <2>7. Copies65'
    <3>1. /\ d # "v2 copy" => built'["v2 copy"] = built["v2 copy"]
          /\ d # "v3 copy" => built'["v3 copy"] = built["v3 copy"]
      BY <2>6 DEF Built
    <3> QED
      BY <1>1, <3>1 DEF BuildInvariant, Copies65, V2IsCopied, V3IsCopied, CopiedOf, CopyAsSnapped
  <2> QED
    BY <2>6, <2>7 DEF BuildInvariant
<1> QED
  BY <1>1, <1>2, <1>3


\* What is copied has one part, and the new task changes no part.
LEMMA CopiesAre ==
  ASSUME BuildInvariant, NEW s \in Sources, NEW t \in Tasks
  PROVE  /\ CopyOf(s, t) \in Contents /\ Len(CopyOf(s, t).parts) = 1 /\ CopyOf(s, t).task = t
         /\ CopyOf(s, t).parts[1].of = s /\ CopyOf(s, t).parts[1].version = source[s]
<1>1. source[s] \in Versions
  BY VersionsOrdered
<1>2. CopyOf(s, t) = [parts |-> <<[of |-> s, version |-> source[s]]>>, task |-> t]
  BY DEF CopyOf
<1>3. [of |-> s, version |-> source[s]] \in DataParts
  BY <1>1 DEF DataParts
<1>4. <<[of |-> s, version |-> source[s]]>> \in Seq(DataParts)
  BY <1>3
<1>5. CopyOf(s, t) \in Contents
  BY <1>2, <1>4 DEF Contents
<1>6. CopyOf(s, t).parts = <<[of |-> s, version |-> source[s]]>> /\ CopyOf(s, t).task = t
  BY <1>2
<1> QED
  BY <1>5, <1>6

WithTask(d, t) == [d EXCEPT !.task = t]
LEMMA RetaskedAre ==
  ASSUME NEW d \in Contents, NEW t \in Tasks
  PROVE  /\ WithTask(d, t) \in Contents /\ WithTask(d, t).parts = d.parts
         /\ WithTask(d, t).task = t
BY DEF Contents, WithTask

LEMMA FirstFills ==
  ASSUME BuildInvariant, CopyV2 \/ CopyV3 \/ RetaskV2 \/ RetaskV3
  PROVE  BuildInvariant'
<1> DEFINE d == IF at65 \in {"fill v2", "retask v2"} THEN "v2 copy" ELSE "v3 copy"
           content == CASE at65 = "fill v2" -> CopyOf("v2", "old") [] at65 = "fill v3" -> CopyOf("v3", "old")
                        [] OTHER -> WithTask(built[d], "new")
<1>1. /\ \/ at65 = "fill v2" /\ at65' = "copy v3" /\ content = CopyOf("v2", "old") /\ d = "v2 copy"
         \/ at65 = "fill v3" /\ at65' = "retask v2" /\ content = CopyOf("v3", "old") /\ d = "v3 copy"
         \/ at65 = "retask v2" /\ at65' = "retask v3" /\ content = WithTask(built["v2 copy"], "new") /\ d = "v2 copy"
         \/ at65 = "retask v3" /\ at65' = "check" /\ content = WithTask(built["v3 copy"], "new") /\ d = "v3 copy"
      /\ built' = [built EXCEPT ![d] = content]
      /\ UNCHANGED <<snap65, reports, source, at69, force65, force69, snap69, opened69, starts, forced, judged>>
  BY DEF CopyV2, CopyV3, RetaskV2, RetaskV3, Does65, Others65, WithTask
<1> HIDE DEF d, content
<1>2. "v2" \in Sources /\ "v3" \in Sources /\ "old" \in Tasks /\ "new" \in Tasks
  BY DEF Sources, Tasks
<1>3. built["v2 copy"] \in Contents /\ built["v3 copy"] \in Contents
  BY DEF BuildInvariant, BuildTypes, Built
<1> DEFINE New2 == CopyOf("v2", "old")
           New3 == CopyOf("v3", "old")
           Same2 == WithTask(built["v2 copy"], "new")
           Same3 == WithTask(built["v3 copy"], "new")
<1>31. /\ New2 \in Contents /\ Len(New2.parts) = 1 /\ New2.parts[1].of = "v2" /\ New2.parts[1].version = source["v2"]
      /\ New3 \in Contents /\ Len(New3.parts) = 1 /\ New3.parts[1].of = "v3" /\ New3.parts[1].version = source["v3"]
  BY <1>2, CopiesAre
<1>32. Same2 \in Contents /\ Same2.parts = built["v2 copy"].parts /\ Same3 \in Contents /\ Same3.parts = built["v3 copy"].parts
  BY <1>2, <1>3, RetaskedAre
<1>33. /\ at65 \in {"fill v2", "fill v3", "retask v2", "retask v3"}
       /\ at65 = "fill v2" => content = New2
       /\ at65 = "fill v3" => content = New3
       /\ at65 = "retask v2" => content = Same2
       /\ at65 = "retask v3" => content = Same3
  BY <1>1
<1> HIDE DEF New2, New3, Same2, Same3
<1>4. content \in Contents
  BY <1>31, <1>32, <1>33
<1>5. \A s \in Sources : snap65[s] <= source[s] /\ source[s] <= source[s]
  <2>1. \A s \in Sources : source[s] \in Nat
    BY VersionsOrdered
  <2>2. \A s \in Sources : source[s] <= source[s]
    BY <2>1
  <2> QED
    BY <2>2 DEF BuildInvariant, Copies65
<1>6. d = "v3 copy" => V3CopyIs(content) /\ CopiedOf(content, "v3")
  <2>1. CASE at65 = "fill v3"
    <3>1. /\ Len(content.parts) = 1 /\ content.parts[1].of = "v3"
          /\ content.parts[1].version = source["v3"]
      BY <1>31, <1>33, <2>1
    <3> QED
      BY <1>2, <1>5, <3>1 DEF V3CopyIs, CopiedOf
  <2>2. CASE at65 = "retask v3"
    <3>1. content.parts = built["v3 copy"].parts
      BY <1>32, <1>33, <2>2
    <3>2. CopiedOf(built["v3 copy"], "v3") /\ V3CopyIs(built["v3 copy"])
      BY <2>2 DEF BuildInvariant, Copies65, Copies69, V3IsCopied
    <3> QED
      BY <3>1, <3>2 DEF V3CopyIs, CopiedOf
  <2>3. CASE d = "v2 copy"
    BY <2>3
  <2> QED
    BY <1>1, <2>1, <2>2, <2>3
<1>7. d = "v2 copy" => CopiedOf(content, "v2")
  <2>1. CASE at65 = "fill v2"
    <3>1. /\ Len(content.parts) = 1 /\ content.parts[1].of = "v2"
          /\ content.parts[1].version = source["v2"]
      BY <1>31, <1>33, <2>1
    <3> QED
      BY <1>2, <1>5, <3>1 DEF CopiedOf
  <2>2. CASE at65 = "retask v2"
    <3>1. content.parts = built["v2 copy"].parts
      BY <1>32, <1>33, <2>2
    <3>2. CopiedOf(built["v2 copy"], "v2")
      BY <2>2 DEF BuildInvariant, Copies65, V2IsCopied
    <3> QED
      BY <3>1, <3>2 DEF CopiedOf
  <2>3. CASE d = "v3 copy"
    BY <2>3
  <2> QED
    BY <1>1, <2>1, <2>2, <2>3
<1>8. d = "v3 copy" => \/ content.parts[1].version = source["v3"]
                      \/ /\ Len(built["v3 copy"].parts) = 1
                         /\ content.parts[1].version = built["v3 copy"].parts[1].version
  <2>1. CASE at65 = "fill v3"
    BY <1>31, <1>33, <2>1
  <2>2. CASE at65 = "retask v3"
    <3>1. content.parts = built["v3 copy"].parts
      BY <1>32, <1>33, <2>2
    <3>2. CopiedOf(built["v3 copy"], "v3")
      BY <2>2 DEF BuildInvariant, Copies65, V3IsCopied
    <3> QED
      BY <3>1, <3>2 DEF CopiedOf
  <2>3. CASE d = "v2 copy"
    BY <2>3
  <2> QED
    BY <1>1, <2>1, <2>2, <2>3
<1>9. at65' \in Phases65 /\ at65' # "fill combined" /\ d \in {"v2 copy", "v3 copy", "combined65"} /\ d # "combined65"
  BY <1>1 DEF Phases65
<1>10. /\ BuildTypes' /\ Copies69' /\ NothingReportedYet' /\ ReportsLast' /\ JudgementMeans'
       /\ built'[d] = content /\ \A e \in Built : e # d => built'[e] = built[e]
  BY <1>1, <1>4, <1>6, <1>8, <1>9, FirstWrites
<1>11. Copies65'
  <2>1. \A e, s : CopiedOf(e, s)' = CopiedOf(e, s)
    BY <1>1 DEF CopiedOf
  <2>2. /\ at65' \in V2IsCopied /\ (at65' \in V3IsCopied => at65' # "copy v3")
        /\ at65' \notin {"merge", "fill combined", "validate", "report", "reported"}
    BY <1>1 DEF V2IsCopied, V3IsCopied
  <2>3. CopiedOf(built'["v2 copy"], "v2")
    <3>1. CASE d = "v2 copy"
      BY <1>7, <1>10, <3>1
    <3>2. CASE d = "v3 copy"
      <4>1. built'["v2 copy"] = built["v2 copy"]
        BY <1>10, <3>2 DEF Built
      <4>2. at65 \in V2IsCopied
        BY <1>1, <3>2 DEF V2IsCopied
      <4> QED
        BY <4>1, <4>2 DEF BuildInvariant, Copies65
    <3> QED
      BY <1>1, <3>1, <3>2
  <2>4. at65' # "copy v3" => CopiedOf(built'["v3 copy"], "v3")
    <3>1. CASE d = "v3 copy"
      BY <1>6, <1>10, <3>1
    <3>2. CASE d = "v2 copy" /\ at65' # "copy v3"
      <4>1. built'["v3 copy"] = built["v3 copy"]
        BY <1>10, <3>2 DEF Built
      <4>2. at65 \in V3IsCopied
        BY <1>1, <3>2 DEF V3IsCopied
      <4> QED
        BY <4>1, <4>2 DEF BuildInvariant, Copies65
    <3> QED
      BY <1>1, <3>1, <3>2
  <2> QED
    BY <1>1, <1>5, <2>2, <2>3, <2>4 DEF Copies65, CopiedOf
<1> QED
  BY <1>10, <1>11 DEF BuildInvariant

\* It merges the two copies.
LEMMA MergedAre ==
  ASSUME NEW a \in Contents, NEW b \in Contents, Len(a.parts) = 1, Len(b.parts) = 1
  PROVE  /\ Merged(a, b) \in Contents /\ Len(Merged(a, b).parts) = 2
         /\ Merged(a, b).parts[1] = a.parts[1] /\ Merged(a, b).parts[2] = b.parts[1]
         /\ a.task = b.task => Merged(a, b).task = a.task
<1>1. a.parts \in Seq(DataParts) /\ b.parts \in Seq(DataParts) /\ a.task \in Tasks
  BY DEF Contents
<1> DEFINE p == a.parts \o b.parts
           t == IF a.task = b.task THEN a.task ELSE "mixed"
<1>2. p \in Seq(DataParts) /\ Len(p) = 2 /\ p[1] = a.parts[1] /\ p[2] = b.parts[1]
  <2> DEFINE x == a.parts
             y == b.parts
  <2>1. x \in Seq(DataParts) /\ y \in Seq(DataParts) /\ Len(x) = 1 /\ Len(y) = 1
    BY <1>1
  <2> HIDE DEF x, y
  <2>2. /\ x \o y \in Seq(DataParts) /\ Len(x \o y) = 2 /\ (x \o y)[1] = x[1] /\ (x \o y)[2] = y[1]
    BY <2>1, OneAndOne
  <2> QED
    BY <2>2 DEF x, y
<1>3. t \in Tasks /\ (a.task = b.task => t = a.task)
  BY <1>1 DEF Tasks
<1>4. Merged(a, b) = [parts |-> p, task |-> t]
  BY DEF Merged
<1> HIDE DEF p, t
<1> QED
  BY <1>2, <1>3, <1>4 DEF Contents

LEMMA FirstMerges ==
  ASSUME BuildInvariant, Merge65
  PROVE  BuildInvariant'
<1> DEFINE a == built["v2 copy"]
           b == built["v3 copy"]
           content == Merged(a, b)
<1>1. /\ at65 = "fill combined" /\ at65' = "validate" /\ built' = [built EXCEPT !["combined65"] = content]
      /\ UNCHANGED <<snap65, reports, source, at69, force65, force69, snap69, opened69, starts, forced, judged>>
  BY DEF Merge65, Does65, Others65
<1>2. CopyAsSnapped(a, "v2") /\ CopyAsSnapped(b, "v3")
  BY <1>1 DEF BuildInvariant, Copies65
<1>3. a \in Contents /\ b \in Contents /\ Len(a.parts) = 1 /\ Len(b.parts) = 1 /\ a.task = "new" /\ b.task = "new"
  BY <1>2 DEF BuildInvariant, BuildTypes, Built, CopyAsSnapped
<1> HIDE DEF a, b
<1>4. /\ content \in Contents /\ Len(content.parts) = 2 /\ content.task = "new"
      /\ content.parts[1] = a.parts[1] /\ content.parts[2] = b.parts[1]
  BY <1>3, MergedAre
<1> HIDE DEF content
<1>5. BothAsSnapped(content)
  BY <1>2, <1>4 DEF CopyAsSnapped, BothAsSnapped
<1>6. "combined65" \in forced \/ reports["combined65"] = Absent
  BY <1>1 DEF BuildInvariant, NothingReportedYet
<1>7. "validate" \in Phases65
  BY DEF Phases65
<1>8. /\ BuildTypes' /\ Copies69' /\ NothingReportedYet' /\ ReportsLast' /\ JudgementMeans'
      /\ built'["combined65"] = content
  BY <1>1, <1>4, <1>6, <1>7, FirstWrites
<1>9. Copies65'
  BY <1>1, <1>5, <1>8 DEF BuildInvariant, Copies65, BothAsSnapped, V2IsCopied, V3IsCopied
<1> QED
  BY <1>8, <1>9 DEF BuildInvariant

-----------------------------------------------------------------------------
(* The second script.                                                      *)
LEMMA SecondStarts ==
  ASSUME BuildInvariant, Start69
  PROVE  BuildInvariant'
<1>1. /\ at69 = "idle" /\ at69' = "check" /\ force69' \in BOOLEAN
      /\ forced' = IF force69' THEN forced \union {"combined69"} ELSE forced
      /\ snap69' = [copy |-> built["v3 copy"], v4 |-> source["v4"]]
      /\ UNCHANGED <<source, built, at65, force65, snap65, opened69, reports, judged>>
  BY DEF Start69, Originals69
<1>2. built["v3 copy"] \in Contents /\ source["v4"] \in Versions /\ source["v4"] \in Nat
  <2>1. built["v3 copy"] \in Contents
    BY DEF BuildInvariant, BuildTypes, Built
  <2>2. source["v4"] \in Versions
    BY VersionsOrdered DEF Sources
  <2> QED
    BY <2>1, <2>2, VersionsOrdered
<1>3. /\ snap69' \in [copy : Contents, v4 : Versions] /\ snap69'.copy = built["v3 copy"] /\ snap69'.v4 = source["v4"]
      /\ source["v4"] <= source["v4"]
  <2>1. source["v4"] <= source["v4"]
    BY <1>2, NoMoreThanItself
  <2> QED
    BY <1>1, <1>2, <2>1
<1>4. BuildTypes'
  BY <1>1, <1>3 DEF BuildInvariant, BuildTypes, Phases69
<1>5. Len(built["v3 copy"].parts) = 1 => built["v3 copy"].parts[1].version <= built["v3 copy"].parts[1].version
  <2> SUFFICES ASSUME Len(built["v3 copy"].parts) = 1
               PROVE  built["v3 copy"].parts[1].version <= built["v3 copy"].parts[1].version
    OBVIOUS
  <2>1. built["v3 copy"].parts[1].version \in Nat
    BY <1>2, FirstPart
  <2> QED
    BY <2>1, NoMoreThanItself
<1>6. Copies69'
  BY <1>1, <1>3, <1>5 DEF BuildInvariant, Copies69, V3CopyIs
<1>7. Copies65' /\ NothingReportedYet' /\ ReportsLast' /\ JudgementMeans'
  <2>1. Copies65'
    BY <1>1, OtherScriptKept65
  <2> QED
    BY <1>1, <2>1 DEF BuildInvariant, NothingReportedYet, ReportsLast, JudgementMeans
<1> QED
  BY <1>4, <1>6, <1>7 DEF BuildInvariant

LEMMA SecondLooks ==
  ASSUME BuildInvariant, Dies69 \/ Check69 \/ Open69 \/ Validate69
  PROVE  BuildInvariant'
<1>1. UNCHANGED <<built, snap69, reports, source, at65, force65, force69, snap65, starts, forced, judged>>
  BY DEF Dies69, Check69, Open69, Validate69, Others69
<1>2. /\ at69 # "idle"
      /\ \/ at69' = "idle"
         \/ at69 = "check" /\ at69' = "clear"
         \/ at69 = "open" /\ at69' = "fill"
         \/ /\ at69 = "untouched" /\ at69' = "report" /\ Untouched69
            /\ HasExpected(built["combined69"]) /\ built["combined69"].task = "new"
      /\ opened69' \in {opened69, built["v3 copy"]}
  BY DEF Dies69, Check69, Open69, Validate69
<1>3. BuildTypes'
  <2>1. built["v3 copy"] \in Contents /\ opened69 \in Contents
    BY DEF BuildInvariant, BuildTypes, Built
  <2>2. opened69' \in Contents
    BY <1>2, <2>1
  <2>3. at69' \in Phases69
    BY <1>2 DEF Phases69
  <2> QED
    BY <1>1, <1>2, <2>2, <2>3 DEF BuildInvariant, BuildTypes
<1>4. Copies65'
  BY <1>1, OtherScriptKept65
<1>5. NothingReportedYet' /\ ReportsLast' /\ JudgementMeans'
  BY <1>1, <1>2 DEF BuildInvariant, NothingReportedYet, ReportsLast, JudgementMeans
<1>6. Copies69'
  <2>1. CASE at69' \in {"idle", "clear", "fill"}
    BY <1>1, <1>2, <2>1 DEF BuildInvariant, Copies69, V3CopyIs
  <2>2. CASE at69 = "untouched" /\ at69' = "report"
    <3> DEFINE d == built["combined69"]
    <3>1. MergedBetween(d) /\ HasExpected(d) /\ d.task = "new" /\ Untouched69
      BY <1>2, <2>2 DEF BuildInvariant, Copies69
    <3>2. snap69.copy = built["v3 copy"] /\ snap69.v4 = source["v4"]
      <4>1. snap69 = [copy |-> built["v3 copy"], v4 |-> source["v4"]]
        BY <3>1 DEF Untouched69, Originals69
      <4> QED
        BY <4>1
    <3>3. d \in Contents /\ built["v3 copy"] \in Contents
      BY DEF BuildInvariant, BuildTypes, Built
    <3>4. /\ Len(d.parts) = 2 /\ d.parts[1].of = "v3" /\ d.parts[2].of = "v4"
          /\ Len(built["v3 copy"].parts) = 1 =>
               /\ d.parts[1].version <= built["v3 copy"].parts[1].version
               /\ built["v3 copy"].parts[1].version <= d.parts[1].version
          /\ source["v4"] <= d.parts[2].version /\ d.parts[2].version <= source["v4"]
      BY <3>1, <3>2 DEF MergedBetween
    <3> HIDE DEF d
    <3>5. d.parts[1].version \in Nat /\ d.parts[2].version \in Nat
      <4>1. 1 \in 1 .. 2 /\ 2 \in 1 .. 2
        OBVIOUS
      <4>2. 1 \in 1 .. Len(d.parts) /\ 2 \in 1 .. Len(d.parts)
        BY <3>4, <4>1
      <4> QED
        BY <3>3, <4>2, VersionsOrdered
    <3>6. d.parts[2].version = source["v4"]
      <4>1. source["v4"] \in Nat
        BY VersionsOrdered DEF Sources
      <4> QED
        BY <3>4, <3>5, <4>1, SameNumbers
    <3>7. Len(built["v3 copy"].parts) = 1 => d.parts[1].version = built["v3 copy"].parts[1].version
      <4> SUFFICES ASSUME Len(built["v3 copy"].parts) = 1
                   PROVE  d.parts[1].version = built["v3 copy"].parts[1].version
        OBVIOUS
      <4>1. built["v3 copy"].parts[1].version \in Nat
        BY <3>3, FirstPart
      <4> QED
        BY <3>4, <3>5, <4>1, SameNumbers
    <3>8. MergedAsSnapped(d)
      BY <3>1, <3>2, <3>4, <3>6, <3>7 DEF MergedAsSnapped, d
    <3> QED
      BY <1>1, <2>2, <3>8 DEF BuildInvariant, Copies69, V3CopyIs, MergedAsSnapped, HasExpected, d
  <2> QED
    BY <1>2, <2>1, <2>2
<1> QED
  BY <1>3, <1>4, <1>5, <1>6 DEF BuildInvariant

LEMMA SecondReports ==
  ASSUME BuildInvariant, Report69
  PROVE  BuildInvariant'
<1>1. /\ at69 = "report" /\ at69' = "reported"
      /\ reports' = [reports EXCEPT !["combined69"] = built["combined69"]]
      /\ UNCHANGED <<built, snap69, opened69, source, at65, force65, force69, snap65, starts, forced, judged>>
  BY DEF Report69, Others69
<1>2. /\ reports'["combined69"] = built["combined69"] /\ reports'["combined65"] = reports["combined65"]
      /\ reports' \in [{"combined65", "combined69"} -> Contents]
      /\ DOMAIN reports' = {"combined65", "combined69"} /\ DOMAIN reports = {"combined65", "combined69"}
  BY <1>1 DEF BuildInvariant, BuildTypes, Built
<1>3. BuildTypes'
  BY <1>1, <1>2 DEF BuildInvariant, BuildTypes, Phases69
<1>4. Copies65'
  BY <1>1, <1>2, OtherScriptKept65
<1>5. Copies69'
  BY <1>1, <1>2 DEF BuildInvariant, Copies69, V3CopyIs, MergedAsSnapped, HasExpected
<1>6. NothingReportedYet' /\ ReportsLast' /\ JudgementMeans'
  BY <1>1, <1>2 DEF BuildInvariant, NothingReportedYet, ReportsLast, JudgementMeans
<1> QED
  BY <1>3, <1>4, <1>5, <1>6 DEF BuildInvariant

\* What it writes to its dataset.
LEMMA SecondWrites ==
  ASSUME BuildInvariant, NEW content \in Contents, built' = [built EXCEPT !["combined69"] = content],
         at69' \in {"open", "untouched"}, at69 # "idle",
         UNCHANGED <<snap69, reports, opened69, source, at65, force65, force69, snap65, starts, forced, judged>>,
         "combined69" \in forced \/ reports["combined69"] = Absent,
         at69' = "untouched" => MergedBetween(content)
  PROVE  BuildInvariant'
<1>1. /\ built' \in [Built -> Contents] /\ built'["combined69"] = content
      /\ \A e \in Built : e # "combined69" => built'[e] = built[e]
  BY DEF BuildInvariant, BuildTypes, Built
<1>2. BuildTypes'
  BY <1>1 DEF BuildInvariant, BuildTypes, Phases69
<1>3. /\ built'["v2 copy"] = built["v2 copy"] /\ built'["v3 copy"] = built["v3 copy"]
      /\ built'["combined65"] = built["combined65"]
  BY <1>1 DEF Built
<1>4. Copies65'
  BY <1>3, OtherScriptKept65
<1>5. Copies69'
  BY <1>1, <1>3 DEF BuildInvariant, Copies69, V3CopyIs, MergedBetween
<1>6. NothingReportedYet' /\ JudgementMeans'
  BY DEF BuildInvariant, NothingReportedYet, JudgementMeans
<1>7. ReportsLast'
  <2>1. DOMAIN reports = {"combined65", "combined69"}
    BY DEF BuildInvariant, BuildTypes
  <2> QED
    BY <1>1, <1>3, <2>1 DEF BuildInvariant, ReportsLast
<1> QED
  BY <1>2, <1>4, <1>5, <1>6, <1>7 DEF BuildInvariant

LEMMA SecondBuilds ==
  ASSUME BuildInvariant, Clear69 \/ Merge69
  PROVE  BuildInvariant'
<1>1. UNCHANGED <<snap69, reports, opened69, source, at65, force65, force69, snap65, starts, forced, judged>>
  BY DEF Clear69, Merge69, Others69
<1>2. CASE at69' = "idle" /\ UNCHANGED built
  <2>1. BuildTypes' /\ Copies69'
    BY <1>1, <1>2 DEF BuildInvariant, BuildTypes, Copies69, V3CopyIs, Phases69
  <2>2. Copies65'
    BY <1>1, <1>2, OtherScriptKept65
  <2>3. NothingReportedYet' /\ ReportsLast' /\ JudgementMeans'
    BY <1>1, <1>2 DEF BuildInvariant, NothingReportedYet, ReportsLast, JudgementMeans
  <2> QED
    BY <2>1, <2>2, <2>3 DEF BuildInvariant
<1>3. CASE Clear69 /\ ~(at69' = "idle" /\ UNCHANGED built)
  <2>1. /\ at69 = "clear" /\ at69' = "open" /\ ~(built["combined69"] # Absent /\ ~force69)
        /\ built' = [built EXCEPT !["combined69"] = Partial]
    BY <1>3 DEF Clear69
  <2>2. Partial \in Contents
    <3>1. <<>> \in Seq(DataParts)
      BY NothingIsSeq
    <3>2. "partial" \in Tasks
      BY DEF Tasks
    <3> QED
      BY <3>1, <3>2 DEF Partial, Contents
  <2>3. "combined69" \in forced \/ reports["combined69"] = Absent
    <3>1. DOMAIN reports = {"combined65", "combined69"}
      BY DEF BuildInvariant, BuildTypes
    <3> QED
      BY <2>1, <3>1 DEF BuildInvariant, NothingReportedYet, ReportsLast
  <2> QED
    BY <1>1, <2>1, <2>2, <2>3, SecondWrites
<1>4. CASE Merge69 /\ ~(at69' = "idle" /\ UNCHANGED built)
  <2> DEFINE copy == built["v3 copy"]
             a == WithTask(copy, opened69.task)
             b == CopyOf("v4", "new")
             content == Merged(a, b)
  <2>1. /\ at69 = "fill" /\ at69' = "untouched" /\ IsDataset(copy)
        /\ built' = [built EXCEPT !["combined69"] = content]
    BY <1>4 DEF Merge69, WithTask
  <2>2. copy \in Contents /\ opened69.task \in Tasks /\ "v4" \in Sources /\ "new" \in Tasks
    BY DEF BuildInvariant, BuildTypes, Built, Contents, Sources, Tasks
  <2>3. Len(copy.parts) = 1 /\ copy.parts[1].of = "v3" /\ copy.parts[1].version <= source["v3"]
    <3>1. Len(copy.parts) > 0
      BY <2>1, <2>2, VersionsOrdered
    <3>2. Len(copy.parts) # 0
      BY <2>2, <3>1, VersionsOrdered, NoMoreThanItself
    <3> QED
      BY <3>2 DEF BuildInvariant, Copies69, V3CopyIs
  <2>4. copy.parts[1].version \in Nat
    BY <2>2, <2>3, FirstPart
  <2> HIDE DEF copy
  <2>5. a \in Contents /\ a.parts = copy.parts
    BY <2>2, RetaskedAre
  <2>6. b \in Contents /\ Len(b.parts) = 1 /\ b.parts[1].of = "v4" /\ b.parts[1].version = source["v4"]
    BY <2>2, CopiesAre
  <2> HIDE DEF a, b
  <2>7. content \in Contents /\ Len(content.parts) = 2 /\ content.parts[1] = copy.parts[1] /\ content.parts[2] = b.parts[1]
    BY <2>3, <2>5, <2>6, MergedAre
  <2> HIDE DEF content
  <2>8. copy.parts[1].version <= copy.parts[1].version
    BY <2>4
  <2>9. /\ snap69.v4 <= source["v4"] /\ source["v4"] <= source["v4"]
        /\ Len(snap69.copy.parts) = 1 => snap69.copy.parts[1].version <= copy.parts[1].version
    <3>1. at69 # "idle"
      BY <2>1
    <3>2. source["v4"] \in Nat
      BY <2>2, VersionsOrdered
    <3>3. source["v4"] <= source["v4"]
      BY <3>2
    <3> QED
      BY <2>3, <3>1, <3>3 DEF BuildInvariant, Copies69, copy
  <2>10. MergedBetween(content)
    BY <2>3, <2>6, <2>7, <2>8, <2>9 DEF MergedBetween, copy
  <2>11. "combined69" \in forced \/ reports["combined69"] = Absent
    BY <2>1 DEF BuildInvariant, NothingReportedYet
  <2>12. at69' \in {"open", "untouched"} /\ at69 # "idle"
    BY <2>1
  <2> QED
    BY <1>1, <2>1, <2>7, <2>10, <2>11, <2>12, SecondWrites
<1> QED
  BY <1>2, <1>3, <1>4

-----------------------------------------------------------------------------
(* A dataset is judged.                                                    *)
LEMMA VerdictMeans ==
  ASSUME NEW facts \in SUBSET Facts, NEW strict \in BOOLEAN, ExitCode(facts, strict) = "ok"
  PROVE  /\ ~Raises(facts)
         /\ Facts \ facts \subseteq (IF strict THEN {} ELSE {"ffprobe", "videos", "videoFrames", "shape", "dims"})
         /\ "ffprobe" \in facts => "videos" \in facts
         /\ "shape" \in facts => "dims" \in facts
<1>1. ~Raises(facts) /\ Fails(facts) = {} /\ (strict => Warns(facts) = {})
  BY DEF ExitCode
<1>2. "directory" \in facts
  BY <1>1 DEF Raises
<1>3. "files" \in facts
  BY <1>1 DEF Fails
<1>4. "readable" \in facts /\ "json" \in facts
  BY <1>1, <1>3 DEF Fails, Raises
<1>5. "noNulls" \in facts
  BY <1>1, <1>3, <1>4 DEF Raises
<1>6. /\ {"counts", "rows", "columns", "finite", "noNullTimes", "indices", "lengths", "cameras"} \ facts = {}
      /\ "shape" \in facts => {"dims"} \ facts = {}
      /\ "ffprobe" \in facts => {"videos"} \ facts = {}
  BY <1>1, <1>3, <1>4 DEF Fails
<1>7. strict => {"shape", "ffprobe"} \ facts = {} /\ ("ffprobe" \in facts => {"videoFrames"} \ facts = {})
  BY <1>1, <1>3, <1>4 DEF Warns
<1> QED
  BY <1>1, <1>2, <1>3, <1>4, <1>5, <1>6, <1>7 DEF Facts

LEMMA DatasetJudged ==
  ASSUME BuildInvariant, JudgeDataset
  PROVE  BuildInvariant'
<1>1. UNCHANGED <<source, built, at65, at69, force65, force69, snap65, snap69, opened69, reports, starts, forced>>
  BY DEF JudgeDataset
<1>2. PICK wrong \in FewWrong : \E strict \in BOOLEAN :
        judged' = [facts |-> Facts \ wrong, exit |-> ExitCode(Facts \ wrong, strict),
                   written |-> ~Raises(Facts \ wrong),
                   levels |-> IF strict THEN {"FAIL", "WARN"} ELSE {"FAIL"}]
  BY DEF JudgeDataset
<1>3. PICK strict \in BOOLEAN :
        judged' = [facts |-> Facts \ wrong, exit |-> ExitCode(Facts \ wrong, strict),
                   written |-> ~Raises(Facts \ wrong),
                   levels |-> IF strict THEN {"FAIL", "WARN"} ELSE {"FAIL"}]
  BY <1>2
<1> DEFINE facts == Facts \ wrong
<1>4. facts \in SUBSET Facts /\ ExitCode(facts, strict) \in {"ok", "warned", "failed"} /\ Raises(facts) \in BOOLEAN
  BY DEF ExitCode, Raises
<1>5. /\ judged'.facts = facts /\ judged'.exit = ExitCode(facts, strict) /\ judged'.written = ~Raises(facts)
      /\ ("WARN" \in judged'.levels <=> strict)
      /\ judged' \in [facts : SUBSET Facts, levels : SUBSET {"FAIL", "WARN"},
                      exit : {"none", "ok", "warned", "failed"}, written : BOOLEAN]
  <2> HIDE DEF facts
  <2>1. judged' = [facts |-> facts, exit |-> ExitCode(facts, strict), written |-> ~Raises(facts),
                   levels |-> IF strict THEN {"FAIL", "WARN"} ELSE {"FAIL"}]
    BY <1>3 DEF facts
  <2>2. (IF strict THEN {"FAIL", "WARN"} ELSE {"FAIL"}) \in SUBSET {"FAIL", "WARN"}
    OBVIOUS
  <2>3. "WARN" \in (IF strict THEN {"FAIL", "WARN"} ELSE {"FAIL"}) <=> strict
    OBVIOUS
  <2> QED
    BY <1>4, <2>1, <2>2, <2>3
<1> HIDE DEF facts
<1>6. BuildTypes'
  BY <1>1, <1>5 DEF BuildInvariant, BuildTypes
<1>7. JudgementMeans'
  <2> SUFFICES ASSUME judged'.exit = "ok"
               PROVE  /\ judged'.written
                      /\ Facts \ facts \subseteq
                           (IF strict THEN {} ELSE {"ffprobe", "videos", "videoFrames", "shape", "dims"})
                      /\ "ffprobe" \in facts => "videos" \in facts
                      /\ "shape" \in facts => "dims" \in facts
    BY <1>5 DEF JudgementMeans
  <2>1. ~Raises(facts)
    BY <1>4, <1>5, VerdictMeans
  <2> QED
    BY <1>4, <1>5, <2>1, VerdictMeans
<1>8. Copies65' /\ Copies69'
  <2>1. Copies65'
    BY <1>1, OtherScriptKept65
  <2>2. Copies69'
    BY <1>1 DEF BuildInvariant, Copies69, V3CopyIs, MergedBetween, MergedAsSnapped, HasExpected
  <2> QED
    BY <2>1, <2>2
<1>9. NothingReportedYet' /\ ReportsLast'
  BY <1>1 DEF BuildInvariant, NothingReportedYet, ReportsLast
<1> QED
  BY <1>6, <1>7, <1>8, <1>9 DEF BuildInvariant

LEMMA BuildStep == BuildInvariant /\ [BuildNext]_buildVars => BuildInvariant'
<1> SUFFICES ASSUME BuildInvariant, [BuildNext]_buildVars PROVE BuildInvariant'
  OBVIOUS
<1>1. CASE UNCHANGED buildVars
  <2>1. UNCHANGED <<source, built, at65, at69, force65, force69, snap65, snap69, opened69, reports, starts, forced,
                    judged>>
    BY <1>1 DEF buildVars
  <2>2. BuildTypes' /\ Copies65' /\ NothingReportedYet' /\ ReportsLast' /\ JudgementMeans'
    BY <2>1, OtherScriptKept65 DEF BuildInvariant, BuildTypes, NothingReportedYet, ReportsLast, JudgementMeans
  <2>3. Copies69'
    BY <2>1 DEF BuildInvariant, Copies69, V3CopyIs, MergedBetween, MergedAsSnapped, HasExpected
  <2> QED
    BY <2>2, <2>3 DEF BuildInvariant
<1> QED
  BY <1>1, SourceRecorded, FirstStarts, FirstLooks, FirstReports, FirstClears, FirstFills, FirstMerges,
     SecondStarts, SecondLooks, SecondReports, SecondBuilds, DatasetJudged
     DEF BuildNext

LEMMA BuildIsSafe == BuildInvariant => DatasetsSafe /\ BuildTypeOK
<1> SUFFICES ASSUME BuildInvariant PROVE DatasetsSafe /\ BuildTypeOK
  OBVIOUS
<1>1. BuildTypeOK
  <2>1. source \in [Sources -> Versions] /\ at65 \in Phases65 /\ at69 \in Phases69
        /\ judged.exit \in {"none", "ok", "warned", "failed"}
    BY DEF BuildInvariant, BuildTypes
  <2>2. ASSUME NEW d \in Built
        PROVE  /\ built[d].task \in Tasks
               /\ \A i \in DOMAIN built[d].parts :
                    built[d].parts[i].of \in Sources /\ built[d].parts[i].version \in Versions
    <3>1. built[d] \in Contents
      BY DEF BuildInvariant, BuildTypes
    <3>2. built[d].task \in Tasks /\ built[d].parts \in Seq(DataParts)
      BY <3>1 DEF Contents
    <3>3. \A i \in DOMAIN built[d].parts : built[d].parts[i] \in DataParts
      BY <3>2
    <3> QED
      BY <3>2, <3>3 DEF DataParts
  <2> QED
    BY <2>1, <2>2 DEF BuildTypeOK, Tasks, Phases65, Phases69
<1>2. ASSUME at65 = "reported"
      PROVE  /\ Whole(reports["combined65"], <<"v2", "v3">>)
             /\ \A i \in 1 .. 2 :
                  reports["combined65"].parts[i].version = snap65[reports["combined65"].parts[i].of]
  <2> DEFINE d == reports["combined65"]
  <2>1. d \in Contents /\ BothAsSnapped(d) /\ HasExpected(d)
    BY <1>2 DEF BuildInvariant, BuildTypes, Copies65
  <2> HIDE DEF d
  <2>2. d.parts \in Seq(DataParts) /\ Len(d.parts) = 2 /\ d.task = "new"
    BY <2>1 DEF Contents, BothAsSnapped
  <2>3. DOMAIN d.parts = 1 .. 2 /\ d.parts[1].of = "v2" /\ d.parts[2].of = "v3"
    BY <2>1, <2>2 DEF BothAsSnapped
  <2>4. [i \in DOMAIN d.parts |-> d.parts[i].of] = <<"v2", "v3">>
    BY <2>3
  <2>5. \A i \in 1 .. 2 : d.parts[i].version = snap65[d.parts[i].of]
    <3>1. \A i \in 1 .. 2 : i = 1 \/ i = 2
      OBVIOUS
    <3> QED
      BY <2>1, <3>1 DEF BothAsSnapped
  <2> QED
    BY <2>1, <2>2, <2>4, <2>5 DEF Whole, d
<1>3. ASSUME at69 = "reported"
      PROVE  /\ Whole(reports["combined69"], <<"v3", "v4">>)
             /\ IsDataset(snap69.copy) => reports["combined69"].parts[1] = snap69.copy.parts[1]
             /\ reports["combined69"].parts[2].version = snap69.v4
  <2> DEFINE d == reports["combined69"]
  <2>1. d \in Contents /\ MergedAsSnapped(d) /\ snap69.copy \in Contents /\ V3CopyIs(snap69.copy)
    BY <1>3 DEF BuildInvariant, BuildTypes, Copies69
  <2> HIDE DEF d
  <2>2. d.parts \in Seq(DataParts) /\ Len(d.parts) = 2 /\ d.task = "new" /\ HasExpected(d)
    BY <2>1 DEF Contents, MergedAsSnapped
  <2>3. DOMAIN d.parts = 1 .. 2 /\ d.parts[1].of = "v3" /\ d.parts[2].of = "v4"
    BY <2>1, <2>2 DEF MergedAsSnapped
  <2>4. [i \in DOMAIN d.parts |-> d.parts[i].of] = <<"v3", "v4">>
    BY <2>3
  <2>5. IsDataset(snap69.copy) => d.parts[1] = snap69.copy.parts[1]
    <3> SUFFICES ASSUME IsDataset(snap69.copy) PROVE d.parts[1] = snap69.copy.parts[1]
      OBVIOUS
    <3>1. Len(snap69.copy.parts) > 0
      BY <2>1, VersionsOrdered
    <3>2. Len(snap69.copy.parts) # 0
      BY <3>1
    <3>3. Len(snap69.copy.parts) = 1 /\ snap69.copy.parts[1].of = "v3"
      BY <2>1, <3>2 DEF V3CopyIs
    <3>4. d.parts[1].version = snap69.copy.parts[1].version
      BY <2>1, <3>3 DEF MergedAsSnapped
    <3>5. snap69.copy.parts[1] \in DataParts
      BY <2>1, <3>3, FirstPart
    <3>6. d.parts[1] \in DataParts
      <4>1. 1 \in DOMAIN d.parts
        BY <2>3
      <4> QED
        BY <2>2, <4>1
    <3> QED
      BY <2>3, <3>3, <3>4, <3>5, <3>6 DEF DataParts
  <2>6. d.parts[2].version = snap69.v4
    BY <2>1 DEF MergedAsSnapped
  <2> QED
    BY <2>2, <2>4, <2>5, <2>6 DEF Whole, d
<1>4. ReportsAreTrue
  BY <1>2, <1>3 DEF ReportsAreTrue
<1> QED
  BY <1>1, <1>4 DEF BuildInvariant, DatasetsSafe

-----------------------------------------------------------------------------
(***************************************************************************)
(* The judgement of a rollout.                                             *)
(***************************************************************************)
EvalInvariant ==
  /\ kinematic \in Seq(KinematicStep) /\ Len(kinematic) >= 1
  /\ physics \in Seq(PhysicsStep) /\ Len(physics) >= 1

LEMMA OneStep ==
  /\ \A s \in KinematicStep : <<s>> \in Seq(KinematicStep) /\ Len(<<s>>) = 1
  /\ \A s \in PhysicsStep : <<s>> \in Seq(PhysicsStep) /\ Len(<<s>>) = 1
<1> DEFINE A == KinematicStep
           B == PhysicsStep
<1> HIDE DEF A, B
<1>1. \A s \in A : <<s>> \in Seq(A) /\ Len(<<s>>) = 1
  OBVIOUS
<1>2. \A s \in B : <<s>> \in Seq(B) /\ Len(<<s>>) = 1
  OBVIOUS
<1> QED
  BY <1>1, <1>2 DEF A, B

LEMMA EvalBegins == EvalInit => EvalInvariant
<1> SUFFICES ASSUME EvalInit PROVE EvalInvariant
  OBVIOUS
<1>1. \E s \in KinematicStep : kinematic = <<s>>
  <2>1. \A g \in {"open", "closed"} : [grip |-> g, cube |-> 1, bin |-> 1, high |-> FALSE] \in KinematicStep
    BY DEF KinematicStep, Grips
  <2>2. [grip |-> "open", cube |-> 2, bin |-> 2, high |-> FALSE] \in KinematicStep
    BY DEF KinematicStep, Grips
  <2>3. \/ \E g \in {"open", "closed"} : kinematic = <<[grip |-> g, cube |-> 1, bin |-> 1, high |-> FALSE]>>
        \/ kinematic = <<[grip |-> "open", cube |-> 2, bin |-> 2, high |-> FALSE]>>
    BY DEF EvalInit
  <2> QED
    BY <2>1, <2>2, <2>3
<1>2. \E s \in PhysicsStep : physics = <<s>>
  <2>1. \A c \in BOOLEAN : [contact |-> c, high |-> FALSE, bin |-> 2] \in PhysicsStep
    BY DEF PhysicsStep
  <2>2. \E c \in BOOLEAN : physics = <<[contact |-> c, high |-> FALSE, bin |-> 2]>>
    BY DEF EvalInit
  <2> QED
    BY <2>1, <2>2
<1>3. kinematic \in Seq(KinematicStep) /\ Len(kinematic) = 1
  BY <1>1, OneStep
<1>4. physics \in Seq(PhysicsStep) /\ Len(physics) = 1
  BY <1>2, OneStep
<1> QED
  BY <1>3, <1>4 DEF EvalInvariant

LEMMA EvalStep == EvalInvariant /\ [EvalNext]_evalVars => EvalInvariant'
<1> SUFFICES ASSUME EvalInvariant, [EvalNext]_evalVars PROVE EvalInvariant'
  OBVIOUS
<1>1. CASE ArmSteps
  <2>1. PICK s \in KinematicStep : kinematic' = Append(kinematic, s)
    BY <1>1 DEF ArmSteps
  <2>2. kinematic' \in Seq(KinematicStep) /\ Len(kinematic') = Len(kinematic) + 1
    BY <2>1 DEF EvalInvariant
  <2>3. Len(kinematic) \in Nat
    BY DEF EvalInvariant
  <2>4. Len(kinematic') >= 1
    BY <2>2, <2>3
  <2> QED
    BY <1>1, <2>2, <2>4 DEF ArmSteps, EvalInvariant
<1>2. CASE CubeSteps
  <2>1. PICK s \in PhysicsStep : physics' = Append(physics, s)
    BY <1>2 DEF CubeSteps
  <2>2. physics' \in Seq(PhysicsStep) /\ Len(physics') = Len(physics) + 1
    BY <2>1 DEF EvalInvariant
  <2>3. Len(physics) \in Nat
    BY DEF EvalInvariant
  <2>4. Len(physics') >= 1
    BY <2>2, <2>3
  <2> QED
    BY <1>2, <2>2, <2>4 DEF CubeSteps, EvalInvariant
<1>3. CASE UNCHANGED evalVars
  BY <1>3 DEF evalVars, EvalInvariant
<1> QED
  BY <1>1, <1>2, <1>3 DEF EvalNext

\* A step that is found is one of those looked for.
LEMMA FirstIsOne ==
  ASSUME NEW S \in SUBSET Nat
  PROVE  /\ FirstOf(S) > 0 => FirstOf(S) \in S
         /\ FirstOf(S) \in Nat
<1>1. CASE S = {}
  <2>1. FirstOf(S) = 0
    BY <1>1 DEF FirstOf
  <2> QED
    BY <2>1
<1>2. CASE S # {}
  <2>1. FirstOf(S) = Min(S) /\ Min(S) \in S
    BY <1>2, LeastOfNats DEF FirstOf
  <2> QED
    BY <2>1
<1> QED
  BY <1>1, <1>2

\* All stages are reached when none is missing.
LEMMA AllStages ==
  ASSUME NEW a, NEW b, NEW c, NEW d, NEW e, NEW f, NEW g, NEW h
  PROVE  KinematicSuccess([approach |-> a, grasp |-> b, close |-> c, lift |-> d, carry |-> e,
                           vicinity |-> f, release |-> g, inTime |-> h])
           <=> a /\ b /\ c /\ d /\ e /\ f /\ g /\ h
<1> DEFINE s == [approach |-> a, grasp |-> b, close |-> c, lift |-> d, carry |-> e,
                 vicinity |-> f, release |-> g, inTime |-> h]
<1>1. DOMAIN s = {"approach", "grasp", "close", "lift", "carry", "vicinity", "release", "inTime"}
  OBVIOUS
<1>2. /\ s["approach"] = a /\ s["grasp"] = b /\ s["close"] = c /\ s["lift"] = d /\ s["carry"] = e
      /\ s["vicinity"] = f /\ s["release"] = g /\ s["inTime"] = h
  OBVIOUS
<1> HIDE DEF s
<1>3. KinematicSuccess(s) <=>
        /\ s["approach"] /\ s["grasp"] /\ s["close"] /\ s["lift"] /\ s["carry"]
        /\ s["vicinity"] /\ s["release"] /\ s["inTime"]
  BY <1>1 DEF KinematicSuccess
<1>4. KinematicSuccess(s) <=> a /\ b /\ c /\ d /\ e /\ f /\ g /\ h
  BY <1>2, <1>3
<1> QED
  BY <1>4 DEF s

LEMMA SuccessTellsAStory == EvalInvariant => SuccessIsAStory
<1> DEFINE k == kinematic
           nearest == Min({k[i].cube : i \in 1 .. Len(k)})
           closed == CloseStep(k)
           lift == LiftStep(k, closed)
           release == ReleaseStep(k, closed)
<1> SUFFICES ASSUME EvalInvariant, KinematicSuccess(StagesOf(k))
             PROVE  \E wide, closing, lifted, released \in 1 .. Len(k) :
                      /\ wide < closing /\ closing < lifted /\ closing < released
                      /\ k[wide].grip = "open" /\ k[closing].grip = "closed"
                      /\ lifted <= closing + LiftWindow /\ k[lifted].high
                      /\ k[released].grip = "open" /\ k[released].bin <= 1
                      /\ k[Len(k)].bin < k[lifted].bin
  BY DEF SuccessIsAStory
<1>1. Len(k) \in Nat /\ Len(k) >= 1 /\ LiftWindow \in Nat
  BY EvalAssumption DEF EvalInvariant
<1>2. closed > 0 /\ lift > 0 /\ k[Len(k)].bin < k[lift].bin /\ release > 0 /\ k[release].bin <= 1
  <2> DEFINE a == nearest <= 1
             b == nearest = 0
             c == closed > 0
             d == lift > 0
             e == lift > 0 /\ k[Len(k)].bin < k[lift].bin
             f == \E i \in 1 .. Len(k) : k[i].bin = 0
             g == release > 0
             h == release > 0 /\ k[release].bin <= 1
  <2>1. StagesOf(k) = [approach |-> a, grasp |-> b, close |-> c, lift |-> d, carry |-> e,
                       vicinity |-> f, release |-> g, inTime |-> h]
    BY DEF StagesOf
  <2>2. KinematicSuccess(StagesOf(k))
    OBVIOUS
  <2> HIDE DEF k, nearest, closed, lift, release, a, b, c, d, e, f, g, h
  <2>3. KinematicSuccess([approach |-> a, grasp |-> b, close |-> c, lift |-> d, carry |-> e,
                          vicinity |-> f, release |-> g, inTime |-> h])
    BY <2>1, <2>2
  <2>4. c /\ d /\ e /\ g /\ h
    BY <2>3, AllStages
  <2> QED
    BY <2>4 DEF c, d, e, g, h
<1>3. closed \in 2 .. Len(k) /\ k[closed].grip = "closed" /\ OpenBefore(k, closed)
  <2> DEFINE S == {i \in 2 .. Len(k) : k[i].grip = "closed" /\ OpenBefore(k, i)}
  <2>1. S \in SUBSET Nat /\ closed = FirstOf(S)
    BY <1>1 DEF CloseStep
  <2> HIDE DEF S, closed
  <2>2. closed \in S
    BY <1>2, <2>1, FirstIsOne
  <2> QED
    BY <2>2 DEF S
<1> HIDE DEF closed
<1>4. lift \in closed .. Len(k) /\ lift <= closed + LiftWindow /\ k[lift].high /\ ~k[closed].high
  <2> DEFINE S == {i \in closed .. Len(k) :
                     closed > 0 /\ i <= closed + LiftWindow /\ k[i].high /\ ~k[closed].high}
  <2>1. S \in SUBSET Nat /\ lift = FirstOf(S)
    BY <1>1, <1>3 DEF LiftStep
  <2> HIDE DEF S, lift
  <2>2. lift \in S
    BY <1>2, <2>1, FirstIsOne
  <2> QED
    BY <2>2 DEF S
<1>5. release \in closed + 1 .. Len(k) /\ k[release].grip = "open"
  <2> DEFINE S == {i \in closed + 1 .. Len(k) :
                     closed > 0 /\ k[i].grip = "open" /\ (i = closed + 1 \/ k[i - 1].grip = "closed")}
  <2>1. S \in SUBSET Nat /\ release = FirstOf(S)
    BY <1>1, <1>3 DEF ReleaseStep
  <2> HIDE DEF S, release
  <2>2. release \in S
    BY <1>2, <2>1, FirstIsOne
  <2> QED
    BY <2>2 DEF S
<1>6. PICK wide \in 1 .. closed - 1 : k[wide].grip = "open"
  BY <1>3 DEF OpenBefore
<1> HIDE DEF lift, release
<1>7. lift # closed
  BY <1>4
<1>8. /\ wide \in 1 .. Len(k) /\ closed \in 1 .. Len(k) /\ lift \in 1 .. Len(k) /\ release \in 1 .. Len(k)
      /\ wide < closed /\ closed < lift /\ closed < release
  BY <1>1, <1>3, <1>4, <1>5, <1>6, <1>7
<1> HIDE DEF k
<1> QED
  BY <1>2, <1>3, <1>4, <1>5, <1>6, <1>8

LEMMA CubeTellsAStory == EvalInvariant => CubeIsAStory
<1> DEFINE p == physics
           held == SecuredStep(p)
           lifted == CubeLifted(p, held)
           lost == CubeReleased(p, held)
<1> SUFFICES ASSUME EvalInvariant, PhysicsSuccess(p)
             PROVE  /\ \E from \in 1 .. Len(p), high \in 1 .. Len(p) :
                         /\ from + Secured - 1 < high /\ p[high].contact /\ p[high].high
                         /\ \A i \in from .. from + Secured - 1 : p[i].contact
                    /\ \E i \in 1 .. Len(p) : ~p[i].contact
                    /\ p[Len(p)].bin = 0
  BY DEF CubeIsAStory
<1>1. Len(p) \in Nat /\ Len(p) >= 1 /\ Secured \in Nat /\ Secured >= 1
  BY EvalAssumption DEF EvalInvariant
<1>2. lifted > 0 /\ lost > 0 /\ p[Len(p)].bin = 0
  BY DEF PhysicsSuccess
<1>3. held \in Nat /\ (held > 0 => held \in Secured .. Len(p) /\ \A j \in held - Secured + 1 .. held : p[j].contact)
  <2> DEFINE S == {i \in Secured .. Len(p) : \A j \in i - Secured + 1 .. i : p[j].contact}
  <2>1. S \in SUBSET Nat /\ held = FirstOf(S)
    BY <1>1 DEF SecuredStep
  <2> HIDE DEF S, held
  <2>2. held \in Nat /\ (held > 0 => held \in S)
    BY <2>1, FirstIsOne
  <2> QED
    BY <2>2 DEF S
<1> HIDE DEF held
<1>4. held > 0 /\ lifted \in held .. Len(p) /\ p[lifted].contact /\ p[lifted].high /\ ~p[held].high
  <2> DEFINE S == {i \in held .. Len(p) : held > 0 /\ p[i].contact /\ p[i].high /\ ~p[held].high}
  <2>1. S \in SUBSET Nat /\ lifted = FirstOf(S)
    BY <1>1, <1>3 DEF CubeLifted
  <2> HIDE DEF S, lifted
  <2>2. lifted \in S
    BY <1>2, <2>1, FirstIsOne
  <2> QED
    BY <2>2 DEF S
<1>5. lost \in held + 1 .. Len(p) /\ ~p[lost].contact
  <2> DEFINE S == {i \in held + 1 .. Len(p) : held > 0 /\ ~p[i].contact}
  <2>1. S \in SUBSET Nat /\ lost = FirstOf(S)
    BY <1>1, <1>3 DEF CubeReleased
  <2> HIDE DEF S, lost
  <2>2. lost \in S
    BY <1>2, <2>1, FirstIsOne
  <2> QED
    BY <2>2 DEF S
<1> HIDE DEF lifted, lost
<1>6. lifted # held
  BY <1>4
<1> DEFINE from == held - Secured + 1
<1>7. /\ from \in 1 .. Len(p) /\ from + Secured - 1 = held /\ held < lifted /\ lifted \in 1 .. Len(p)
      /\ lost \in 1 .. Len(p)
  BY <1>1, <1>3, <1>4, <1>5, <1>6
<1>8. \A i \in from .. held : p[i].contact
  BY <1>3, <1>4
<1> HIDE DEF p, from
<1>9. from + Secured - 1 < lifted /\ \A i \in from .. from + Secured - 1 : p[i].contact
  BY <1>7, <1>8
<1> QED
  BY <1>2, <1>4, <1>5, <1>7, <1>9

\* The reason, from the stages.
Stages ==
  [approach : BOOLEAN, grasp : BOOLEAN, close : BOOLEAN, lift : BOOLEAN, carry : BOOLEAN,
   vicinity : BOOLEAN, release : BOOLEAN, inTime : BOOLEAN]

LEMMA ReasonIs ==
  ASSUME NEW s \in Stages, NEW success \in BOOLEAN, NEW contact \in BOOLEAN, NEW inBin \in BOOLEAN,
         NEW rejected \in BOOLEAN, NEW timeout \in BOOLEAN
  PROVE  LET reason == Classify(s, [success |-> success, contact |-> contact, inBin |-> inBin],
                                rejected, timeout)
         IN  /\ reason \notin {"timeout", "other"}
             /\ reason = "dropped_early" => KinematicSuccess(s) /\ ~success
             /\ reason = "failed_release" => s.close /\ s.lift /\ s.carry /\ s.vicinity
             /\ reason = "none" <=> ~rejected /\ KinematicSuccess(s) /\ success
<1> DEFINE phys == [success |-> success, contact |-> contact, inBin |-> inBin]
           all == KinematicSuccess(s)
           reason == Classify(s, phys, rejected, timeout)
           stage == IF ~s.approach THEN "failed_approach" ELSE IF ~s.grasp \/ ~s.close THEN "missed_grasp"
                    ELSE IF ~s.lift THEN "failed_lift" ELSE IF ~s.carry THEN "wrong_direction"
                    ELSE IF ~s.vicinity THEN "failed_bin_reach"
                    ELSE IF ~s.release \/ ~s.inTime THEN "failed_release"
                    ELSE IF timeout THEN "timeout" ELSE "other"
           fault == IF success THEN "none"
                    ELSE IF contact /\ ~inBin THEN "dropped_early" ELSE "missed_grasp"
<1>1. all <=> /\ s.approach /\ s.grasp /\ s.close /\ s.lift /\ s.carry
              /\ s.vicinity /\ s.release /\ s.inTime
  <2>1. DOMAIN s = {"approach", "grasp", "close", "lift", "carry", "vicinity", "release", "inTime"}
    BY DEF Stages
  <2>2. all <=> /\ s["approach"] /\ s["grasp"] /\ s["close"] /\ s["lift"] /\ s["carry"]
                /\ s["vicinity"] /\ s["release"] /\ s["inTime"]
    BY <2>1 DEF KinematicSuccess
  <2> QED
    BY <2>2
<1>2. phys.success = success /\ phys.contact = contact /\ phys.inBin = inBin
  OBVIOUS
<1>3. /\ rejected => reason = "safety_reject"
      /\ ~rejected /\ all => reason = fault
      /\ ~rejected /\ ~all => reason = stage
  <2> HIDE DEF phys
  <2>1. ASSUME rejected PROVE reason = "safety_reject"
    BY <2>1 DEF Classify
  <2>2. ASSUME ~rejected, all PROVE reason = fault
    BY <1>2, <2>2 DEF Classify
  <2>3. ASSUME ~rejected, ~all PROVE reason = stage
    BY <1>2, <2>3 DEF Classify
  <2> QED
    BY <2>1, <2>2, <2>3
<1>4. ~all => stage \in {"failed_approach", "missed_grasp", "failed_lift", "wrong_direction",
                         "failed_bin_reach", "failed_release"}
  BY <1>1
<1>5. stage = "failed_release" => s.close /\ s.lift /\ s.carry /\ s.vicinity
  OBVIOUS
<1>6. fault \in {"none", "dropped_early", "missed_grasp"} /\ (fault = "none" <=> success)
  OBVIOUS
<1> HIDE DEF phys, all, reason, stage, fault
<1>7. /\ reason \notin {"timeout", "other"}
      /\ reason = "dropped_early" => all /\ ~success
      /\ reason = "failed_release" => s.close /\ s.lift /\ s.carry /\ s.vicinity
      /\ reason = "none" <=> ~rejected /\ all /\ success
  BY <1>3, <1>4, <1>5, <1>6
<1> QED
  BY <1>7 DEF phys, all, reason

LEMMA StagesAreStages == StagesOf(kinematic) \in Stages
<1> DEFINE k == kinematic
           nearest == Min({k[i].cube : i \in 1 .. Len(k)})
           closed == CloseStep(k)
           lift == LiftStep(k, closed)
           release == ReleaseStep(k, closed)
           a == nearest <= 1
           b == nearest = 0
           c == closed > 0
           d == lift > 0
           e == lift > 0 /\ k[Len(k)].bin < k[lift].bin
           f == \E i \in 1 .. Len(k) : k[i].bin = 0
           g == release > 0
           h == release > 0 /\ k[release].bin <= 1
<1>1. StagesOf(k) = [approach |-> a, grasp |-> b, close |-> c, lift |-> d, carry |-> e,
                     vicinity |-> f, release |-> g, inTime |-> h]
  BY DEF StagesOf
<1>2. a \in BOOLEAN /\ b \in BOOLEAN /\ c \in BOOLEAN /\ d \in BOOLEAN /\ e \in BOOLEAN /\ f \in BOOLEAN
      /\ g \in BOOLEAN /\ h \in BOOLEAN
  OBVIOUS
<1> HIDE DEF a, b, c, d, e, f, g, h
<1> QED
  BY <1>1, <1>2 DEF Stages

LEMMA ReasonsName == EvalInvariant => ReasonNamesTheStage
<1> DEFINE s == StagesOf(kinematic)
<1>1. s \in Stages
  BY StagesAreStages
<1> HIDE DEF s
<1>2. ASSUME NEW success \in BOOLEAN, NEW contact \in BOOLEAN, NEW inBin \in BOOLEAN,
             NEW rejected \in BOOLEAN, NEW timeout \in BOOLEAN
      PROVE  LET reason == Classify(s, [success |-> success, contact |-> contact, inBin |-> inBin],
                                    rejected, timeout)
             IN  /\ reason \notin {"timeout", "other"}
                 /\ reason = "dropped_early" => KinematicSuccess(s) /\ ~success
                 /\ reason = "failed_release" => s.close /\ s.lift /\ s.carry /\ s.vicinity
                 /\ reason = "none" <=> ~rejected /\ KinematicSuccess(s) /\ success
  BY <1>1, ReasonIs
<1> QED
  BY <1>2 DEF ReasonNamesTheStage, s

LEMMA EvalIsSafe == EvalInvariant => JudgedRightly /\ EvalTypeOK
<1> SUFFICES ASSUME EvalInvariant PROVE JudgedRightly /\ EvalTypeOK
  OBVIOUS
<1>1. Len(kinematic) \in 1 .. Len(kinematic) /\ Len(physics) \in 1 .. Len(physics)
  <2>1. Len(kinematic) \in Nat /\ Len(physics) \in Nat
    BY DEF EvalInvariant
  <2> QED
    BY <2>1 DEF EvalInvariant
<1>2. EvalTypeOK
  BY <1>1 DEF EvalInvariant, EvalTypeOK
<1> QED
  BY <1>2, SuccessTellsAStory, CubeTellsAStory, ReasonsName DEF JudgedRightly

-----------------------------------------------------------------------------
(***************************************************************************)
(* The replay of a recorded episode.                                       *)
(***************************************************************************)
EventKinds ==
  {"prescan", "limit", "delta", "tolerated", "nan", "velocity", "diverged", "contact", "spike"}

ReplayTypes ==
  /\ wanted \in [start : {0, 1, EpisodeLength + 1}, max : {0, 1, Everything}, dry : BOOLEAN,
                 goOn : BOOLEAN, stopLimit : BOOLEAN, stopNan : BOOLEAN, stopContact : BOOLEAN]
  /\ replayAt \in {"load", "static", "frames", "done"} /\ over \in BOOLEAN /\ jumped \in BOOLEAN
  /\ toPlay \in Int /\ toPlay <= EpisodeLength /\ frame \in Nat /\ frame <= EpisodeLength
  /\ warnings \in Nat /\ warnings <= frame
  /\ previous \in Targets /\ ctrl \in Targets /\ kinds \in SUBSET EventKinds
  /\ replayed \in [result : {"none", "PASS", "WARN", "BLOCKED"}, exit : {0, 1, 2}]

\* What was recorded of what happened.
EventsSay ==
  /\ over <=> "prescan" \in kinds
  /\ kinds \intersect {"tolerated", "limit"} # {} => over
  /\ "spike" \in kinds => "contact" \in kinds
  /\ jumped => "delta" \in kinds

\* While frames are played nothing stopped the replay.
GoesOn ==
  replayAt = "frames" =>
    /\ ~wanted.dry
    /\ kinds \intersect {"nan", "diverged"} # {} => ~wanted.stopNan
    /\ ~wanted.goOn => warnings = 0 /\ kinds \subseteq {"prescan", "tolerated"}

ResultSays ==
  /\ replayed.result # "none" <=> replayAt = "done"
  /\ replayAt \in {"load", "static"} => kinds = {} /\ frame = 0 /\ warnings = 0 /\ ~jumped
  /\ replayed.exit = 0 <=> replayed.result # "BLOCKED"

ReplayInvariant ==
  ReplayTypes /\ EventsSay /\ GoesOn /\ ResultSays /\ ActuatorsAreGuarded /\ ReplayPassMeans

LEMMA ReplayBegins == ReplayInit => ReplayInvariant
<1> SUFFICES ASSUME ReplayInit PROVE ReplayInvariant
  OBVIOUS
<1>1. EpisodeLength \in Nat
  BY ReplayAssumption
<1>2. replayed \in [result : {"none", "PASS", "WARN", "BLOCKED"}, exit : {0, 1, 2}]
      /\ replayed.result = "none" /\ replayed.exit = 0
  BY DEF ReplayInit
<1>3. ReplayTypes
  <2>1. frame \in Nat /\ frame <= EpisodeLength /\ warnings \in Nat /\ warnings <= frame
        /\ toPlay \in Int /\ toPlay <= EpisodeLength
    BY <1>1 DEF ReplayInit
  <2>2. kinds \in SUBSET EventKinds /\ previous \in Targets /\ ctrl \in Targets
        /\ replayAt \in {"load", "static", "frames", "done"} /\ over \in BOOLEAN /\ jumped \in BOOLEAN
    BY DEF ReplayInit
  <2>3. wanted \in [start : {0, 1, EpisodeLength + 1}, max : {0, 1, Everything}, dry : BOOLEAN,
                    goOn : BOOLEAN, stopLimit : BOOLEAN, stopNan : BOOLEAN, stopContact : BOOLEAN]
    BY DEF ReplayInit
  <2> QED
    BY <1>2, <2>1, <2>2, <2>3 DEF ReplayTypes
<1>4. EventsSay /\ GoesOn /\ ResultSays
  BY <1>2 DEF ReplayInit, EventsSay, GoesOn, ResultSays
<1>5. ActuatorsAreGuarded /\ ReplayPassMeans
  BY <1>2 DEF ReplayInit, ActuatorsAreGuarded, ReplayPassMeans
<1> QED
  BY <1>3, <1>4, <1>5 DEF ReplayInvariant

LEMMA ReplayLoads ==
  ASSUME ReplayInvariant, Load
  PROVE  ReplayInvariant'
<1>1. /\ replayAt = "load" /\ UNCHANGED <<wanted, over, frame, previous, ctrl, kinds, warnings, jumped>>
      /\ \/ /\ replayAt' = "done" /\ toPlay' = toPlay
            /\ \E exit \in {1, 2} : replayed' = [result |-> "BLOCKED", exit |-> exit]
         \/ /\ replayAt' = "static" /\ replayed' = replayed
            /\ toPlay' = (IF wanted.max = Everything \/ wanted.start + wanted.max > EpisodeLength
                          THEN EpisodeLength ELSE wanted.start + wanted.max) - wanted.start
  BY DEF Load, Ends
<1>2. toPlay' \in Int /\ toPlay' <= EpisodeLength
  <2>1. wanted.start \in Nat /\ wanted.max \in Nat /\ EpisodeLength \in Nat /\ toPlay \in Int /\ toPlay <= EpisodeLength
    BY ReplayAssumption DEF ReplayInvariant, ReplayTypes, Everything
  <2> QED
    BY <1>1, <2>1
<1>3. /\ replayed' \in [result : {"none", "PASS", "WARN", "BLOCKED"}, exit : {0, 1, 2}]
      /\ replayAt' = "done" => replayed'.result = "BLOCKED" /\ replayed'.exit # 0
      /\ replayAt' = "static" => replayed' = replayed
      /\ replayAt' \in {"done", "static"}
  BY <1>1 DEF ReplayInvariant, ReplayTypes
<1>4. ReplayTypes'
  BY <1>1, <1>2, <1>3 DEF ReplayInvariant, ReplayTypes
<1>5. EventsSay' /\ GoesOn'
  BY <1>1 DEF ReplayInvariant, EventsSay, GoesOn
<1>6. ResultSays'
  BY <1>1, <1>3 DEF ReplayInvariant, ResultSays
<1>7. ActuatorsAreGuarded'
  BY <1>1, <1>3 DEF ReplayInvariant, ActuatorsAreGuarded, ResultSays, BeyondLimit
<1>8. ReplayPassMeans'
  BY <1>1, <1>3 DEF ReplayInvariant, ReplayPassMeans, ResultSays
<1> QED
  BY <1>4, <1>5, <1>6, <1>7, <1>8 DEF ReplayInvariant

\* What the report of a replay says.
LEMMA ResultIs ==
  ASSUME NEW blocked \in BOOLEAN, NEW warned \in BOOLEAN, NEW found
  PROVE  LET r == FinalResult(blocked, warned, found) IN
         /\ r \in {"PASS", "WARN", "BLOCKED"} /\ (r = "BLOCKED" <=> blocked)
         /\ ExitOf(r) \in {0, 1, 2} /\ (ExitOf(r) = 0 <=> r # "BLOCKED")
         /\ r = "PASS" => ~warned /\ found \intersect {"prescan", "delta", "velocity", "contact"} = {}
         /\ r = "WARN" => warned \/ found # {}
BY DEF FinalResult, ExitOf

LEMMA ReplayChecked ==
  ASSUME ReplayInvariant, StaticChecks
  PROVE  ReplayInvariant'
<1>1. PICK sound \in BOOLEAN, out \in BOOLEAN :
        /\ replayAt = "static" /\ over' = (sound /\ out)
        /\ kinds' = IF sound /\ out THEN {"prescan"} ELSE {}
        /\ \/ Reports(TRUE, FALSE, kinds')
           \/ wanted.dry /\ Reports(FALSE, FALSE, kinds')
           \/ ~wanted.dry /\ replayAt' = "frames" /\ UNCHANGED replayed
        /\ UNCHANGED <<wanted, toPlay, frame, previous, ctrl, warnings, jumped>>
  BY DEF StaticChecks
<1>2. /\ kinds = {} /\ frame = 0 /\ warnings = 0 /\ ~jumped /\ replayed.result = "none" /\ replayed.exit = 0
      /\ kinds' \in SUBSET {"prescan"} /\ over' \in BOOLEAN /\ (over' <=> "prescan" \in kinds')
  BY <1>1 DEF ReplayInvariant, ResultSays, ReplayTypes
<1>3. \/ /\ replayAt' = "frames" /\ ~wanted.dry /\ replayed' = replayed
      \/ /\ replayAt' = "done"
         /\ \E r \in {"PASS", "WARN", "BLOCKED"} :
              /\ replayed' = [result |-> r, exit |-> ExitOf(r)]
              /\ ExitOf(r) \in {0, 1, 2} /\ (ExitOf(r) = 0 <=> r # "BLOCKED")
              /\ r = "PASS" => wanted.dry /\ "prescan" \notin kinds'
              /\ r = "WARN" => kinds' # {}
  <2>1. CASE Reports(TRUE, FALSE, kinds')
    <3>1. FinalResult(TRUE, FALSE, kinds') = "BLOCKED" /\ ExitOf("BLOCKED") = 1
      BY DEF FinalResult, ExitOf
    <3>2. replayAt' = "done" /\ replayed' = [result |-> "BLOCKED", exit |-> ExitOf("BLOCKED")]
      BY <2>1, <3>1 DEF Reports, Ends
    <3>3. "BLOCKED" \in {"PASS", "WARN", "BLOCKED"} /\ "BLOCKED" # "PASS" /\ "BLOCKED" # "WARN"
      OBVIOUS
    <3> QED
      BY <3>1, <3>2, <3>3
  <2>2. CASE wanted.dry /\ Reports(FALSE, FALSE, kinds')
    <3> DEFINE r == FinalResult(FALSE, FALSE, kinds')
    <3>1. replayAt' = "done" /\ replayed' = [result |-> r, exit |-> ExitOf(r)]
      BY <2>2 DEF Reports, Ends
    <3>2. /\ r \in {"PASS", "WARN"} /\ (r = "PASS" => "prescan" \notin kinds') /\ (r = "WARN" => kinds' # {})
          /\ ExitOf(r) = 0
      BY DEF FinalResult, ExitOf
    <3> HIDE DEF r
    <3> QED
      BY <2>2, <3>1, <3>2
  <2> QED
    BY <1>1, <2>1, <2>2
<1>4. /\ replayAt' \in {"frames", "done"}
      /\ replayed' \in [result : {"none", "PASS", "WARN", "BLOCKED"}, exit : {0, 1, 2}]
      /\ replayed'.result # "none" <=> replayAt' = "done"
      /\ replayed'.exit = 0 <=> replayed'.result # "BLOCKED"
      /\ replayAt' = "frames" => ~wanted.dry
      /\ replayed'.result = "PASS" => wanted.dry /\ "prescan" \notin kinds'
      /\ replayed'.result = "WARN" => kinds' # {}
  <2>1. CASE replayAt' = "frames"
    BY <1>2, <1>3, <2>1 DEF ReplayInvariant, ReplayTypes
  <2>2. CASE replayAt' = "done"
    <3>1. PICK r \in {"PASS", "WARN", "BLOCKED"} :
            /\ replayed' = [result |-> r, exit |-> ExitOf(r)]
            /\ ExitOf(r) \in {0, 1, 2} /\ (ExitOf(r) = 0 <=> r # "BLOCKED")
            /\ r = "PASS" => wanted.dry /\ "prescan" \notin kinds'
            /\ r = "WARN" => kinds' # {}
      BY <1>3, <2>2
    <3> QED
      BY <2>2, <3>1
  <2> QED
    BY <1>3, <2>1, <2>2
<1>5. ReplayTypes'
  BY <1>1, <1>2, <1>4 DEF ReplayInvariant, ReplayTypes, EventKinds
<1>6. EventsSay' /\ GoesOn' /\ ResultSays'
  BY <1>1, <1>2, <1>4 DEF EventsSay, GoesOn, ResultSays
<1>7. ActuatorsAreGuarded'
  <2>1. previous = ctrl
    BY <1>2 DEF ReplayInvariant, ActuatorsAreGuarded
  <2>2. frame' = 0 /\ warnings' = 0
    BY <1>1, <1>2
  <2>3. ~(0 > 0) /\ 0 <= 1
    OBVIOUS
  <2> QED
    BY <1>1, <2>1, <2>2, <2>3 DEF ActuatorsAreGuarded
<1>8. ReplayPassMeans'
  <2>1. replayed'.result = "PASS" => kinds' = {}
    BY <1>2, <1>4
  <2>2. replayed'.exit = 0 /\ replayAt' = "done" => replayed'.result \in {"PASS", "WARN"}
    BY <1>4
  <2> QED
    BY <1>1, <1>2, <1>4, <2>1, <2>2 DEF ReplayPassMeans
<1> QED
  BY <1>5, <1>6, <1>7, <1>8 DEF ReplayInvariant

LEMMA ViewerEnds ==
  ASSUME ReplayInvariant, ViewerFails \/ UNCHANGED replayVars
  PROVE  ReplayInvariant'
<1>1. CASE ViewerFails
  <2>1. /\ replayAt = "frames" /\ replayAt' = "done" /\ replayed' = [result |-> "BLOCKED", exit |-> 1]
        /\ UNCHANGED <<wanted, toPlay, over, frame, previous, ctrl, kinds, warnings, jumped>>
    BY <1>1 DEF ViewerFails, Ends
  <2>2. /\ replayed' \in [result : {"none", "PASS", "WARN", "BLOCKED"}, exit : {0, 1, 2}]
        /\ replayed'.result = "BLOCKED" /\ replayed'.exit = 1
    BY <2>1
  <2>3. ReplayTypes' /\ EventsSay' /\ GoesOn' /\ ResultSays'
    BY <2>1, <2>2 DEF ReplayInvariant, ReplayTypes, EventsSay, GoesOn, ResultSays
  <2>4. ActuatorsAreGuarded' /\ ReplayPassMeans'
    BY <2>1, <2>2 DEF ReplayInvariant, ActuatorsAreGuarded, BeyondLimit, ReplayPassMeans
  <2> QED
    BY <2>3, <2>4 DEF ReplayInvariant
<1>2. CASE UNCHANGED replayVars
  BY <1>2 DEF replayVars, ReplayInvariant, ReplayTypes, EventsSay, GoesOn, ResultSays, ActuatorsAreGuarded,
     BeyondLimit, ReplayPassMeans
<1> QED
  BY <1>1, <1>2

\* What is recorded of a target that comes up.
LEMMA TargetSays ==
  ASSUME ReplayInvariant, NEW t \in Targets, NextTarget(t)
  PROVE  /\ TargetEvents(t) \in SUBSET {"limit", "delta"} /\ Noted(t) \in SUBSET {"tolerated"}
         /\ "limit" \in TargetEvents(t) <=> BeyondLimit(t)
         /\ "delta" \in TargetEvents(t) <=> Jump(t, previous) > FrameDelta
         /\ ~over => Noted(t) = {} /\ "limit" \notin TargetEvents(t)
<1>1. TargetEvents(t) \in SUBSET {"limit", "delta"} /\ Noted(t) \in SUBSET {"tolerated"}
  BY DEF TargetEvents, Noted
<1>2. "limit" \in TargetEvents(t) <=> BeyondLimit(t)
  BY DEF TargetEvents
<1>3. "delta" \in TargetEvents(t) <=> Jump(t, previous) > FrameDelta
  BY DEF TargetEvents
<1>4. BeyondLimit(t) => BeyondRange(t)
  <2>1. t \in Int /\ RangeLo \in Int /\ RangeHi \in Int /\ Tolerance \in Nat
    BY ReplayAssumption
  <2> QED
    BY <2>1 DEF BeyondLimit, BeyondRange
<1>5. ~over => ~BeyondRange(t)
  BY DEF NextTarget
<1> QED
  BY <1>1, <1>2, <1>3, <1>4, <1>5 DEF Noted

LEMMA TargetRejected ==
  ASSUME ReplayInvariant, RejectTarget
  PROVE  ReplayInvariant'
<1>1. PICK t \in Targets : /\ replayAt = "frames" /\ NextTarget(t) /\ previous' = t
                          /\ kinds' = kinds \union TargetEvents(t) \union Noted(t)
                          /\ Reports(TRUE, FALSE, kinds')
                          /\ UNCHANGED <<wanted, toPlay, over, frame, ctrl, warnings, jumped>>
  BY DEF RejectTarget
<1>2. /\ replayAt' = "done" /\ replayed' = [result |-> "BLOCKED", exit |-> 1]
  <2>1. FinalResult(TRUE, FALSE, kinds') = "BLOCKED" /\ ExitOf("BLOCKED") = 1
    BY DEF FinalResult, ExitOf
  <2> QED
    BY <1>1, <2>1 DEF Reports, Ends
<1>3. /\ replayed' \in [result : {"none", "PASS", "WARN", "BLOCKED"}, exit : {0, 1, 2}]
      /\ replayed'.result = "BLOCKED" /\ replayed'.exit = 1
  BY <1>2
<1>4. /\ TargetEvents(t) \in SUBSET {"limit", "delta"} /\ Noted(t) \in SUBSET {"tolerated"}
      /\ ~over => Noted(t) = {} /\ "limit" \notin TargetEvents(t)
  BY <1>1, TargetSays
<1>5. /\ kinds' \in SUBSET EventKinds /\ ("prescan" \in kinds' <=> "prescan" \in kinds)
      /\ ("spike" \in kinds' <=> "spike" \in kinds) /\ kinds \subseteq kinds'
      /\ ~over => ("limit" \in kinds' <=> "limit" \in kinds) /\ ("tolerated" \in kinds' <=> "tolerated" \in kinds)
  BY <1>1, <1>4 DEF ReplayInvariant, ReplayTypes, EventKinds
<1>6. ReplayTypes'
  BY <1>1, <1>2, <1>3, <1>5 DEF ReplayInvariant, ReplayTypes
<1>7. EventsSay'
  BY <1>1, <1>5 DEF ReplayInvariant, EventsSay
<1>8. GoesOn' /\ ResultSays'
  BY <1>2, <1>3 DEF GoesOn, ResultSays
<1>9. ActuatorsAreGuarded' /\ ReplayPassMeans'
  BY <1>1, <1>3 DEF ReplayInvariant, ActuatorsAreGuarded, BeyondLimit, ReplayPassMeans
<1> QED
  BY <1>6, <1>7, <1>8, <1>9 DEF ReplayInvariant

LEMMA FramePlayed ==
  ASSUME ReplayInvariant, PlayFrame
  PROVE  ReplayInvariant'
<1> DEFINE Found(t, after) == TargetEvents(t) \union after
<1>1. PICK t \in Targets, after \in SimulationEvents :
        /\ replayAt = "frames" /\ frame < toPlay /\ NextTarget(t) /\ ~Blocking(TargetEvents(t))
        /\ previous' = t /\ ctrl' = t /\ frame' = frame + 1
        /\ kinds' = kinds \union Found(t, after) \union Noted(t)
        /\ jumped' = (jumped \/ Jump(t, ctrl) > FrameDelta)
        /\ warnings' = IF Found(t, after) = {} THEN warnings ELSE warnings + 1
        /\ IF Blocking(after) THEN Reports(TRUE, FALSE, kinds')
           ELSE IF Found(t, after) # {} /\ ~wanted.goOn THEN Reports(FALSE, TRUE, kinds')
           ELSE IF frame' = toPlay THEN Reports(FALSE, FALSE, kinds')
           ELSE UNCHANGED <<replayAt, replayed>>
        /\ UNCHANGED <<wanted, toPlay, over>>
  BY DEF PlayFrame
<1> DEFINE found == Found(t, after)
<1>2. /\ TargetEvents(t) \in SUBSET {"limit", "delta"} /\ Noted(t) \in SUBSET {"tolerated"}
      /\ "limit" \in TargetEvents(t) <=> BeyondLimit(t)
      /\ "delta" \in TargetEvents(t) <=> Jump(t, previous) > FrameDelta
      /\ ~over => Noted(t) = {} /\ "limit" \notin TargetEvents(t)
  BY <1>1, TargetSays
<1>3. after \in SUBSET {"nan", "velocity", "diverged", "contact", "spike"} /\ ("spike" \in after => "contact" \in after)
  BY DEF SimulationEvents
<1>4. /\ found \in SUBSET EventKinds /\ kinds' = (kinds \union found) \union Noted(t)
      /\ found \subseteq {"limit", "delta", "nan", "velocity", "diverged", "contact", "spike"}
      /\ "delta" \in TargetEvents(t) => "delta" \in found
      /\ ("nan" \in found <=> "nan" \in after) /\ ("diverged" \in found <=> "diverged" \in after)
      /\ ("limit" \in found <=> "limit" \in TargetEvents(t))
      /\ ("spike" \in found => "contact" \in found)
  BY <1>1, <1>2, <1>3 DEF EventKinds
<1>5. previous = ctrl /\ replayed.result = "none" /\ replayed.exit = 0
  BY <1>1 DEF ReplayInvariant, ResultSays, ActuatorsAreGuarded
<1>6. /\ \/ replayAt' = "frames" /\ replayed' = replayed
         \/ replayAt' = "done" /\ replayed'.result = "BLOCKED" /\ replayed'.exit = 1
         \/ replayAt' = "done" /\ replayed'.result = "WARN" /\ replayed'.exit = 0 /\ kinds' # {}
         \/ /\ replayAt' = "done" /\ replayed'.result = "PASS" /\ replayed'.exit = 0 /\ frame' = toPlay
            /\ kinds' \intersect {"prescan", "delta", "velocity", "contact"} = {}
      /\ replayed' \in [result : {"none", "PASS", "WARN", "BLOCKED"}, exit : {0, 1, 2}]
      /\ replayed'.result \in {"none", "PASS", "WARN"} =>
           ~Blocking(after) /\ (replayed'.result # "WARN" => found = {} \/ wanted.goOn)
  <2> HIDE DEF Found
  <2>0. replayed \in [result : {"none", "PASS", "WARN", "BLOCKED"}, exit : {0, 1, 2}]
    BY DEF ReplayInvariant, ReplayTypes
  <2>1. CASE Blocking(after)
    <3> DEFINE r == FinalResult(TRUE, FALSE, kinds')
    <3>1. r = "BLOCKED" /\ ExitOf(r) = 1
      BY DEF FinalResult, ExitOf
    <3>2. replayAt' = "done" /\ replayed' = [result |-> r, exit |-> ExitOf(r)]
      BY <1>1, <2>1 DEF Reports, Ends
    <3> QED
      BY <3>1, <3>2
  <2>2. CASE ~Blocking(after) /\ found # {} /\ ~wanted.goOn
    <3> DEFINE r == FinalResult(FALSE, TRUE, kinds')
    <3>1. r = "WARN" /\ ExitOf(r) = 0
      BY DEF FinalResult, ExitOf
    <3>2. replayAt' = "done" /\ replayed' = [result |-> r, exit |-> ExitOf(r)]
      BY <1>1, <2>2 DEF Reports, Ends
    <3>3. kinds' # {}
      BY <1>1, <2>2
    <3> QED
      BY <2>2, <3>1, <3>2, <3>3
  <2>3. CASE ~Blocking(after) /\ ~(found # {} /\ ~wanted.goOn) /\ frame' = toPlay
    <3> DEFINE r == FinalResult(FALSE, FALSE, kinds')
    <3>1. /\ r \in {"PASS", "WARN"} /\ ExitOf(r) = 0 /\ (r = "WARN" => kinds' # {})
          /\ r = "PASS" => kinds' \intersect {"prescan", "delta", "velocity", "contact"} = {}
      BY DEF FinalResult, ExitOf
    <3>2. replayAt' = "done" /\ replayed' = [result |-> r, exit |-> ExitOf(r)]
      BY <1>1, <2>3 DEF Reports, Ends
    <3> HIDE DEF r
    <3>3. replayed'.result = r /\ replayed'.exit = 0
      BY <3>1, <3>2
    <3>4. replayed' \in [result : {"none", "PASS", "WARN", "BLOCKED"}, exit : {0, 1, 2}]
      BY <3>1, <3>2
    <3> QED
      BY <2>3, <3>1, <3>2, <3>3, <3>4
  <2>4. CASE ~Blocking(after) /\ ~(found # {} /\ ~wanted.goOn) /\ frame' # toPlay
    <3>1. UNCHANGED <<replayAt, replayed>>
      BY <1>1, <2>4
    <3> QED
      BY <1>1, <1>5, <2>0, <2>4, <3>1
  <2> QED
    BY <2>1, <2>2, <2>3, <2>4
<1> HIDE DEF Found, found
<1>7. /\ kinds' \in SUBSET EventKinds
      /\ "prescan" \in kinds' <=> "prescan" \in kinds
      /\ "tolerated" \in kinds' => "tolerated" \in kinds \/ over
      /\ "limit" \in kinds' => "limit" \in kinds \/ over
      /\ "spike" \in kinds' => "spike" \in kinds \/ "contact" \in found
      /\ kinds \subseteq kinds' /\ found \subseteq kinds'
      /\ found = {} => kinds' \subseteq kinds \union {"tolerated"}
  BY <1>2, <1>4 DEF ReplayInvariant, ReplayTypes, EventKinds
<1>8. ReplayTypes'
  <2>1. /\ frame \in Nat /\ toPlay \in Int /\ toPlay <= EpisodeLength /\ warnings \in Nat /\ warnings <= frame
        /\ EpisodeLength \in Nat
    BY ReplayAssumption DEF ReplayInvariant, ReplayTypes
  <2>2. /\ frame' \in Nat /\ frame' <= EpisodeLength /\ warnings' \in Nat /\ warnings' <= frame'
    BY <1>1, <2>1
  <2>3. jumped' \in BOOLEAN
    BY <1>1
  <2> QED
    BY <1>1, <1>6, <1>7, <2>2, <2>3 DEF ReplayInvariant, ReplayTypes
<1>9. EventsSay'
  <2>1. jumped' => "delta" \in kinds'
    BY <1>1, <1>2, <1>4, <1>5, <1>7 DEF ReplayInvariant, EventsSay
  <2> QED
    BY <1>1, <1>7, <2>1 DEF ReplayInvariant, EventsSay
<1>10. ResultSays'
  BY <1>1, <1>5, <1>6 DEF ResultSays
<1>11. replayed'.result \in {"none", "PASS"} =>
         /\ kinds' \intersect {"nan", "diverged"} # {} => ~wanted.stopNan
         /\ ~wanted.goOn => warnings' = 0 /\ kinds' \subseteq {"prescan", "tolerated"}
  <2> SUFFICES ASSUME replayed'.result \in {"none", "PASS"}
               PROVE  /\ kinds' \intersect {"nan", "diverged"} # {} => ~wanted.stopNan
                      /\ ~wanted.goOn => warnings' = 0 /\ kinds' \subseteq {"prescan", "tolerated"}
    OBVIOUS
  <2>1. ~Blocking(after) /\ (found = {} \/ wanted.goOn)
    BY <1>6
  <2>2. /\ kinds \intersect {"nan", "diverged"} # {} => ~wanted.stopNan
        /\ ~wanted.goOn => warnings = 0 /\ kinds \subseteq {"prescan", "tolerated"}
    BY <1>1 DEF ReplayInvariant, GoesOn
  <2>3. "nan" \in after \/ "diverged" \in after => ~wanted.stopNan
    BY <2>1 DEF Blocking
  <2>4. kinds' \intersect {"nan", "diverged"} # {} => ~wanted.stopNan
    BY <1>2, <1>4, <2>2, <2>3
  <2>5. ~wanted.goOn => warnings' = 0 /\ kinds' \subseteq {"prescan", "tolerated"}
    BY <1>1, <1>7, <2>1, <2>2 DEF found
  <2> QED
    BY <2>4, <2>5
<1>12. GoesOn'
  BY <1>1, <1>5, <1>6, <1>11 DEF ReplayInvariant, GoesOn
<1>13. ActuatorsAreGuarded'
  <2>1. wanted.stopLimit => ~BeyondLimit(t)
    BY <1>1, <1>2 DEF Blocking
  <2>2. ~wanted.goOn => warnings' <= 1
    <3>1. ~wanted.goOn => warnings = 0
      BY <1>1 DEF ReplayInvariant, GoesOn
    <3>2. ~wanted.goOn => warnings' \in {0, 1}
      BY <1>1, <3>1
    <3> QED
      BY <3>2
  <2> QED
    BY <1>1, <2>1, <2>2 DEF ActuatorsAreGuarded, BeyondLimit
<1>14. ReplayPassMeans'
  <2>1. replayed'.result = "PASS" =>
          /\ frame' = toPlay /\ kinds' \intersect {"prescan", "delta", "velocity", "contact"} = {}
    BY <1>6, <1>5
  <2>2. replayed'.result = "PASS" => kinds' \subseteq {"nan", "diverged"}
    BY <1>7, <1>9, <2>1 DEF EventsSay, EventKinds
  <2>3. replayed'.result = "PASS" => ~jumped'
    BY <1>9, <2>1 DEF EventsSay
  <2>4. replayed'.result = "PASS" /\ kinds' # {} => ~wanted.stopNan /\ wanted.goOn
    BY <1>11, <2>2
  <2>5. /\ replayed'.exit = 0 /\ replayAt' = "done" => replayed'.result \in {"PASS", "WARN"}
        /\ replayed'.result = "WARN" => kinds' # {}
    BY <1>5, <1>6
  <2> QED
    BY <1>1, <2>1, <2>2, <2>3, <2>4, <2>5 DEF ReplayPassMeans
<1> QED
  BY <1>8, <1>9, <1>10, <1>12, <1>13, <1>14 DEF ReplayInvariant

LEMMA ReplayStep == ReplayInvariant /\ [ReplayNext]_replayVars => ReplayInvariant'
BY ReplayLoads, ReplayChecked, TargetRejected, FramePlayed, ViewerEnds DEF ReplayNext

LEMMA ReplayIsSafe == ReplayInvariant => ReplaySafe /\ ReplayTypeOK
<1> SUFFICES ASSUME ReplayInvariant PROVE ReplaySafe /\ ReplayTypeOK
  OBVIOUS
<1>1. ReplayTypeOK
  <2>1. EpisodeLength \in Nat /\ \A e \in {0, 1, 2} : e \in 0 .. 2
    BY ReplayAssumption
  <2> QED
    BY <2>1 DEF ReplayInvariant, ReplayTypes, ReplayTypeOK
<1> QED
  BY <1>1 DEF ReplayInvariant, ReplaySafe

-----------------------------------------------------------------------------
(***************************************************************************)
(* A step in shadow.                                                       *)
(***************************************************************************)
Opening == {"camera", "reader", "client", "preflight", "observe"}
InSight == sight.workspace /\ sight.wrist /\ sight.state

ShadowStages ==
  /\ shadowAt \in Opening \cup {"health", "gate", "mujoco", "validate", "closing", "over"}
  /\ opened \subseteq {"camera", "reader", "client"}
  /\ sight \in [workspace : BOOLEAN, wrist : BOOLEAN, state : BOOLEAN, stale : BOOLEAN]
  /\ simulated \in [finite : BOOLEAN, inRange : BOOLEAN, calm : BOOLEAN]
  /\ told \in {"nothing", "executed", "not executed"}
  /\ verdict \in {"none", "SHADOW_FAIL", "SHADOW_PASS", "SHADOW_PASS_WITH_CLAMP"}
  /\ exitCode \in {"none", "passed", "failed", "preflight", "raised"}

\* What is settled while the run goes on.
StagesBehind ==
  /\ shadowAt \in Opening \cup {"health", "gate"} => decision = Undecided /\ told = "nothing"
  /\ shadowAt \notin {"closing", "over"} => verdict = "none" /\ exitCode = "none"
  /\ shadowAt \in {"health", "gate", "mujoco", "validate"} => InSight /\ here \in [ShadowJoints -> States]
  /\ shadowAt = "gate" => raw \in [ShadowJoints -> Answers]
  /\ shadowAt \in {"mujoco", "validate"} => decision.kind \in {"ACCEPT", "WOULD_CLAMP"}
  /\ shadowAt = "validate" => commanded # <<>>

\* A decision is the gate's on what was observed and asked for, which stays.
DecisionStands ==
  \/ decision = Undecided /\ told = "nothing"
  \/ /\ here \in [ShadowJoints -> States] /\ raw \in [ShadowJoints -> Answers]
     /\ decision = Decided(Adapted(raw), here, sight.stale)
     /\ told = "executed" => decision.kind # "REJECT"
     /\ told = "not executed" => decision.kind = "REJECT"

ShadowInvariant ==
  ShadowStages /\ StagesBehind /\ DecisionStands /\ PassIsEarned /\ ShadowCleansUp

\* One joint at the gate.
LEMMA ClampedLies ==
  ASSUME NEW value \in Int, NEW low \in Int, NEW high \in Int
  PROVE  Clamped(value, low, high) =
           IF value > low THEN (IF value < high THEN value ELSE high)
           ELSE (IF low < high THEN low ELSE high)
<1> DEFINE upper == IF value > low THEN value ELSE low
<1>1. Max({value, low}) = upper
  <2>1. {value, low} \in SUBSET Int /\ {value, low} # {} /\ upper \in Int /\ \A y \in {value, low} : y <= upper
    OBVIOUS
  <2>2. Max({value, low}) \in {value, low} /\ \A y \in {value, low} : y <= Max({value, low})
    BY <2>1, GreatestOfInts
  <2> QED
    BY <2>2
<1>2. upper \in Int
  OBVIOUS
<1>3. Min({high, upper}) = IF upper < high THEN upper ELSE high
  <2> HIDE DEF upper
  <2> DEFINE lower == IF upper < high THEN upper ELSE high
  <2>1. {high, upper} \in SUBSET Int /\ {high, upper} # {} /\ lower \in Int /\ \A y \in {high, upper} : lower <= y
    BY <1>2
  <2>2. Min({high, upper}) \in {high, upper} /\ \A y \in {high, upper} : Min({high, upper}) <= y
    BY <2>1, LeastOfInts
  <2> QED
    BY <1>2, <2>2
<1> QED
  BY <1>1, <1>3 DEF Clamped

LEMMA SameSide ==
  ASSUME NEW a \in Int, NEW b \in Int, (a >= 0 /\ b >= 0) \/ (a <= 0 /\ b <= 0)
  PROVE  a * b >= 0
<1>1. CASE a >= 0 /\ b >= 0
  BY <1>1
<1>2. CASE a <= 0 /\ b <= 0
  BY <1>2
<1> QED
  BY <1>1, <1>2

LEMMA JointAtGate ==
  ASSUME NEW value \in Int, NEW now \in Int
  PROVE  LET safe == JointSafety(value, now).safe IN
         /\ safe \in Int /\ Distance(safe, now) <= MaxStep
         /\ now \in Lo .. Hi => safe \in Lo .. Hi /\ (safe - now) * (value - now) >= 0
<1>1. Lo \in Int /\ Hi \in Int /\ MaxStep \in Int /\ Lo < Hi /\ MaxStep >= 0
  BY ShadowAssumption
<1> DEFINE inRange == Clamped(value, Lo, Hi)
           safe == Clamped(inRange, now - MaxStep, now + MaxStep)
<1>2. inRange = (IF value > Lo THEN (IF value < Hi THEN value ELSE Hi) ELSE Lo)
  BY <1>1, ClampedLies
<1>3. inRange \in Int
  BY <1>1, <1>2
<1>4. safe = IF inRange > now - MaxStep THEN (IF inRange < now + MaxStep THEN inRange ELSE now + MaxStep)
             ELSE (IF now - MaxStep < now + MaxStep THEN now - MaxStep ELSE now + MaxStep)
  <2> HIDE DEF inRange
  <2>1. now - MaxStep \in Int /\ now + MaxStep \in Int
    BY <1>1
  <2> QED
    BY <1>3, <2>1, ClampedLies
<1>5. JointSafety(value, now).safe = safe
  BY DEF JointSafety
<1> HIDE DEF inRange, safe
<1>6. safe \in Int /\ safe <= now + MaxStep /\ now - MaxStep <= safe
  BY <1>1, <1>3, <1>4
<1>7. Distance(safe, now) <= MaxStep
  BY <1>1, <1>6 DEF Distance
<1>8. ASSUME now \in Lo .. Hi
      PROVE  safe \in Lo .. Hi /\ (safe - now) * (value - now) >= 0
  <2>1. inRange \in Lo .. Hi
    BY <1>1, <1>2
  <2>2. safe \in Lo .. Hi
    BY <1>1, <1>3, <1>4, <1>8, <2>1
  <2>3. (value >= now => inRange >= now) /\ (value <= now => inRange <= now)
    BY <1>1, <1>2, <1>8
  <2>4. (value >= now => safe >= now) /\ (value <= now => safe <= now)
    BY <1>1, <1>3, <1>4, <2>3
  <2>5. safe - now \in Int /\ value - now \in Int
        /\ ((safe - now >= 0 /\ value - now >= 0) \/ (safe - now <= 0 /\ value - now <= 0))
    BY <1>6, <2>4
  <2> QED
    BY <2>2, <2>5, SameSide
<1> QED
  BY <1>5, <1>6, <1>7, <1>8

LEMMA AdaptedIsInt ==
  ASSUME NEW action \in [ShadowJoints -> Answers]
  PROVE  Adapted(action) \in [ShadowJoints -> Int]
BY ShadowAssumption DEF Adapted

\* The gate.
LEMMA GateDecides ==
  ASSUME NEW action \in [ShadowJoints -> Int], NEW now \in [ShadowJoints -> States], NEW stale \in BOOLEAN
  PROVE  LET d == Decided(action, now, stale) IN
         /\ d.kind \in {"ACCEPT", "WOULD_CLAMP", "REJECT"}
         /\ d.kind # "REJECT" => /\ ~stale /\ d.safe = [j \in ShadowJoints |-> JointSafety(action[j], now[j]).safe]
                                 /\ d.kind = "ACCEPT" <=> d.safe = action
<1> DEFINE verdicts == [j \in ShadowJoints |-> JointSafety(action[j], now[j])]
           safe == [j \in ShadowJoints |-> verdicts[j].safe]
           rejects == stale \/ \E j \in ShadowJoints : verdicts[j].rejected
           d == Decided(action, now, stale)
<1>1. d = IF rejects THEN [kind |-> "REJECT", safe |-> <<>>]
          ELSE [kind |-> IF safe = action THEN "ACCEPT" ELSE "WOULD_CLAMP", safe |-> safe]
  BY DEF Decided
<1>2. safe = [j \in ShadowJoints |-> JointSafety(action[j], now[j]).safe]
  OBVIOUS
<1>3. ~rejects => ~stale
  OBVIOUS
<1> HIDE DEF safe, rejects, d
<1>4. CASE rejects
  BY <1>1, <1>4 DEF d
<1>5. CASE ~rejects
  BY <1>1, <1>2, <1>3, <1>5 DEF d
<1> QED
  BY <1>4, <1>5

LEMMA ShadowBegins == ShadowInit => ShadowInvariant
<1> SUFFICES ASSUME ShadowInit PROVE ShadowInvariant
  OBVIOUS
<1>1. ShadowStages
  BY DEF ShadowInit, ShadowStages, Opening, Unseen, Unran
<1>2. StagesBehind /\ DecisionStands
  BY DEF ShadowInit, StagesBehind, DecisionStands, Opening
<1>3. PassIsEarned /\ ShadowCleansUp
  BY DEF ShadowInit, PassIsEarned, ShadowCleansUp, Passed
<1> QED
  BY <1>1, <1>2, <1>3 DEF ShadowInvariant

\* Opening and the checks before the run.
LEMMA ShadowOpens ==
  ASSUME ShadowInvariant, OpenCamera \/ ConnectReader \/ MakeClient \/ Preflight
  PROVE  ShadowInvariant'
<1>1. /\ shadowAt \in {"camera", "reader", "client", "preflight"}
      /\ opened' \in SUBSET {"camera", "reader", "client"}
      /\ shadowAt' \in Opening \cup {"closing"}
      /\ exitCode' \in {exitCode, "preflight"} /\ (shadowAt' # "closing" => exitCode' = exitCode)
      /\ UNCHANGED <<sight, here, raw, decision, told, commanded, simulated, verdict>>
  <2>1. opened \subseteq {"camera", "reader", "client"}
    BY DEF ShadowInvariant, ShadowStages
  <2>2. CASE OpenCamera
    BY <2>1, <2>2 DEF OpenCamera, Opens, Opening
  <2>3. CASE ConnectReader
    BY <2>1, <2>3 DEF ConnectReader, Opens, Opening
  <2>4. CASE MakeClient
    BY <2>1, <2>4 DEF MakeClient, Opens, Opening
  <2>5. CASE Preflight
    BY <2>1, <2>5 DEF Preflight, Opening
  <2> QED
    BY <2>2, <2>3, <2>4, <2>5
<1>2. ShadowStages'
  <2>1. shadowAt' \in Opening \cup {"health", "gate", "mujoco", "validate", "closing", "over"}
        /\ exitCode' \in {"none", "passed", "failed", "preflight", "raised"}
    BY <1>1 DEF ShadowInvariant, ShadowStages
  <2>2. opened' \subseteq {"camera", "reader", "client"}
    BY <1>1
  <2> QED
    BY <1>1, <2>1, <2>2 DEF ShadowInvariant, ShadowStages
<1>3. StagesBehind'
  BY <1>1 DEF ShadowInvariant, StagesBehind, Opening
<1>4. DecisionStands'
  BY <1>1 DEF ShadowInvariant, DecisionStands
<1>5. verdict' = "none" /\ exitCode' # "passed" /\ told' = "nothing" /\ shadowAt' # "over"
  BY <1>1 DEF ShadowInvariant, StagesBehind, Opening
<1>6. PassIsEarned' /\ ShadowCleansUp'
  BY <1>5 DEF PassIsEarned, ShadowCleansUp, Passed
<1> QED
  BY <1>2, <1>3, <1>4, <1>6 DEF ShadowInvariant

\* A run that fails says so, or leaves no report.
LEMMA FailConcludes ==
  ASSUME Concluded("SHADOW_FAIL")
  PROVE  /\ shadowAt' = "closing" /\ verdict' \in {"none", "SHADOW_FAIL"} /\ exitCode' \in {"failed", "raised"}
BY DEF Concluded

LEMMA ShadowObserves ==
  ASSUME ShadowInvariant, Observe \/ AskPolicy
  PROVE  ShadowInvariant'
<1>1. /\ shadowAt \in {"observe", "health"} /\ UNCHANGED <<opened, decision, told, commanded, simulated>>
      /\ sight' \in [workspace : BOOLEAN, wrist : BOOLEAN, state : BOOLEAN, stale : BOOLEAN]
      /\ \/ /\ shadowAt' = "health" /\ InSight' /\ here' \in [ShadowJoints -> States]
            /\ verdict' = verdict /\ exitCode' = exitCode
         \/ /\ shadowAt' = "gate" /\ sight' = sight /\ here' = here /\ shadowAt = "health"
            /\ raw' \in [ShadowJoints -> Answers] /\ verdict' = verdict /\ exitCode' = exitCode
         \/ /\ shadowAt' = "closing" /\ verdict' \in {"none", "SHADOW_FAIL"} /\ exitCode' \in {"failed", "raised"}
  <2>1. CASE Observe
    <3>1. PICK seen \in [workspace : BOOLEAN, wrist : BOOLEAN, state : BOOLEAN, stale : BOOLEAN] :
            /\ sight' = seen
            /\ IF seen.workspace /\ seen.wrist /\ seen.state
               THEN here' \in [ShadowJoints -> States] /\ Goes("health")
               ELSE UNCHANGED here /\ Concluded("SHADOW_FAIL")
      BY <2>1 DEF Observe
    <3>2. shadowAt = "observe" /\ UNCHANGED <<opened, decision, told, commanded, simulated>>
      BY <2>1 DEF Observe
    <3>3. CASE seen.workspace /\ seen.wrist /\ seen.state
      BY <3>1, <3>2, <3>3 DEF Goes, InSight
    <3>4. CASE ~(seen.workspace /\ seen.wrist /\ seen.state)
      BY <3>1, <3>2, <3>4, FailConcludes
    <3> QED
      BY <3>3, <3>4
  <2>2. CASE AskPolicy
    <3>1. shadowAt = "health" /\ UNCHANGED <<opened, sight, here, decision, told, commanded, simulated>>
          /\ sight \in [workspace : BOOLEAN, wrist : BOOLEAN, state : BOOLEAN, stale : BOOLEAN]
      BY <2>2 DEF AskPolicy, ShadowInvariant, ShadowStages
    <3>2. CASE raw' \in [ShadowJoints -> Answers] /\ Goes("gate")
      BY <3>1, <3>2 DEF Goes
    <3>3. CASE Concluded("SHADOW_FAIL")
      BY <3>1, <3>3, FailConcludes
    <3> QED
      BY <2>2, <3>2, <3>3 DEF AskPolicy
  <2> QED
    BY <2>1, <2>2
<1>2. decision = Undecided /\ told = "nothing" /\ verdict = "none" /\ exitCode = "none"
      /\ (shadowAt = "health" => InSight /\ here \in [ShadowJoints -> States])
  BY <1>1 DEF ShadowInvariant, StagesBehind, Opening
<1>3. ShadowStages'
  BY <1>1, <1>2 DEF ShadowInvariant, ShadowStages
<1>4. StagesBehind'
  <2>1. shadowAt' = "gate" => InSight' /\ here' \in [ShadowJoints -> States]
    BY <1>1, <1>2 DEF InSight
  <2> QED
    BY <1>1, <1>2, <2>1 DEF StagesBehind, Opening
<1>5. DecisionStands'
  BY <1>1, <1>2 DEF DecisionStands
<1>6. verdict' \in {"none", "SHADOW_FAIL"} /\ exitCode' # "passed" /\ told' = "nothing" /\ shadowAt' # "over"
  BY <1>1, <1>2
<1>7. PassIsEarned' /\ ShadowCleansUp'
  BY <1>6 DEF PassIsEarned, ShadowCleansUp, Passed
<1> QED
  BY <1>3, <1>4, <1>5, <1>7 DEF ShadowInvariant

LEMMA ShadowDecides ==
  ASSUME ShadowInvariant, PassGate
  PROVE  ShadowInvariant'
<1>1. /\ shadowAt = "gate" /\ decision' = Decided(Adapted(raw), here, sight.stale)
      /\ UNCHANGED <<opened, sight, here, raw, commanded, simulated>>
      /\ told' \in {"nothing", IF decision'.kind = "REJECT" THEN "not executed" ELSE "executed"}
      /\ IF decision'.kind = "REJECT" THEN Concluded("SHADOW_FAIL") ELSE Goes("mujoco")
  BY DEF PassGate
<1>2. /\ verdict = "none" /\ exitCode = "none" /\ InSight
      /\ here \in [ShadowJoints -> States] /\ raw \in [ShadowJoints -> Answers] /\ sight.stale \in BOOLEAN
  BY <1>1 DEF ShadowInvariant, StagesBehind, ShadowStages
<1>3. decision'.kind \in {"ACCEPT", "WOULD_CLAMP", "REJECT"}
  BY <1>1, <1>2, AdaptedIsInt, GateDecides
<1>4. \/ /\ decision'.kind = "REJECT" /\ shadowAt' = "closing"
         /\ verdict' \in {"none", "SHADOW_FAIL"} /\ exitCode' \in {"failed", "raised"}
         /\ told' \in {"nothing", "not executed"}
      \/ /\ decision'.kind # "REJECT" /\ shadowAt' = "mujoco" /\ verdict' = "none" /\ exitCode' = "none"
         /\ told' \in {"nothing", "executed"}
  <2>1. CASE decision'.kind = "REJECT"
    BY <1>1, <2>1, FailConcludes
  <2>2. CASE decision'.kind # "REJECT"
    BY <1>1, <1>2, <2>2 DEF Goes
  <2> QED
    BY <2>1, <2>2
<1>5. ShadowStages'
  BY <1>1, <1>4 DEF ShadowInvariant, ShadowStages
<1>6. StagesBehind'
  <2>1. shadowAt' = "mujoco" => InSight' /\ here' \in [ShadowJoints -> States]
    BY <1>1, <1>2 DEF InSight
  <2> QED
    BY <1>3, <1>4, <2>1 DEF StagesBehind, Opening
<1>7. DecisionStands'
  BY <1>1, <1>2, <1>4 DEF DecisionStands
<1>8. PassIsEarned' /\ ShadowCleansUp'
  <2>1. verdict' \in {"none", "SHADOW_FAIL"} /\ exitCode' # "passed" /\ shadowAt' # "over"
        /\ (told' = "executed" => decision'.kind \in {"ACCEPT", "WOULD_CLAMP"})
    BY <1>3, <1>4
  <2> QED
    BY <2>1 DEF PassIsEarned, ShadowCleansUp, Passed
<1> QED
  BY <1>5, <1>6, <1>7, <1>8 DEF ShadowInvariant

LEMMA ShadowExecutes ==
  ASSUME ShadowInvariant, ExecuteInMuJoCo
  PROVE  ShadowInvariant'
<1>1. shadowAt = "mujoco" /\ UNCHANGED <<opened, sight, here, raw, decision, told>>
  BY DEF ExecuteInMuJoCo
<1>2. /\ verdict = "none" /\ exitCode = "none" /\ InSight /\ here \in [ShadowJoints -> States]
      /\ decision.kind \in {"ACCEPT", "WOULD_CLAMP"}
  BY <1>1 DEF ShadowInvariant, StagesBehind
<1>3. Commanded(decision.safe, here) # <<>>
  <2>1. Gripper \in ShadowJoints
    BY ShadowAssumption
  <2>2. DOMAIN Commanded(decision.safe, here) = ShadowJoints
    BY DEF Commanded
  <2>3. DOMAIN <<>> = {}
    OBVIOUS
  <2> QED
    BY <2>1, <2>2, <2>3
<1>4. /\ simulated' \in [finite : BOOLEAN, inRange : BOOLEAN, calm : BOOLEAN]
      /\ \/ /\ commanded' # <<>> /\ shadowAt' = "validate" /\ verdict' = "none" /\ exitCode' = "none"
         \/ /\ shadowAt' = "closing" /\ verdict' \in {"none", "SHADOW_FAIL"} /\ exitCode' \in {"failed", "raised"}
  <2>1. CASE /\ commanded' = Commanded(decision.safe, here)
             /\ simulated' \in [finite : BOOLEAN, inRange : BOOLEAN, calm : BOOLEAN]
             /\ Goes("validate")
    BY <1>2, <1>3, <2>1 DEF Goes
  <2>2. CASE UNCHANGED <<commanded, simulated>> /\ Concluded("SHADOW_FAIL")
    BY <2>2, FailConcludes DEF ShadowInvariant, ShadowStages
  <2> QED
    BY <2>1, <2>2 DEF ExecuteInMuJoCo
<1>5. ShadowStages'
  BY <1>1, <1>4 DEF ShadowInvariant, ShadowStages
<1>6. StagesBehind'
  <2>1. InSight' /\ here' \in [ShadowJoints -> States] /\ decision'.kind \in {"ACCEPT", "WOULD_CLAMP"}
    BY <1>1, <1>2 DEF InSight
  <2> QED
    BY <1>4, <2>1 DEF StagesBehind, Opening
<1>7. DecisionStands'
  BY <1>1 DEF ShadowInvariant, DecisionStands
<1>8. PassIsEarned' /\ ShadowCleansUp'
  <2>1. verdict' \in {"none", "SHADOW_FAIL"} /\ exitCode' # "passed" /\ shadowAt' # "over"
        /\ decision'.kind \in {"ACCEPT", "WOULD_CLAMP"}
    BY <1>1, <1>2, <1>4
  <2> QED
    BY <2>1 DEF PassIsEarned, ShadowCleansUp, Passed
<1> QED
  BY <1>5, <1>6, <1>7, <1>8 DEF ShadowInvariant

LEMMA ShadowValidates ==
  ASSUME ShadowInvariant, Validate
  PROVE  ShadowInvariant'
<1> DEFINE sound == simulated.finite /\ simulated.inRange /\ simulated.calm
           result == IF ~sound THEN "SHADOW_FAIL"
                     ELSE IF decision.kind = "WOULD_CLAMP" THEN "SHADOW_PASS_WITH_CLAMP" ELSE "SHADOW_PASS"
<1>1. /\ shadowAt = "validate" /\ Concluded(result)
      /\ UNCHANGED <<opened, sight, here, raw, decision, told, commanded, simulated>>
  BY DEF Validate
<1>2. /\ verdict = "none" /\ exitCode = "none" /\ InSight /\ commanded # <<>>
      /\ decision.kind \in {"ACCEPT", "WOULD_CLAMP"}
  BY <1>1 DEF ShadowInvariant, StagesBehind
<1>3. here \in [ShadowJoints -> States] /\ raw \in [ShadowJoints -> Answers]
      /\ decision = Decided(Adapted(raw), here, sight.stale) /\ told # "not executed"
  <2>1. decision # Undecided
    BY <1>2 DEF Undecided
  <2>2. decision.kind # "REJECT"
    BY <1>2
  <2> QED
    BY <2>1, <2>2 DEF ShadowInvariant, DecisionStands
<1>4. ~sight.stale /\ (decision.kind = "ACCEPT" <=> decision.safe = Adapted(raw))
  <2>1. sight.stale \in BOOLEAN
    BY DEF ShadowInvariant, ShadowStages
  <2> QED
    BY <1>2, <1>3, <2>1, AdaptedIsInt, GateDecides
<1>5. /\ shadowAt' = "closing" /\ verdict' \in {"none", result}
      /\ exitCode' \in {"failed", "passed", "raised"}
      /\ exitCode' = "passed" => verdict' = result /\ result # "SHADOW_FAIL"
  BY <1>1 DEF Concluded
<1>6. /\ result \in {"SHADOW_FAIL", "SHADOW_PASS", "SHADOW_PASS_WITH_CLAMP"}
      /\ result # "SHADOW_FAIL" => sound
      /\ result = "SHADOW_PASS" => decision.kind = "ACCEPT"
      /\ result = "SHADOW_PASS_WITH_CLAMP" => decision.kind # "ACCEPT"
  BY <1>2
<1>7. ShadowStages'
  <2> HIDE DEF result, sound
  <2>1. verdict' \in {"none", "SHADOW_FAIL", "SHADOW_PASS", "SHADOW_PASS_WITH_CLAMP"}
    BY <1>5, <1>6
  <2>2. exitCode' \in {"none", "passed", "failed", "preflight", "raised"}
    BY <1>5
  <2>3. shadowAt' \in Opening \cup {"health", "gate", "mujoco", "validate", "closing", "over"}
    BY <1>5
  <2>4. UNCHANGED <<opened, sight, told, simulated>>
    BY <1>1
  <2> QED
    BY <2>1, <2>2, <2>3, <2>4 DEF ShadowInvariant, ShadowStages
<1>8. StagesBehind'
  BY <1>5 DEF StagesBehind, Opening
<1>9. DecisionStands'
  BY <1>1 DEF ShadowInvariant, DecisionStands
<1>10. PassIsEarned'
  <2>1. verdict' \in Passed => sound /\ verdict' = result
    BY <1>5, <1>6 DEF Passed
  <2>2. sound => simulated'.finite /\ simulated'.inRange /\ simulated'.calm
    BY <1>1
  <2>3. sight'.workspace /\ sight'.wrist /\ sight'.state /\ ~sight'.stale
        /\ decision'.kind \in {"ACCEPT", "WOULD_CLAMP"} /\ told' # "not executed" /\ commanded' # <<>>
    BY <1>1, <1>2, <1>3, <1>4 DEF InSight
  <2>4. verdict' \in Passed => (verdict' = "SHADOW_PASS" <=> decision'.safe = Adapted(raw'))
    <3>1. decision' = decision /\ raw' = raw
      BY <1>1
    <3> HIDE DEF result, sound
    <3> QED
      BY <1>4, <1>6, <2>1, <3>1 DEF Passed
  <2>5. exitCode' = "passed" => verdict' \in Passed
    <3> HIDE DEF result, sound
    <3> QED
      BY <1>5, <1>6 DEF Passed
  <2> HIDE DEF result, sound
  <2> QED
    BY <2>1, <2>2, <2>3, <2>4, <2>5 DEF PassIsEarned
<1>11. ShadowCleansUp'
  BY <1>5 DEF ShadowCleansUp
<1> QED
  BY <1>7, <1>8, <1>9, <1>10, <1>11 DEF ShadowInvariant

LEMMA ShadowCloses ==
  ASSUME ShadowInvariant, CloseAll
  PROVE  ShadowInvariant'
<1>1. /\ shadowAt = "closing" /\ shadowAt' = "over"
      /\ UNCHANGED <<sight, here, raw, decision, told, commanded, simulated, verdict>>
      /\ opened' \subseteq opened /\ (opened' = {} \/ exitCode' = "raised") /\ exitCode' \in {exitCode, "raised"}
  BY DEF CloseAll
<1>2. ShadowStages'
  <2>1. opened' \subseteq {"camera", "reader", "client"}
    BY <1>1 DEF ShadowInvariant, ShadowStages
  <2>2. exitCode' \in {"none", "passed", "failed", "preflight", "raised"}
    BY <1>1 DEF ShadowInvariant, ShadowStages
  <2> QED
    BY <1>1, <2>1, <2>2 DEF ShadowInvariant, ShadowStages
<1>3. StagesBehind' /\ DecisionStands'
  BY <1>1 DEF ShadowInvariant, StagesBehind, DecisionStands, Opening
<1>4. PassIsEarned' /\ ShadowCleansUp'
  BY <1>1 DEF ShadowInvariant, PassIsEarned, ShadowCleansUp, Adapted
<1> QED
  BY <1>2, <1>3, <1>4 DEF ShadowInvariant

LEMMA ShadowStep == ShadowInvariant /\ [ShadowNext]_shadowVars => ShadowInvariant'
<1> SUFFICES ASSUME ShadowInvariant, [ShadowNext]_shadowVars PROVE ShadowInvariant'
  OBVIOUS
<1>1. CASE ShadowNext
  BY <1>1, ShadowOpens, ShadowObserves, ShadowDecides, ShadowExecutes, ShadowValidates, ShadowCloses
  DEF ShadowNext
<1>2. CASE UNCHANGED shadowVars
  <2>1. UNCHANGED <<shadowAt, opened, sight, here, raw, decision, told, commanded, simulated, verdict, exitCode>>
    BY <1>2 DEF shadowVars
  <2>2. ShadowStages'
    <3>1. opened' \subseteq {"camera", "reader", "client"}
      BY <2>1 DEF ShadowInvariant, ShadowStages
    <3>2. shadowAt' \in Opening \cup {"health", "gate", "mujoco", "validate", "closing", "over"}
      BY <2>1 DEF ShadowInvariant, ShadowStages
    <3>3. sight' \in [workspace : BOOLEAN, wrist : BOOLEAN, state : BOOLEAN, stale : BOOLEAN]
          /\ simulated' \in [finite : BOOLEAN, inRange : BOOLEAN, calm : BOOLEAN]
      BY <2>1 DEF ShadowInvariant, ShadowStages
    <3>4. /\ told' \in {"nothing", "executed", "not executed"}
          /\ verdict' \in {"none", "SHADOW_FAIL", "SHADOW_PASS", "SHADOW_PASS_WITH_CLAMP"}
          /\ exitCode' \in {"none", "passed", "failed", "preflight", "raised"}
      BY <2>1 DEF ShadowInvariant, ShadowStages
    <3> QED
      BY <3>1, <3>2, <3>3, <3>4 DEF ShadowStages
  <2>3. StagesBehind' /\ DecisionStands'
    BY <2>1 DEF ShadowInvariant, StagesBehind, DecisionStands, InSight
  <2>4. PassIsEarned' /\ ShadowCleansUp'
    BY <2>1 DEF ShadowInvariant, PassIsEarned, ShadowCleansUp, Adapted
  <2> QED
    BY <2>2, <2>3, <2>4 DEF ShadowInvariant
<1> QED
  BY <1>1, <1>2

LEMMA ShadowIsSafe == ShadowInvariant => ShadowSafe /\ ShadowTypeOK
<1> SUFFICES ASSUME ShadowInvariant PROVE ShadowSafe /\ ShadowTypeOK
  OBVIOUS
<1>1. CASE decision = Undecided
  <2>1. decision.kind = "none"
    BY <1>1 DEF Undecided
  <2> QED
    BY <2>1 DEF ShadowInvariant, ShadowSafe, SafeIsWithinReach, ShadowStages, ShadowTypeOK, Opening
<1>2. CASE decision # Undecided
  <2>1. here \in [ShadowJoints -> States] /\ raw \in [ShadowJoints -> Answers]
        /\ decision = Decided(Adapted(raw), here, sight.stale) /\ sight.stale \in BOOLEAN
    BY <1>2 DEF ShadowInvariant, DecisionStands, ShadowStages
  <2>2. Adapted(raw) \in [ShadowJoints -> Int]
    BY <2>1, AdaptedIsInt
  <2>3. /\ decision.kind \in {"ACCEPT", "WOULD_CLAMP", "REJECT"}
        /\ decision.kind # "REJECT" =>
             decision.safe = [j \in ShadowJoints |-> JointSafety(Adapted(raw)[j], here[j]).safe]
    BY <2>1, <2>2, GateDecides
  <2>4. SafeIsWithinReach
    <3> SUFFICES ASSUME decision.kind \in {"ACCEPT", "WOULD_CLAMP"}, NEW j \in ShadowJoints
                 PROVE  /\ Distance(decision.safe[j], here[j]) <= MaxStep
                        /\ here[j] \in Lo .. Hi =>
                             /\ decision.safe[j] \in Lo .. Hi
                             /\ (decision.safe[j] - here[j]) * (Adapted(raw)[j] - here[j]) >= 0
      BY DEF SafeIsWithinReach
    <3>1. decision.safe[j] = JointSafety(Adapted(raw)[j], here[j]).safe
      BY <2>3
    <3>2. Adapted(raw)[j] \in Int /\ here[j] \in Int
      BY <2>1, <2>2, ShadowAssumption
    <3> QED
      BY <3>1, <3>2, JointAtGate
  <2> QED
    BY <2>3, <2>4 DEF ShadowInvariant, ShadowSafe, ShadowStages, ShadowTypeOK, Opening
<1> QED
  BY <1>1, <1>2

-----------------------------------------------------------------------------
(***************************************************************************)
(* The layer before MuJoCo.                                                *)
(***************************************************************************)
Timed == [at : Int, value : Int]
Between(x, a, b) == (a <= x /\ x <= b) \/ (b <= x /\ x <= a)

Channel ==
  [wrist : BOOLEAN, pending : Seq(Timed), delayed : Int \cup {NoPosition}, out : Int \cup {NoPosition}]

\* In the order of their times.
InOrder(q) == \A i, k \in 1 .. Len(q) : i <= k => q[i].at <= q[k].at

\* One command and the commands before it that wait: which of them have waited long enough.
LEMMA ReadyArePrefix ==
  ASSUME NEW queue \in Seq(Timed), InOrder(queue), NEW now \in Int
  PROVE  LET ready == Cardinality({i \in DOMAIN queue : now - queue[i].at >= Delay}) IN
         /\ ready \in 0 .. Len(queue)
         /\ \A i \in 1 .. Len(queue) : i <= ready <=> now - queue[i].at >= Delay
<1> DEFINE S == {i \in DOMAIN queue : now - queue[i].at >= Delay}
<1>1. Len(queue) \in Nat /\ DOMAIN queue = 1 .. Len(queue) /\ S \in SUBSET (1 .. Len(queue))
  OBVIOUS
<1>2. Delay \in Int
  BY CtlAssumption
<1>3. \A i \in S : \A k \in 1 .. i : k \in S
  <2> SUFFICES ASSUME NEW i \in S, NEW k \in 1 .. i PROVE k \in S
    OBVIOUS
  <2>1. i \in 1 .. Len(queue) /\ k \in 1 .. Len(queue) /\ k <= i /\ now - queue[i].at >= Delay
    BY <1>1
  <2>2. queue[k].at <= queue[i].at
    BY <2>1 DEF InOrder
  <2>3. queue[k].at \in Int /\ queue[i].at \in Int
    <3>1. queue[k] \in Timed /\ queue[i] \in Timed
      BY <2>1
    <3> QED
      BY <3>1 DEF Timed
  <2>4. now - queue[k].at >= Delay
    BY <1>2, <2>1, <2>2, <2>3
  <2> QED
    BY <1>1, <2>1, <2>4
<1>4. \A i \in 1 .. Len(queue) : i \in S <=> now - queue[i].at >= Delay
  BY <1>1
<1> HIDE DEF S
<1>5. Cardinality(S) \in 0 .. Len(queue) /\ S = 1 .. Cardinality(S)
  BY <1>1, <1>3, CountOfPrefix
<1>6. \A i \in 1 .. Len(queue) : i <= Cardinality(S) <=> i \in S
  BY <1>1, <1>5
<1> QED
  BY <1>4, <1>5, <1>6 DEF S

\* process() when the point of reference is known: what is delayed afterwards is the
\* newest that has waited long enough, what waits is the rest, and the output is on the
\* way from where it was to what is delayed, a frame's change away at most.
LEMMA ProcessedIs ==
  ASSUME NEW c \in Channel, c.delayed # NoPosition, c.out # NoPosition,
         NEW value \in Int, NEW now \in Int, NEW actual \in Int \cup {NoPosition},
         InOrder(Append(c.pending, [at |-> now, value |-> value]))
  PROVE  LET queue == Append(c.pending, [at |-> now, value |-> value])
             d == Processed(c, value, now, actual)
         IN  /\ d \in Channel /\ d.wrist = c.wrist /\ d.delayed \in Int /\ d.out \in Int
             /\ \E ready \in 0 .. Len(queue) :
                  /\ \A i \in 1 .. Len(queue) : i <= ready <=> now - queue[i].at >= Delay
                  /\ d.delayed = IF ready = 0 THEN c.delayed ELSE queue[ready].value
                  /\ d.pending = SubSeq(queue, ready + 1, Len(queue))
             /\ Between(d.out, c.out, d.delayed) /\ Distance(d.out, c.out) <= SoftLimit
             /\ ~c.wrist /\ d.out # d.delayed => Distance(c.out, d.delayed) > SoftLimit
<1> DEFINE queue == Append(c.pending, [at |-> now, value |-> value])
           ready == Cardinality({i \in DOMAIN queue : now - queue[i].at >= Delay})
           late == ApplyLatency(c, value, now)
           d == Processed(c, value, now, actual)
           aim == ApplyDeadband(late, actual)
<1>1. [at |-> now, value |-> value] \in Timed /\ c.pending \in Seq(Timed)
      /\ c.delayed \in Int /\ c.out \in Int /\ c.wrist \in BOOLEAN
  BY DEF Timed, Channel
<1>2. queue \in Seq(Timed) /\ Len(queue) \in Nat
  BY <1>1
<1>3. ready \in 0 .. Len(queue)
      /\ (\A i \in 1 .. Len(queue) : i <= ready <=> now - queue[i].at >= Delay)
  <2>1. InOrder(queue)
    OBVIOUS
  <2> HIDE DEF queue
  <2> QED
    BY <1>2, <2>1, ReadyArePrefix
<1> DEFINE delayed == IF ready = 0 THEN c.delayed ELSE queue[ready].value
           pending == SubSeq(queue, ready + 1, Len(queue))
<1>4. late = [wrist |-> c.wrist, pending |-> pending, delayed |-> delayed, out |-> c.out]
  <2>1. late = [c EXCEPT !.delayed = IF ready = 0 THEN @ ELSE queue[ready].value,
                         !.pending = SubSeq(queue, ready + 1, Len(queue))]
    BY DEF ApplyLatency
  <2> HIDE DEF queue, ready, late
  <2>2. late = [c EXCEPT !.delayed = delayed, !.pending = pending]
    BY <2>1
  <2> HIDE DEF delayed, pending
  <2> QED
    BY <2>2 DEF Channel
<1>5. delayed \in Int /\ pending \in Seq(Timed)
  <2> HIDE DEF queue, ready
  <2>1. pending \in Seq(Timed)
    BY <1>2, <1>3, SubSeqProperties
  <2>2. ready # 0 => queue[ready] \in Timed
    BY <1>2, <1>3
  <2> QED
    BY <1>1, <2>1, <2>2 DEF Timed
<1> HIDE DEF queue, ready, delayed, pending, late
<1>6. late.wrist = c.wrist /\ late.delayed = delayed /\ late.out = c.out /\ late.pending = pending
  BY <1>4
<1>7. aim \in {c.out, delayed} /\ (~c.wrist => aim = delayed)
  BY <1>6 DEF ApplyDeadband
<1> HIDE DEF aim
<1> DEFINE out == ApplyRateLimit(c, aim)
<1>8. out = IF Distance(aim, c.out) <= SoftLimit THEN aim
            ELSE IF aim > c.out THEN c.out + SoftLimit ELSE c.out - SoftLimit
  BY DEF ApplyRateLimit
<1>9. SoftLimit \in Nat
  BY CtlAssumption
<1>10. aim \in Int
  BY <1>1, <1>5, <1>7
<1>11. out \in Int /\ Between(out, c.out, aim) /\ Distance(out, c.out) <= SoftLimit
       /\ (out # aim => Distance(aim, c.out) > SoftLimit)
  <2> HIDE DEF out
  <2>1. CASE Distance(aim, c.out) <= SoftLimit
    BY <1>1, <1>8, <1>10, <2>1 DEF Between, Distance
  <2>2. CASE ~(Distance(aim, c.out) <= SoftLimit) /\ aim > c.out
    BY <1>1, <1>8, <1>9, <1>10, <2>2 DEF Between, Distance
  <2>3. CASE ~(Distance(aim, c.out) <= SoftLimit) /\ ~(aim > c.out)
    BY <1>1, <1>8, <1>9, <1>10, <2>3 DEF Between, Distance
  <2> QED
    BY <2>1, <2>2, <2>3
<1> HIDE DEF out
<1>12. d = [wrist |-> c.wrist, pending |-> pending, delayed |-> delayed, out |-> out]
  <2>1. d = [late EXCEPT !.out = out]
    BY DEF Processed, late, aim, out
  <2> HIDE DEF d
  <2> QED
    BY <1>4, <2>1
<1>13. d \in Channel /\ d.wrist = c.wrist /\ d.delayed = delayed /\ d.out = out /\ d.pending = pending
  <2> HIDE DEF d
  <2> QED
    BY <1>1, <1>5, <1>11, <1>12 DEF Channel
<1>14. Between(out, c.out, delayed)
  <2>1. CASE aim = delayed
    BY <1>11, <2>1
  <2>2. CASE aim = c.out
    BY <1>1, <1>5, <1>11, <2>2 DEF Between
  <2> QED
    BY <1>7, <2>1, <2>2
<1>15. ~c.wrist /\ out # delayed => Distance(c.out, delayed) > SoftLimit
  BY <1>1, <1>5, <1>7, <1>11 DEF Distance
<1>16. \E r \in 0 .. Len(queue) :
         /\ \A i \in 1 .. Len(queue) : i <= r <=> now - queue[i].at >= Delay
         /\ d.delayed = IF r = 0 THEN c.delayed ELSE queue[r].value
         /\ d.pending = SubSeq(queue, r + 1, Len(queue))
  <2> HIDE DEF d
  <2> QED
    BY <1>3, <1>13 DEF delayed, pending
<1> HIDE DEF d
<1> QED
  BY <1>5, <1>11, <1>13, <1>14, <1>15, <1>16 DEF d, queue

CtlCommand == [at : Nat, value : CtlValues]
Overtaken == Len(given) - Len(channel.pending)
CtlSeen == {given[i].value : i \in DOMAIN given} \cup ({begun} \ {NoPosition})
Amid(x, S) == \E lo, hi \in S : lo <= x /\ x <= hi

LayerTypes ==
  /\ channel \in Channel /\ given \in Seq(CtlCommand) /\ Len(given) <= CtlEnd /\ ctlClock \in 0 .. CtlEnd
  /\ channel.delayed \in CtlValues \cup {NoPosition} /\ channel.out \in CtlValues \cup {NoPosition}
  /\ begun \in CtlValues \cup {NoPosition} /\ before \in CtlValues \cup {NoPosition}

CommandsInTime ==
  InOrder(given) /\ \A i \in 1 .. Len(given) : given[i].at <= ctlClock

\* What waits is the end of what was given; what is delayed is the last before it.
WaitingIsTheEnd ==
  /\ Overtaken \in Nat
  /\ \A k \in 1 .. Len(channel.pending) : channel.pending[k] = given[Overtaken + k]
  /\ channel.delayed = IF Overtaken = 0 THEN begun ELSE given[Overtaken].value
  /\ \A i \in 1 .. Len(given) :
       i <= Overtaken <=>
         given[Len(given)].at - given[i].at >= Delay \/ (i = 1 /\ begun = NoPosition)

OutputBetween ==
  /\ channel.out = NoPosition <=> given = <<>> /\ begun = NoPosition
  /\ given = <<>> => channel.out = begun
  /\ CtlSeen # {} => Amid(channel.out, CtlSeen)
  /\ given # <<>> =>
        /\ before # NoPosition => Distance(channel.out, before) <= SoftLimit
        /\ ~channel.wrist /\ channel.out # channel.delayed =>
             Distance(before, channel.delayed) > SoftLimit

CtlInvariant == LayerTypes /\ CommandsInTime /\ WaitingIsTheEnd /\ OutputBetween

LEMMA NoCommands == <<>> \in Seq(CtlCommand) /\ <<>> \in Seq(Timed)
<1> DEFINE A == CtlCommand
           B == Timed
<1> HIDE DEF A, B
<1>1. <<>> \in Seq(A) /\ <<>> \in Seq(B)
  OBVIOUS
<1> QED
  BY <1>1 DEF A, B

LEMMA EmptiedIsChannel ==
  ASSUME NEW w \in BOOLEAN, NEW p \in CtlValues \cup {NoPosition}
  PROVE  /\ Emptied(w, p) \in Channel /\ Emptied(w, p).pending = <<>> /\ Emptied(w, p).wrist = w
         /\ Emptied(w, p).delayed = p /\ Emptied(w, p).out = p
BY NoCommands, CtlAssumption DEF Emptied, Channel

\* At the beginning and after a reset.
LEMMA EmptyChannel ==
  ASSUME channel \in Channel, channel.pending = <<>>, given = <<>>, channel.delayed = begun, channel.out = begun,
         begun \in CtlValues \cup {NoPosition}, before = NoPosition, ctlClock \in 0 .. CtlEnd
  PROVE  CtlInvariant
<1>1. Len(given) = 0 /\ Len(channel.pending) = 0 /\ DOMAIN given = {}
  OBVIOUS
<1>2. CtlEnd \in Nat /\ CtlValues \subseteq Int
  BY CtlAssumption
<1>3. LayerTypes
  BY <1>1, <1>2, NoCommands DEF LayerTypes
<1>4. CommandsInTime
  BY <1>1 DEF CommandsInTime, InOrder
<1>5. Overtaken = 0
  BY <1>1 DEF Overtaken
<1>6. WaitingIsTheEnd
  BY <1>1, <1>5 DEF WaitingIsTheEnd
<1>7. CtlSeen = {begun} \ {NoPosition}
  BY <1>1 DEF CtlSeen
<1>8. begun # NoPosition => begun \in Int
  BY <1>2
<1>9. OutputBetween
  BY <1>7, <1>8 DEF OutputBetween, Amid
<1> QED
  BY <1>3, <1>4, <1>6, <1>9 DEF CtlInvariant

LEMMA CtlBegins == CtlInit => CtlInvariant
<1> SUFFICES ASSUME CtlInit PROVE CtlInvariant
  OBVIOUS
<1>1. \E w \in BOOLEAN : \E p \in CtlValues \cup {NoPosition} : channel = Emptied(w, p)
  BY DEF CtlInit
<1>2. PICK w \in BOOLEAN : \E p \in CtlValues \cup {NoPosition} : channel = Emptied(w, p)
  BY <1>1
<1>3. PICK p \in CtlValues \cup {NoPosition} : channel = Emptied(w, p)
  BY <1>2
<1>4. channel \in Channel /\ channel.pending = <<>> /\ channel.delayed = p /\ channel.out = p
  BY <1>3, EmptiedIsChannel
<1>5. begun = p /\ ctlClock = 0 /\ given = <<>> /\ before = NoPosition
  BY <1>4 DEF CtlInit
<1>6. ctlClock \in 0 .. CtlEnd
  BY <1>5, CtlAssumption
<1> QED
  BY <1>4, <1>5, <1>6, EmptyChannel

LEMMA CtlResets ==
  ASSUME CtlInvariant, LayerReset
  PROVE  CtlInvariant'
<1>1. PICK p \in CtlValues \cup {NoPosition} : channel' = Emptied(channel.wrist, p) /\ begun' = p
  BY DEF LayerReset
<1>2. given' = <<>> /\ before' = NoPosition /\ ctlClock' = ctlClock
  BY DEF LayerReset
<1>3. channel.wrist \in BOOLEAN /\ ctlClock \in 0 .. CtlEnd
  BY DEF CtlInvariant, LayerTypes, Channel
<1>4. channel' \in Channel /\ channel'.pending = <<>> /\ channel'.delayed = p /\ channel'.out = p
  BY <1>1, <1>3, EmptiedIsChannel
<1>5. Len(given') = 0 /\ Len(channel'.pending) = 0 /\ DOMAIN given' = {}
  BY <1>2, <1>4
<1>6. CtlEnd \in Nat /\ CtlValues \subseteq Int
  BY CtlAssumption
<1>7. LayerTypes'
  BY <1>1, <1>2, <1>3, <1>4, <1>5, <1>6, NoCommands DEF LayerTypes
<1>8. CommandsInTime'
  BY <1>5 DEF CommandsInTime, InOrder
<1>9. Overtaken' = 0
  BY <1>5 DEF Overtaken
<1>10. WaitingIsTheEnd'
  BY <1>1, <1>4, <1>5, <1>9 DEF WaitingIsTheEnd
<1>11. CtlSeen' = {begun'} \ {NoPosition}
  BY <1>5 DEF CtlSeen
<1>12. begun' # NoPosition => begun' \in Int
  BY <1>1, <1>6
<1>13. OutputBetween'
  BY <1>1, <1>2, <1>4, <1>11, <1>12 DEF OutputBetween, Amid
<1> QED
  BY <1>7, <1>8, <1>10, <1>13 DEF CtlInvariant

LEMMA CtlClockPasses ==
  ASSUME CtlInvariant, ClockPasses
  PROVE  CtlInvariant'
<1>1. UNCHANGED <<channel, begun, given, before>> /\ ctlClock < CtlEnd /\ ctlClock' = ctlClock + 1
      /\ ctlClock \in 0 .. CtlEnd /\ CtlEnd \in Nat
  BY CtlAssumption DEF ClockPasses, CtlInvariant, LayerTypes
<1>2. ctlClock' \in 0 .. CtlEnd
  BY <1>1
<1>3. LayerTypes'
  BY <1>1, <1>2 DEF CtlInvariant, LayerTypes
<1>4. CommandsInTime'
  <2> SUFFICES ASSUME NEW i \in 1 .. Len(given) PROVE given[i].at <= ctlClock + 1
    BY <1>1 DEF CtlInvariant, CommandsInTime, InOrder
  <2>1. given[i] \in CtlCommand /\ given[i].at <= ctlClock
    BY DEF CtlInvariant, CommandsInTime, LayerTypes
  <2> QED
    BY <1>1, <2>1 DEF CtlCommand
<1>5. WaitingIsTheEnd'
  BY <1>1 DEF CtlInvariant, WaitingIsTheEnd, Overtaken
<1>6. OutputBetween'
  BY <1>1 DEF CtlInvariant, OutputBetween, CtlSeen
<1> QED
  BY <1>3, <1>4, <1>5, <1>6 DEF CtlInvariant

\* A command is processed.
LEMMA CtlFirst ==
  ASSUME CtlInvariant, ProcessCommand, channel.out = NoPosition
  PROVE  CtlInvariant'
<1>1. PICK value \in CtlValues : \E actual \in CtlValues \cup {NoPosition} :
         /\ channel' = Processed(channel, value, ctlClock, actual)
         /\ given' = Append(given, [at |-> ctlClock, value |-> value])
  BY DEF ProcessCommand
<1>2. PICK actual \in CtlValues \cup {NoPosition} : channel' = Processed(channel, value, ctlClock, actual)
  BY <1>1
<1>3. /\ given = <<>> /\ begun = NoPosition /\ channel.pending = <<>> /\ channel.delayed = NoPosition
      /\ channel \in Channel
  <2>1. given = <<>> /\ begun = NoPosition /\ channel \in Channel
    BY DEF CtlInvariant, OutputBetween, LayerTypes
  <2>2. channel.pending \in Seq(Timed) /\ Len(given) = 0
    BY <2>1 DEF Channel
  <2>3. Len(channel.pending) = 0 /\ Overtaken = 0
    BY <2>2 DEF CtlInvariant, WaitingIsTheEnd, Overtaken
  <2> QED
    BY <2>1, <2>2, <2>3 DEF CtlInvariant, WaitingIsTheEnd
<1>4. ctlClock \in 0 .. CtlEnd /\ CtlEnd \in Nat /\ Len(given) < CtlEnd /\ begun' = begun /\ before' = NoPosition
      /\ ctlClock' = ctlClock
  BY CtlAssumption DEF CtlInvariant, LayerTypes, ProcessCommand
<1>5. channel' = [wrist |-> channel.wrist, pending |-> <<>>, delayed |-> value, out |-> value]
  <2>1. ApplyLatency(channel, value, ctlClock) = [channel EXCEPT !.delayed = value]
    BY <1>3 DEF ApplyLatency
  <2> DEFINE late == ApplyLatency(channel, value, ctlClock)
  <2>2. late = [wrist |-> channel.wrist, pending |-> <<>>, delayed |-> value, out |-> NoPosition]
    BY <1>3, <2>1 DEF Channel
  <2> HIDE DEF late
  <2>3. ApplyDeadband(late, actual) = value
    BY <2>2 DEF ApplyDeadband
  <2>4. ApplyRateLimit(channel, value) = value
    BY DEF ApplyRateLimit
  <2>5. channel' = [late EXCEPT !.out = ApplyRateLimit(channel, ApplyDeadband(late, actual))]
    BY <1>2 DEF Processed, late
  <2>6. channel' = [late EXCEPT !.out = value]
    BY <2>3, <2>4, <2>5
  <2> QED
    BY <2>2, <2>6
<1>6. given' = <<[at |-> ctlClock, value |-> value]>>
  BY <1>1, <1>3
<1>7. given'[1] = [at |-> ctlClock, value |-> value] /\ Len(given') = 1 /\ DOMAIN given' = {1}
      /\ [at |-> ctlClock, value |-> value] \in CtlCommand /\ value \in Int
  BY <1>4, <1>6, CtlAssumption DEF CtlCommand
<1>8. given' \in Seq(CtlCommand)
  <2> DEFINE A == CtlCommand
  <2> HIDE DEF A
  <2>1. \A a \in A : <<a>> \in Seq(A)
    OBVIOUS
  <2> QED
    BY <1>6, <1>7, <2>1 DEF A
<1>9. channel' \in Channel /\ channel'.pending = <<>> /\ channel'.delayed = value /\ channel'.out = value
  <2>1. channel.wrist \in BOOLEAN
    BY <1>3 DEF Channel
  <2> QED
    BY <1>5, <1>7, <2>1, NoCommands DEF Channel
<1>10. LayerTypes'
  <2>1. Len(given') <= CtlEnd
    BY <1>3, <1>4, <1>7
  <2> QED
    BY <1>3, <1>4, <1>8, <1>9, <2>1 DEF LayerTypes
<1>11. CommandsInTime'
  BY <1>4, <1>7 DEF CommandsInTime, InOrder
<1>12. Overtaken' = 1
  BY <1>7, <1>9 DEF Overtaken
<1>13. WaitingIsTheEnd'
  <2>1. \A i \in 1 .. Len(given') : i = 1
    BY <1>7
  <2>2. Len(channel'.pending) = 0
    BY <1>9
  <2>3. given'[1].value = value
    BY <1>7
  <2> QED
    BY <1>3, <1>4, <1>7, <1>9, <1>12, <2>1, <2>2, <2>3 DEF WaitingIsTheEnd
<1>14. CtlSeen' = {value}
  BY <1>3, <1>4, <1>7 DEF CtlSeen
<1>15. OutputBetween'
  <2>1. given' # <<>> /\ value # NoPosition
    <3>1. given' # <<>>
      BY <1>6
    <3> QED
      BY <1>7, <3>1, CtlAssumption
  <2>2. Amid(value, {value})
    BY <1>7 DEF Amid
  <2> QED
    BY <1>4, <1>9, <1>14, <2>1, <2>2 DEF OutputBetween
<1> QED
  BY <1>10, <1>11, <1>13, <1>15 DEF CtlInvariant

LEMMA CtlProcesses ==
  ASSUME CtlInvariant, ProcessCommand, channel.out # NoPosition
  PROVE  CtlInvariant'
<1>1. PICK value \in CtlValues : \E actual \in CtlValues \cup {NoPosition} :
         /\ channel' = Processed(channel, value, ctlClock, actual)
         /\ given' = Append(given, [at |-> ctlClock, value |-> value])
  BY DEF ProcessCommand
<1>2. PICK actual \in CtlValues \cup {NoPosition} : channel' = Processed(channel, value, ctlClock, actual)
  BY <1>1
<1> DEFINE cmd == [at |-> ctlClock, value |-> value]
           n == Len(given)
           m == Overtaken
           queue == Append(channel.pending, cmd)
<1>3. /\ channel \in Channel /\ channel.pending \in Seq(Timed) /\ given \in Seq(CtlCommand)
      /\ channel.out \in CtlValues /\ CtlValues \subseteq Int /\ NoPosition \notin Int
      /\ ctlClock \in Nat /\ ctlClock <= CtlEnd /\ CtlEnd \in Nat /\ Delay \in Nat /\ value \in Int
      /\ begun \in CtlValues \cup {NoPosition}
  BY CtlAssumption DEF CtlInvariant, LayerTypes, Channel
<1>4. n \in Nat /\ n < CtlEnd /\ begun' = begun /\ before' = channel.out /\ ctlClock' = ctlClock
      /\ given' = Append(given, cmd)
  BY <1>1, <1>3 DEF ProcessCommand
<1>5. cmd \in CtlCommand /\ cmd \in Timed /\ cmd.at = ctlClock /\ cmd.value = value
  BY <1>3 DEF CtlCommand, Timed
<1>6. /\ given' \in Seq(CtlCommand) /\ Len(given') = n + 1 /\ given'[n + 1] = cmd
      /\ \A i \in 1 .. n : given'[i] = given[i]
  BY <1>3, <1>4, <1>5
<1>7. \A i \in 1 .. n + 1 : given'[i].at \in Nat /\ given'[i].value \in CtlValues
  <2>1. \A i \in 1 .. n + 1 : given'[i] \in CtlCommand
    BY <1>4, <1>6
  <2> QED
    BY <2>1 DEF CtlCommand
<1> DEFINE L == Len(channel.pending)
<1>8. m \in Nat /\ L \in Nat /\ n = m + L
  <2>1. m \in Nat
    BY DEF CtlInvariant, WaitingIsTheEnd
  <2>2. L \in Nat
    BY <1>3
  <2>3. m = n - L
    BY DEF Overtaken
  <2> QED
    BY <1>4, <2>1, <2>2, <2>3
<1>81. \A k \in 1 .. L : channel.pending[k] = given[m + k]
  BY DEF CtlInvariant, WaitingIsTheEnd
<1>9. \A i \in 1 .. n : i <= m <=> given[n].at - given[i].at >= Delay \/ (i = 1 /\ begun = NoPosition)
  BY DEF CtlInvariant, WaitingIsTheEnd
<1>10. channel.delayed = IF m = 0 THEN begun ELSE given[m].value
  BY DEF CtlInvariant, WaitingIsTheEnd
<1>11. begun = NoPosition => n >= 1 /\ m >= 1
  <2>1. begun = NoPosition => n # 0
    BY <1>3 DEF CtlInvariant, OutputBetween
  <2> QED
    BY <1>4, <1>8, <1>9, <2>1
<1>12. channel.delayed # NoPosition
  <2>1. CASE m = 0
    BY <1>10, <1>11, <2>1
  <2>2. CASE m # 0
    <3>1. m \in 1 .. n + 1 /\ m \in 1 .. n
      BY <1>4, <1>8, <2>2
    <3> QED
      BY <1>3, <1>6, <1>7, <1>10, <2>2, <3>1
  <2> QED
    BY <2>1, <2>2
<1>13. /\ queue \in Seq(Timed) /\ Len(queue) = L + 1
       /\ \A k \in 1 .. L + 1 : queue[k] = given'[m + k]
  <2>1. /\ queue \in Seq(Timed) /\ Len(queue) = L + 1 /\ queue[L + 1] = cmd
        /\ \A k \in 1 .. L : queue[k] = channel.pending[k]
    BY <1>3, <1>5
  <2> HIDE DEF queue
  <2>2. \A k \in 1 .. L : queue[k] = given'[m + k]
    <3> SUFFICES ASSUME NEW k \in 1 .. L PROVE queue[k] = given'[m + k]
      OBVIOUS
    <3>1. m + k \in 1 .. n
      BY <1>8
    <3>2. queue[k] = given[m + k]
      BY <1>81, <2>1
    <3> QED
      BY <1>6, <3>1, <3>2
  <2>3. queue[L + 1] = given'[m + (L + 1)]
    <3>1. m + (L + 1) = n + 1
      BY <1>8
    <3> QED
      BY <1>6, <2>1, <3>1
  <2>4. \A k \in 1 .. L + 1 : k \in 1 .. L \/ k = L + 1
    BY <1>8
  <2>5. \A k \in 1 .. L + 1 : queue[k] = given'[m + k]
    <3> HIDE DEF L, m
    <3> QED
      BY <2>2, <2>3, <2>4
  <2> QED
    BY <2>1, <2>5
<1>14. \A i, k \in 1 .. n + 1 : i <= k => given'[i].at <= given'[k].at
  <2> SUFFICES ASSUME NEW i \in 1 .. n + 1, NEW k \in 1 .. n + 1, i <= k PROVE given'[i].at <= given'[k].at
    OBVIOUS
  <2>1. CASE k <= n
    BY <1>4, <1>6, <2>1 DEF CtlInvariant, CommandsInTime, InOrder
  <2>2. CASE k = n + 1 /\ i <= n
    BY <1>4, <1>5, <1>6, <2>2 DEF CtlInvariant, CommandsInTime
  <2>3. CASE i = k
    BY <1>7, <2>3
  <2> QED
    BY <1>4, <2>1, <2>2, <2>3
<1>15. InOrder(queue)
  <2> SUFFICES ASSUME NEW i \in 1 .. Len(queue), NEW k \in 1 .. Len(queue), i <= k
               PROVE  queue[i].at <= queue[k].at
    BY DEF InOrder
  <2> HIDE DEF queue
  <2>1. i \in 1 .. L + 1 /\ k \in 1 .. L + 1
    BY <1>13
  <2>2. m + i \in 1 .. n + 1 /\ m + k \in 1 .. n + 1 /\ m + i <= m + k
    BY <1>8, <2>1
  <2> QED
    BY <1>13, <1>14, <2>1, <2>2
<1>16. /\ channel' \in Channel /\ channel'.wrist = channel.wrist /\ channel'.delayed \in Int /\ channel'.out \in Int
       /\ \E ready \in 0 .. Len(queue) :
            /\ \A i \in 1 .. Len(queue) : i <= ready <=> ctlClock - queue[i].at >= Delay
            /\ channel'.delayed = IF ready = 0 THEN channel.delayed ELSE queue[ready].value
            /\ channel'.pending = SubSeq(queue, ready + 1, Len(queue))
       /\ Between(channel'.out, channel.out, channel'.delayed)
       /\ Distance(channel'.out, channel.out) <= SoftLimit
       /\ ~channel.wrist /\ channel'.out # channel'.delayed => Distance(channel.out, channel'.delayed) > SoftLimit
  <2>1. actual \in Int \cup {NoPosition} /\ ctlClock \in Int /\ value \in Int /\ channel \in Channel
    BY <1>3
  <2>2. InOrder(Append(channel.pending, [at |-> ctlClock, value |-> value]))
    BY <1>15
  <2> HIDE DEF queue
  <2>3. channel'.out = Processed(channel, value, ctlClock, actual).out
    BY <1>2
  <2> DEFINE d == Processed(channel, value, ctlClock, actual)
  <2>4. /\ d \in Channel /\ d.wrist = channel.wrist /\ d.delayed \in Int /\ d.out \in Int
        /\ \E ready \in 0 .. Len(queue) :
             /\ \A i \in 1 .. Len(queue) : i <= ready <=> ctlClock - queue[i].at >= Delay
             /\ d.delayed = IF ready = 0 THEN channel.delayed ELSE queue[ready].value
             /\ d.pending = SubSeq(queue, ready + 1, Len(queue))
        /\ Between(d.out, channel.out, d.delayed) /\ Distance(d.out, channel.out) <= SoftLimit
        /\ ~channel.wrist /\ d.out # d.delayed => Distance(channel.out, d.delayed) > SoftLimit
    <3>1. channel.out # NoPosition
      OBVIOUS
    <3> HIDE DEF d
    <3> QED
      BY <1>12, <2>1, <2>2, <3>1, ProcessedIs DEF d, queue
  <2>5. channel' = d
    BY <1>2
  <2> HIDE DEF d
  <2> QED
    BY <2>4, <2>5
<1>171. Len(queue) = L + 1 /\ 0 .. Len(queue) = 0 .. L + 1 /\ 1 .. Len(queue) = 1 .. L + 1
  BY <1>13
<1>17. PICK r \in 0 .. Len(queue) :
            /\ \A i \in 1 .. Len(queue) : i <= r <=> ctlClock - queue[i].at >= Delay
            /\ channel'.delayed = IF r = 0 THEN channel.delayed ELSE queue[r].value
            /\ channel'.pending = SubSeq(queue, r + 1, Len(queue))
  BY <1>16
<1> HIDE DEF queue
<1>172. r \in Nat /\ r <= L + 1
  BY <1>8, <1>171
<1>18. /\ Len(channel'.pending) = Len(queue) - r
       /\ \A k \in 1 .. Len(queue) - r : channel'.pending[k] = queue[r + k]
  <2>1. r + 1 \in 1 .. Len(queue) + 1 /\ Len(queue) \in 0 .. Len(queue) /\ Len(queue) \in Nat /\ r \in Nat
        /\ r <= Len(queue)
    BY <1>8, <1>13, <1>17
  <2>2. channel'.pending = SubSeq(queue, r + 1, Len(queue))
    BY <1>17
  <2> QED
    BY <1>13, <2>1, <2>2
<1>19. Overtaken' = m + r /\ m + r \in Nat
  <2>1. Overtaken' = Len(given') - Len(channel'.pending)
    BY DEF Overtaken
  <2>2. Overtaken' = (n + 1) - ((L + 1) - r)
    BY <1>6, <1>18, <1>171, <2>1
  <2>3. m + r \in Nat
    BY <1>8, <1>172
  <2>4. \A a, b, c, d \in Int : a = b + c => (a + 1) - ((c + 1) - d) = b + d
    OBVIOUS
  <2>5. n \in Int /\ m \in Int /\ L \in Int /\ r \in Int /\ n = m + L
    BY <1>8, <1>172
  <2> HIDE DEF n, m, L
  <2>6. (n + 1) - ((L + 1) - r) = m + r
    BY <2>4, <2>5
  <2> QED
    BY <2>2, <2>3, <2>6
<1>20. \A k \in 1 .. Len(channel'.pending) : channel'.pending[k] = given'[m + r + k]
  <2> SUFFICES ASSUME NEW k \in 1 .. Len(channel'.pending) PROVE channel'.pending[k] = given'[m + r + k]
    OBVIOUS
  <2>1. r + k \in 1 .. Len(queue) /\ m + (r + k) = m + r + k /\ k \in 1 .. Len(queue) - r
    BY <1>8, <1>13, <1>17, <1>18
  <2> QED
    BY <1>13, <1>18, <2>1
<1>21. channel'.delayed = IF m + r = 0 THEN begun ELSE given'[m + r].value
  <2>1. CASE r = 0
    <3>1. m # 0 => m \in 1 .. n
      BY <1>4, <1>8
    <3> QED
      BY <1>6, <1>8, <1>10, <1>17, <2>1, <3>1
  <2>2. CASE r # 0
    <3>1. r \in 1 .. Len(queue) /\ m + r # 0
      BY <1>8, <1>13, <1>17, <2>2
    <3> QED
      BY <1>13, <1>17, <2>2, <3>1
  <2> QED
    BY <2>1, <2>2
<1>22. \A i \in 1 .. n + 1 :
         i <= m + r <=> given'[n + 1].at - given'[i].at >= Delay \/ (i = 1 /\ begun = NoPosition)
  <2> SUFFICES ASSUME NEW i \in 1 .. n + 1
               PROVE  i <= m + r <=> given'[n + 1].at - given'[i].at >= Delay \/ (i = 1 /\ begun = NoPosition)
    OBVIOUS
  <2>1. given'[n + 1].at = ctlClock
    BY <1>5, <1>6
  <2>2. CASE i > m
    <3>1. i - m \in 1 .. Len(queue) /\ i - m \in 1 .. L + 1 /\ m + (i - m) = i
          /\ ~(i = 1 /\ begun = NoPosition)
      <4>1. i - m \in 1 .. L + 1 /\ m + (i - m) = i
        BY <1>8, <2>2
      <4>2. ~(i = 1 /\ begun = NoPosition)
        BY <1>8, <1>11, <2>2
      <4> QED
        BY <1>171, <4>1, <4>2
    <3>2. queue[i - m] = given'[i]
      BY <1>13, <3>1
    <3>3. i - m <= r <=> ctlClock - given'[i].at >= Delay
      BY <1>17, <3>1, <3>2
    <3>4. i <= m + r <=> i - m <= r
      BY <1>4, <1>8, <1>17
    <3> QED
      BY <2>1, <3>1, <3>3, <3>4
  <2>3. CASE i <= m
    <3>1. i \in 1 .. n /\ n \in 1 .. n /\ i <= m + r
      BY <1>4, <1>8, <1>17, <2>3
    <3>2. given[n].at - given[i].at >= Delay \/ (i = 1 /\ begun = NoPosition)
      BY <1>9, <2>3, <3>1
    <3>3. given[n].at <= ctlClock /\ given[n] = given'[n] /\ given[i] = given'[i]
      BY <1>6, <3>1 DEF CtlInvariant, CommandsInTime
    <3>4. n \in 1 .. n + 1
      BY <1>4, <3>1
    <3>5. given[n].at \in Nat /\ given[i].at \in Nat
      BY <1>7, <3>3, <3>4
    <3>6. given[n].at - given[i].at >= Delay => ctlClock - given[i].at >= Delay
      <4>1. ctlClock \in Nat /\ Delay \in Nat
        BY <1>3
      <4>2. given[n].at <= ctlClock
        BY <3>3
      <4> QED
        BY <3>5, <4>1, <4>2
    <3> QED
      BY <2>1, <3>1, <3>2, <3>3, <3>6
  <2>4. i > m \/ i <= m
    <3>1. m \in Nat /\ n \in Nat
      BY <1>4, <1>8
    <3> QED
      BY <3>1
  <2> QED
    BY <2>2, <2>3, <2>4
<1>23. WaitingIsTheEnd'
  BY <1>4, <1>6, <1>19, <1>20, <1>21, <1>22 DEF WaitingIsTheEnd
<1>24. CommandsInTime'
  <2>1. \A i \in 1 .. n + 1 : given'[i].at <= ctlClock
    <3>1. given'[n + 1].at = ctlClock /\ n + 1 \in 1 .. n + 1
      BY <1>4, <1>5, <1>6
    <3>2. \A i \in 1 .. n + 1 : i <= n + 1
      BY <1>4
    <3> QED
      BY <1>14, <3>1, <3>2
  <2> QED
    BY <1>4, <1>6, <1>14, <2>1 DEF CommandsInTime, InOrder
<1>25. /\ CtlSeen' = CtlSeen \cup {value} /\ CtlSeen \subseteq CtlValues
       /\ channel'.delayed \in CtlSeen'
  <2>1. DOMAIN given' = DOMAIN given \cup {n + 1} /\ DOMAIN given = 1 .. n /\ n + 1 \notin 1 .. n
    BY <1>3, <1>4, <1>6
  <2>2. {given'[i].value : i \in DOMAIN given'} = {given[i].value : i \in DOMAIN given} \cup {value}
    BY <1>5, <1>6, <2>1
  <2>3. CtlSeen' = CtlSeen \cup {value}
    BY <1>4, <2>2 DEF CtlSeen
  <2>4. CtlSeen \subseteq CtlValues
    <3>1. \A i \in 1 .. n : given[i].value \in CtlValues
      BY <1>4, <1>6, <1>7
    <3> QED
      BY <1>3, <2>1, <3>1 DEF CtlSeen
  <2>5. channel'.delayed \in CtlSeen'
    <3>1. CASE m + r = 0
      <4>1. begun # NoPosition
        BY <1>8, <1>11, <1>17, <3>1
      <4> QED
        BY <1>4, <1>21, <3>1, <4>1 DEF CtlSeen
    <3>2. CASE m + r # 0
      <4>1. m + r \in 1 .. n + 1 /\ DOMAIN given' = 1 .. n + 1
        <5>1. m + r \in 1 .. n + 1
          BY <1>8, <1>172, <3>2
        <5> QED
          BY <1>6, <5>1
      <4> QED
        BY <1>21, <3>2, <4>1 DEF CtlSeen
    <3> QED
      BY <3>1, <3>2
  <2> QED
    BY <2>3, <2>4, <2>5
<1>26. CtlSeen' \subseteq Int /\ Amid(channel'.out, CtlSeen')
  <2>1. CtlSeen' \subseteq Int
    BY <1>3, <1>25
  <2>2. Amid(channel.out, CtlSeen')
    <3>1. CtlSeen # {}
      <4>1. CASE n = 0
        <5>1. begun # NoPosition
          BY <1>4, <1>11, <4>1
        <5> QED
          BY <5>1 DEF CtlSeen
      <4>2. CASE n # 0
        <5>1. 1 \in DOMAIN given
          BY <1>3, <1>4, <4>2
        <5> QED
          BY <5>1 DEF CtlSeen
      <4> QED
        BY <4>1, <4>2
    <3>2. Amid(channel.out, CtlSeen)
      BY <3>1 DEF CtlInvariant, OutputBetween
    <3> QED
      BY <1>25, <3>2 DEF Amid
  <2>3. PICK lo, hi \in CtlSeen' : lo <= channel.out /\ channel.out <= hi
    BY <2>2 DEF Amid
  <2>4. lo \in Int /\ hi \in Int /\ channel.out \in Int /\ channel'.out \in Int /\ channel'.delayed \in Int
    BY <1>3, <1>16, <2>1, <2>3
  <2>5. CASE channel.out <= channel'.out /\ channel'.out <= channel'.delayed
    <3>1. lo <= channel'.out /\ channel'.out <= channel'.delayed
      BY <2>3, <2>4, <2>5
    <3>2. lo \in CtlSeen' /\ channel'.delayed \in CtlSeen'
      BY <1>25, <2>3
    <3>3. Amid(channel'.out, CtlSeen')
      BY <3>1, <3>2 DEF Amid
    <3> QED
      BY <2>1, <3>3
  <2>6. CASE channel'.delayed <= channel'.out /\ channel'.out <= channel.out
    <3>1. channel'.delayed <= channel'.out /\ channel'.out <= hi
      BY <2>3, <2>4, <2>6
    <3>2. hi \in CtlSeen' /\ channel'.delayed \in CtlSeen'
      BY <1>25, <2>3
    <3>3. Amid(channel'.out, CtlSeen')
      BY <3>1, <3>2 DEF Amid
    <3> QED
      BY <2>1, <3>3
  <2> QED
    BY <1>16, <2>1, <2>5, <2>6 DEF Between
<1>27. channel'.out \in CtlValues /\ channel'.delayed \in CtlValues
  <2>1. CtlSeen' \subseteq CtlValues
    BY <1>25
  <2>2. PICK lo, hi \in CtlSeen' : lo <= channel'.out /\ channel'.out <= hi
    BY <1>26 DEF Amid
  <2>3. channel'.out \in lo .. hi
    BY <1>16, <1>26, <2>2
  <2> QED
    BY <1>25, <2>1, <2>2, <2>3, CtlAssumption
<1>28. LayerTypes'
  <2>1. Len(given') <= CtlEnd /\ ctlClock \in 0 .. CtlEnd
    BY <1>3, <1>4, <1>6
  <2> QED
    BY <1>3, <1>4, <1>6, <1>16, <1>27, <2>1 DEF LayerTypes
<1>29. OutputBetween'
  <2>1. given' # <<>> /\ channel'.out # NoPosition
    <3>1. Len(given') # 0
      BY <1>4, <1>6
    <3>2. given' # <<>>
      BY <3>1
    <3> QED
      BY <1>3, <1>16, <3>2
  <2> QED
    BY <1>4, <1>16, <1>26, <2>1 DEF OutputBetween
<1> QED
  BY <1>23, <1>24, <1>28, <1>29 DEF CtlInvariant

LEMMA CtlStep == CtlInvariant /\ [CtlNext]_ctlVars => CtlInvariant'
<1> SUFFICES ASSUME CtlInvariant, [CtlNext]_ctlVars PROVE CtlInvariant'
  OBVIOUS
<1>1. CASE CtlNext
  BY <1>1, CtlResets, CtlFirst, CtlProcesses, CtlClockPasses DEF CtlNext
<1>2. CASE UNCHANGED ctlVars
  <2>1. UNCHANGED <<channel, ctlClock, begun, given, before>>
    BY <1>2 DEF ctlVars
  <2>2. LayerTypes'
    BY <2>1 DEF CtlInvariant, LayerTypes
  <2>3. CommandsInTime' /\ WaitingIsTheEnd'
    BY <2>1 DEF CtlInvariant, CommandsInTime, WaitingIsTheEnd, InOrder, Overtaken
  <2>4. OutputBetween'
    BY <2>1 DEF CtlInvariant, OutputBetween, CtlSeen
  <2> QED
    BY <2>2, <2>3, <2>4 DEF CtlInvariant
<1> QED
  BY <1>1, <1>2

LEMMA CtlIsSafe == CtlInvariant => LayerHonest /\ CtlTypeOK
<1> SUFFICES ASSUME CtlInvariant PROVE LayerHonest /\ CtlTypeOK
  OBVIOUS
<1> DEFINE n == Len(given)
           m == Overtaken
<1> DEFINE L == Len(channel.pending)
<1>0. given \in Seq(CtlCommand) /\ DOMAIN given = 1 .. n /\ channel.pending \in Seq(Timed)
  BY DEF CtlInvariant, LayerTypes, Channel
<1>1. n \in Nat /\ L \in Nat /\ m \in Nat /\ n = m + L
  <2>1. n \in Nat /\ L \in Nat
    BY <1>0
  <2>2. m \in Nat
    BY DEF CtlInvariant, WaitingIsTheEnd
  <2>3. m = n - L
    BY DEF Overtaken
  <2> QED
    BY <2>1, <2>2, <2>3
<1>2. given # <<>> => Arrived = 1 .. m
  <2> SUFFICES ASSUME given # <<>> PROVE Arrived = 1 .. m
    OBVIOUS
  <2>1. \A i \in 1 .. n : i <= m <=> given[n].at - given[i].at >= Delay \/ (i = 1 /\ begun = NoPosition)
    BY DEF CtlInvariant, WaitingIsTheEnd
  <2>2. \A i \in 1 .. n : i \in Arrived <=> i <= m
    BY <1>0, <2>1 DEF Arrived
  <2>3. Arrived \subseteq 1 .. n
    BY <1>0 DEF Arrived
  <2>4. n \in Nat /\ m \in Nat /\ m <= n
    BY <1>1
  <2> HIDE DEF n, m
  <2>5. \A i \in 1 .. m : i \in 1 .. n /\ i <= m
    BY <2>4
  <2>6. 1 .. m \subseteq Arrived
    BY <2>2, <2>5
  <2>7. \A i \in 1 .. n : i <= m => i \in 1 .. m
    BY <2>4
  <2>8. Arrived \subseteq 1 .. m
    BY <2>2, <2>3, <2>7
  <2> QED
    BY <2>6, <2>8
<1>3. m # 0 => Max(1 .. m) = m
  <2> SUFFICES ASSUME m # 0 PROVE Max(1 .. m) = m
    OBVIOUS
  <2>0. m \in Nat /\ m # 0
    BY <1>1
  <2> HIDE DEF m
  <2>1. (1 .. m) \in SUBSET Int /\ 1 .. m # {} /\ m \in Int /\ m \in 1 .. m /\ \A y \in 1 .. m : y <= m
    BY <2>0
  <2>2. Max(1 .. m) \in 1 .. m /\ \A y \in 1 .. m : y <= Max(1 .. m)
    BY <2>1, GreatestOfInts
  <2> QED
    BY <2>0, <2>1, <2>2
<1>4. DelayIsTheDelay
  <2> SUFFICES ASSUME given # <<>>
               PROVE  /\ channel.delayed = IF Arrived = {} THEN begun ELSE given[Max(Arrived)].value
                      /\ Len(channel.pending) = n - (IF Arrived = {} THEN 0 ELSE Max(Arrived))
    BY DEF DelayIsTheDelay
  <2>1. channel.delayed = IF m = 0 THEN begun ELSE given[m].value
    BY DEF CtlInvariant, WaitingIsTheEnd
  <2>2. Arrived = {} <=> m = 0
    <3>1. m \in Nat /\ Arrived = 1 .. m
      BY <1>1, <1>2
    <3> HIDE DEF m
    <3> QED
      BY <3>1
  <2>3. m # 0 => Max(Arrived) = m
    BY <1>2, <1>3
  <2>4. Len(channel.pending) = n - m
    BY <1>1
  <2> HIDE DEF n, m
  <2> QED
    BY <2>1, <2>2, <2>3, <2>4, <1>1
<1>5. OutputIsSmooth
  <2> SUFFICES ASSUME given # <<>>
               PROVE  /\ before # NoPosition => Distance(channel.out, before) <= SoftLimit
                      /\ Min(CtlSeen) <= channel.out /\ channel.out <= Max(CtlSeen)
                      /\ (~channel.wrist /\ channel.out # channel.delayed) =>
                           Distance(before, channel.delayed) > SoftLimit
    BY DEF OutputIsSmooth, CtlSeen
  <2>1. CtlSeen # {} /\ CtlSeen \subseteq Int /\ IsFiniteSet(CtlSeen)
    <3>1. 1 \in DOMAIN given
      <4>1. n # 0
        BY <1>0
      <4> QED
        BY <1>0, <1>1, <4>1
    <3>2. CtlSeen # {}
      BY <3>1 DEF CtlSeen
    <3>3. \A i \in DOMAIN given : given[i].value \in Int
      <4>1. \A i \in DOMAIN given : given[i] \in CtlCommand
        BY <1>0
      <4> QED
        BY <4>1, CtlAssumption DEF CtlCommand
    <3>4. begun \in Int \cup {NoPosition}
      BY CtlAssumption DEF CtlInvariant, LayerTypes
    <3>5. CtlSeen \subseteq Int
      BY <3>3, <3>4 DEF CtlSeen
    <3>6. IsFiniteSet({given[i].value : i \in DOMAIN given})
      <4>1. IsFiniteSet(1 .. n)
        BY <1>1, FS_Interval
      <4> DEFINE f == [i \in 1 .. n |-> given[i].value]
                 V == {given[i].value : i \in DOMAIN given}
      <4>2. f \in Surjection(1 .. n, V)
        BY <1>0 DEF Surjection
      <4> HIDE DEF f, V
      <4>3. IsFiniteSet(V)
        BY <4>1, <4>2, FS_Surjection
      <4> QED
        BY <4>3 DEF V
    <3>7. IsFiniteSet({begun} \ {NoPosition})
      BY FS_Singleton, FS_Subset
    <3>8. IsFiniteSet(CtlSeen)
      BY <3>6, <3>7, FS_Union DEF CtlSeen
    <3> QED
      BY <3>2, <3>5, <3>8
  <2>2. /\ Min(CtlSeen) \in CtlSeen /\ \A y \in CtlSeen : Min(CtlSeen) <= y
        /\ Max(CtlSeen) \in CtlSeen /\ \A y \in CtlSeen : y <= Max(CtlSeen)
    BY <2>1, EndsOfFinite
  <2>3. PICK lo, hi \in CtlSeen : lo <= channel.out /\ channel.out <= hi
    BY <2>1 DEF CtlInvariant, OutputBetween, Amid
  <2>4. channel.out \in Int
    BY CtlAssumption DEF CtlInvariant, OutputBetween, LayerTypes
  <2>5. Min(CtlSeen) <= channel.out /\ channel.out <= Max(CtlSeen)
    <3>1. Min(CtlSeen) \in Int /\ Max(CtlSeen) \in Int /\ lo \in Int /\ hi \in Int
          /\ Min(CtlSeen) <= lo /\ hi <= Max(CtlSeen)
      BY <2>1, <2>2, <2>3
    <3> HIDE DEF CtlSeen
    <3> QED
      BY <2>3, <2>4, <3>1
  <2> QED
    BY <2>5 DEF CtlInvariant, OutputBetween
<1>6. CtlTypeOK
  <2>1. channel.wrist \in BOOLEAN
    BY DEF CtlInvariant, LayerTypes, Channel
  <2>2. Len(channel.pending) <= n
    BY <1>1
  <2> QED
    BY <2>1, <2>2 DEF CtlTypeOK, CtlInvariant, LayerTypes
<1> QED
  BY <1>4, <1>5, <1>6 DEF LayerHonest

-----------------------------------------------------------------------------
(***************************************************************************)
(* The comparison of policies.                                             *)
(***************************************************************************)
Wish == [wish : Wishes, of : Nat]
RollRecord == [kind : {"REJECT", "STEP"}, safe : Int, applied : Int, of : Nat]
Ending == {"safety_reject", "exhausted"}

\* What MuJoCo may be given at step i: the position the layer began from and the commands
\* since that are as old as the delay.
WithinDelay(from, log, i) ==
  {from.pose} \cup {log[k].safe : k \in {k \in from.step .. i : i - k >= Delay}}

RollTypes ==
  /\ rollout \in Nat /\ rollout <= Rollouts /\ track \in {"primary", "synthetic"}
  /\ rollAt \in {"between", "running", "ended", "raised"}
  /\ chunkLeft \in Seq(Wish) /\ predicted \in Nat /\ joint \in Int
  /\ layer \in Channel /\ layer.delayed \in Int /\ layer.out \in Int
  /\ origin \in [pose : Int, step : Nat \ {0}]
  /\ records \in Seq(RollRecord) /\ rows \in Seq(Ending)

RollCounts ==
  /\ Len(chunkLeft) <= ChunkLength
  /\ track = "primary" =>
       predicted <= Chunks /\ Len(records) + Len(chunkLeft) <= predicted * ChunkLength
  /\ track = "synthetic" => Len(records) <= RollSteps
  /\ \A i \in 1 .. Len(chunkLeft) : chunkLeft[i].of = rollout

RowsFit ==
  /\ rollAt \in {"between", "ended"} => Len(rows) = rollout
  /\ rollAt \in {"running", "raised"} =>
       /\ Len(rows) + 1 = rollout
       /\ \A i \in 1 .. Len(records) : records[i].kind = "STEP"
  /\ rollAt = "ended" => rollout = Rollouts
  /\ \A i \in 1 .. Len(records) : records[i].kind = "REJECT" => i = Len(records)
  /\ rollAt = "between" /\ rollout > 0 =>
       (rows[rollout] = "safety_reject" <=>
          records # <<>> /\ records[Len(records)].kind = "REJECT")

\* What the layer keeps comes from the commands since it was reset.
LayerIsOwn ==
  /\ origin.step <= Len(records) + 1
  /\ InOrder(layer.pending)
  /\ \A i \in 1 .. Len(layer.pending) :
       \E k \in origin.step .. Len(records) :
         layer.pending[i].at = k - 1 /\ layer.pending[i].value = records[k].safe
  /\ layer.delayed \in WithinDelay(origin, records, Len(records))
  /\ Amid(layer.out, WithinDelay(origin, records, Len(records)))
  /\ \A i \in origin.step .. Len(records) :
       records[i].kind = "STEP" =>
         records[i].of = rollout /\ Amid(records[i].applied, WithinDelay(origin, records, i))

RollInvariant == RollTypes /\ RollCounts /\ RowsFit /\ LayerIsOwn

LEMMA NothingLeft ==
  <<>> \in Seq(Wish) /\ <<>> \in Seq(RollRecord) /\ <<>> \in Seq(Ending) /\ Len(<<>>) = 0
<1> DEFINE A == Wish
           B == RollRecord
           C == Ending
<1> HIDE DEF A, B, C
<1>1. <<>> \in Seq(A) /\ <<>> \in Seq(B) /\ <<>> \in Seq(C)
  OBVIOUS
<1> QED
  BY <1>1 DEF A, B, C

\* A layer that was just reset.
LEMMA FreshIsOwn ==
  ASSUME NEW pose \in Int, NEW log \in Seq(RollRecord), NEW from,
         from = [pose |-> pose, step |-> Len(log) + 1]
  PROVE  /\ from \in [pose : Int, step : Nat \ {0}] /\ from.pose = pose /\ from.step = Len(log) + 1
         /\ WithinDelay(from, log, Len(log)) = {pose}
         /\ from.step .. Len(log) = {}
<1>1. Len(log) \in Nat
  OBVIOUS
<1>2. from.pose = pose /\ from.step = Len(log) + 1 /\ from \in [pose : Int, step : Nat \ {0}]
  BY <1>1
<1>3. from.step .. Len(log) = {}
  BY <1>1, <1>2
<1> QED
  BY <1>2, <1>3 DEF WithinDelay

LEMMA EmptiedIs ==
  ASSUME NEW pose \in Int
  PROVE  /\ Emptied(FALSE, pose) \in Channel /\ Emptied(FALSE, pose).pending = <<>>
         /\ Emptied(FALSE, pose).delayed = pose /\ Emptied(FALSE, pose).out = pose
BY NoCommands DEF Emptied, Channel

LEMMA RollBegins == RollInit => RollInvariant
<1> SUFFICES ASSUME RollInit PROVE RollInvariant
  OBVIOUS
<1>1. /\ rollout = 0 /\ track = "primary" /\ rollAt = "between" /\ chunkLeft = <<>> /\ predicted = 0
      /\ joint \in Int /\ layer = Emptied(FALSE, joint) /\ origin = [pose |-> joint, step |-> 1]
      /\ records = <<>> /\ rows = <<>>
  BY RolloutAssumption DEF RollInit
<1>2. Len(records) = 0 /\ Len(chunkLeft) = 0 /\ Len(rows) = 0 /\ records \in Seq(RollRecord)
      /\ chunkLeft \in Seq(Wish) /\ rows \in Seq(Ending)
  BY <1>1, NothingLeft
<1>3. layer \in Channel /\ layer.pending = <<>> /\ layer.delayed = joint /\ layer.out = joint
  BY <1>1, EmptiedIs
<1>4. origin = [pose |-> joint, step |-> Len(records) + 1]
  BY <1>1, <1>2
<1>5. /\ origin \in [pose : Int, step : Nat \ {0}] /\ origin.step = Len(records) + 1
      /\ WithinDelay(origin, records, Len(records)) = {joint} /\ origin.step .. Len(records) = {}
  BY <1>1, <1>2, <1>4, FreshIsOwn
<1>6. {Rollouts, Chunks, ChunkLength, RollSteps} \subseteq Nat
  BY RolloutAssumption
<1>7. RollTypes
  <2>1. rollout \in Nat /\ rollout <= Rollouts /\ predicted \in Nat
    BY <1>1, <1>6
  <2> QED
    BY <1>1, <1>2, <1>3, <1>5, <2>1 DEF RollTypes
<1>8. RollCounts
  <2>1. 0 <= ChunkLength /\ 0 <= Chunks /\ 0 + 0 <= 0 * ChunkLength
    BY <1>6
  <2> QED
    BY <1>1, <1>2, <2>1 DEF RollCounts
<1>9. RowsFit
  BY <1>1, <1>2 DEF RowsFit
<1>10. LayerIsOwn
  <2>1. Len(layer.pending) = 0 /\ InOrder(layer.pending) /\ origin.step <= Len(records) + 1
    BY <1>2, <1>3, <1>5 DEF InOrder
  <2>2. Amid(joint, {joint})
    BY <1>1 DEF Amid
  <2> QED
    BY <1>3, <1>5, <2>1, <2>2 DEF LayerIsOwn
<1> QED
  BY <1>7, <1>8, <1>9, <1>10 DEF RollInvariant

\* The joint is put somewhere and the layer with it.
LEMMA SynchronisedIsOwn ==
  ASSUME NEW pose \in Poses, Synchronised(pose), records' \in Seq(RollRecord)
  PROVE  /\ joint' \in Int /\ layer' \in Channel /\ layer'.delayed \in Int /\ layer'.out \in Int
         /\ origin' \in [pose : Int, step : Nat \ {0}]
         /\ LayerIsOwn'
<1>1. pose \in Int
  BY RolloutAssumption
<1>2. layer' = Emptied(FALSE, pose) /\ joint' = pose /\ origin' = [pose |-> pose, step |-> Len(records') + 1]
  BY DEF Synchronised
<1>3. layer' \in Channel /\ layer'.pending = <<>> /\ layer'.delayed = pose /\ layer'.out = pose
  BY <1>1, <1>2, EmptiedIs
<1>4. /\ origin' \in [pose : Int, step : Nat \ {0}] /\ origin'.step = Len(records') + 1
      /\ WithinDelay(origin', records', Len(records')) = {pose} /\ origin'.step .. Len(records') = {}
  BY <1>1, <1>2, FreshIsOwn
<1>5. LayerIsOwn'
  <2>1. Len(layer'.pending) = 0 /\ InOrder(layer'.pending) /\ origin'.step <= Len(records') + 1
    <3>1. Len(records') \in Nat
      OBVIOUS
    <3>2. Len(layer'.pending) = 0 /\ InOrder(layer'.pending)
      BY <1>3 DEF InOrder
    <3> QED
      BY <1>4, <3>1, <3>2
  <2>2. Amid(pose, {pose})
    BY <1>1 DEF Amid
  <2>3. pose \in {pose}
    OBVIOUS
  <2> QED
    BY <1>3, <1>4, <2>1, <2>2, <2>3 DEF LayerIsOwn
<1> QED
  BY <1>1, <1>2, <1>3, <1>4, <1>5

LEMMA RollBeginsOne ==
  ASSUME RollInvariant, BeginRollout
  PROVE  RollInvariant'
<1>1. PICK pose \in Poses : Synchronised(pose)
  BY DEF BeginRollout
<1>2. /\ rollAt = "between" /\ rollout < Rollouts /\ rollout' = rollout + 1 /\ rollAt' = "running"
      /\ predicted' = 0 /\ records' = <<>> /\ track' \in {"primary", "synthetic"} /\ chunkLeft' = <<>>
      /\ rows' = rows
  BY DEF BeginRollout
<1>3. Len(records') = 0 /\ Len(chunkLeft') = 0 /\ records' \in Seq(RollRecord) /\ chunkLeft' \in Seq(Wish)
  BY <1>2, NothingLeft
<1>4. /\ joint' \in Int /\ layer' \in Channel /\ layer'.delayed \in Int /\ layer'.out \in Int
      /\ origin' \in [pose : Int, step : Nat \ {0}] /\ LayerIsOwn'
  BY <1>1, <1>3, SynchronisedIsOwn
<1>5. {Rollouts, Chunks, ChunkLength, RollSteps} \subseteq Nat /\ rollout \in Nat
  BY RolloutAssumption DEF RollInvariant, RollTypes
<1>6. rollout' \in Nat /\ rollout' <= Rollouts
  BY <1>2, <1>5
<1>7. RollTypes'
  <2>1. rows \in Seq(Ending)
    BY DEF RollInvariant, RollTypes
  <2> QED
    BY <1>2, <1>3, <1>4, <1>5, <1>6, <2>1 DEF RollTypes
<1>8. RollCounts'
  <2>1. 0 <= ChunkLength /\ 0 <= Chunks /\ 0 <= RollSteps /\ 0 + 0 <= 0 * ChunkLength
    BY <1>5
  <2> QED
    BY <1>2, <1>3, <2>1 DEF RollCounts
<1>9. RowsFit'
  <2>1. Len(rows) = rollout
    BY <1>2 DEF RollInvariant, RowsFit
  <2>2. Len(rows') + 1 = rollout'
    BY <1>2, <2>1
  <2> QED
    BY <1>2, <1>3, <2>2 DEF RowsFit
<1> QED
  BY <1>4, <1>7, <1>8, <1>9 DEF RollInvariant

\* A chunk of this rollout.
LEMMA ChunkIs ==
  ASSUME NEW c \in Chunk, rollout \in Nat
  PROVE  c \in Seq(Wish) /\ Len(c) = ChunkLength /\ \A i \in 1 .. Len(c) : c[i].of = rollout
<1>1. PICK f \in [1 .. ChunkLength -> Wishes] : c = [i \in 1 .. ChunkLength |-> [wish |-> f[i], of |-> rollout]]
  BY DEF Chunk
<1>2. ChunkLength \in Nat
  BY RolloutAssumption
<1>3. \A i \in 1 .. ChunkLength : c[i] = [wish |-> f[i], of |-> rollout]
  BY <1>1
<1>4. \A i \in 1 .. ChunkLength : c[i] \in Wish /\ c[i].of = rollout
  <2> SUFFICES ASSUME NEW i \in 1 .. ChunkLength PROVE c[i] \in Wish /\ c[i].of = rollout
    OBVIOUS
  <2>1. f[i] \in Wishes
    OBVIOUS
  <2>2. c[i] = [wish |-> f[i], of |-> rollout]
    BY <1>3
  <2> QED
    BY <2>1, <2>2 DEF Wish
<1>5. DOMAIN c = 1 .. ChunkLength
  BY <1>1
<1>6. c \in [1 .. ChunkLength -> Wish]
  <2>1. c = [i \in 1 .. ChunkLength |-> c[i]]
    BY <1>1
  <2> QED
    BY <1>4, <2>1
<1> DEFINE A == Wish
<1> HIDE DEF A
<1>7. \A n \in Nat : \A g \in [1 .. n -> A] : g \in Seq(A) /\ Len(g) = n
  OBVIOUS
<1>8. c \in Seq(Wish) /\ Len(c) = ChunkLength
  BY <1>2, <1>6, <1>7 DEF A
<1> QED
  BY <1>4, <1>8

LEMMA RollGetsChunk ==
  ASSUME RollInvariant, NextFrame \/ Refill
  PROVE  RollInvariant'
<1>1. /\ rollAt = "running" /\ chunkLeft = <<>> /\ chunkLeft' \in Chunk /\ predicted' = predicted + 1
      /\ UNCHANGED <<rollout, track, rollAt, records, rows>>
      /\ track = "primary" => predicted < Chunks
      /\ track = "primary" => \E pose \in Poses : Synchronised(pose)
      /\ track = "synthetic" => UNCHANGED <<joint, layer, origin>>
  BY DEF NextFrame, Refill
<1>2. /\ rollout \in Nat /\ predicted \in Nat /\ records \in Seq(RollRecord) /\ Len(records) \in Nat
      /\ track \in {"primary", "synthetic"} /\ {Chunks, ChunkLength, RollSteps} \subseteq Nat
  BY RolloutAssumption DEF RollInvariant, RollTypes
<1>3. chunkLeft' \in Seq(Wish) /\ Len(chunkLeft') = ChunkLength
      /\ \A i \in 1 .. Len(chunkLeft') : chunkLeft'[i].of = rollout
  BY <1>1, <1>2, ChunkIs
<1>4. /\ joint' \in Int /\ layer' \in Channel /\ layer'.delayed \in Int /\ layer'.out \in Int
      /\ origin' \in [pose : Int, step : Nat \ {0}] /\ LayerIsOwn'
  <2>1. CASE track = "primary"
    <3>1. PICK pose \in Poses : Synchronised(pose)
      BY <1>1, <2>1
    <3>2. records' \in Seq(RollRecord)
      BY <1>1, <1>2
    <3> QED
      BY <3>1, <3>2, SynchronisedIsOwn
  <2>2. CASE track = "synthetic"
    <3>1. UNCHANGED <<joint, layer, origin, records, rollout>>
      BY <1>1, <2>2
    <3>2. LayerIsOwn'
      BY <3>1 DEF RollInvariant, LayerIsOwn
    <3> QED
      BY <3>1, <3>2 DEF RollInvariant, RollTypes
  <2> QED
    BY <1>2, <2>1, <2>2
<1>5. RollTypes'
  <2>1. predicted' \in Nat
    BY <1>1, <1>2
  <2> QED
    BY <1>1, <1>3, <1>4, <2>1 DEF RollInvariant, RollTypes
<1>6. RollCounts'
  <2>1. ChunkLength <= ChunkLength
    BY <1>2
  <2>2. track = "primary" => predicted' <= Chunks /\ Len(records) + ChunkLength <= predicted' * ChunkLength
    <3> SUFFICES ASSUME track = "primary"
                 PROVE  predicted' <= Chunks /\ Len(records) + ChunkLength <= predicted' * ChunkLength
      OBVIOUS
    <3>1. Len(chunkLeft) = 0 /\ Len(records) + Len(chunkLeft) <= predicted * ChunkLength
      BY <1>1 DEF RollInvariant, RollCounts
    <3>2. predicted * ChunkLength \in Nat /\ (predicted + 1) * ChunkLength = predicted * ChunkLength + ChunkLength
      BY <1>2
    <3>3. Len(records) <= predicted * ChunkLength
      BY <1>2, <3>1, <3>2
    <3> DEFINE product == predicted * ChunkLength
    <3> HIDE DEF product
    <3>4. Len(records) + ChunkLength <= product + ChunkLength
      BY <1>2, <3>2, <3>3 DEF product
    <3> QED
      BY <1>1, <1>2, <3>2, <3>4 DEF product
  <2>3. track = "synthetic" => Len(records) <= RollSteps
    BY DEF RollInvariant, RollCounts
  <2> QED
    BY <1>1, <1>3, <2>1, <2>2, <2>3 DEF RollCounts
<1>7. RowsFit'
  BY <1>1 DEF RollInvariant, RowsFit
<1> QED
  BY <1>4, <1>5, <1>6, <1>7 DEF RollInvariant

\* Nothing happens but the end.
LEMMA RollEnds ==
  ASSUME RollInvariant, EndRollout \/ WriteTables \/ RolloutRaises
  PROVE  RollInvariant'
<1>1. UNCHANGED <<rollout, track, chunkLeft, predicted, joint, layer, origin, records>>
  BY DEF EndRollout, WriteTables, RolloutRaises
<1>2. \/ rollAt = "running" /\ rollAt' = "between" /\ rows' = Append(rows, "exhausted")
      \/ rollAt = "between" /\ rollAt' = "ended" /\ rows' = rows /\ rollout = Rollouts
      \/ rollAt = "running" /\ rollAt' = "raised" /\ rows' = rows
  BY DEF EndRollout, WriteTables, RolloutRaises
<1>3. rows \in Seq(Ending) /\ "exhausted" \in Ending /\ rollout \in Nat /\ Len(rows) \in Nat
  BY DEF RollInvariant, RollTypes, Ending
<1>4. rows' \in Seq(Ending) /\ rollAt' \in {"between", "ended", "raised"}
  BY <1>2, <1>3
<1>5. RollTypes'
  BY <1>1, <1>4 DEF RollInvariant, RollTypes
<1>6. RollCounts' /\ LayerIsOwn'
  BY <1>1 DEF RollInvariant, RollCounts, LayerIsOwn
<1>7. RowsFit'
  <2>1. CASE rollAt = "running" /\ rollAt' = "between" /\ rows' = Append(rows, "exhausted")
    <3>1. Len(rows') = Len(rows) + 1 /\ rows'[Len(rows) + 1] = "exhausted"
      BY <1>3, <2>1
    <3>2. Len(rows) + 1 = rollout /\ \A i \in 1 .. Len(records) : records[i].kind = "STEP"
      BY <2>1 DEF RollInvariant, RowsFit
    <3>3. records # <<>> => records[Len(records)].kind # "REJECT"
      <4>1. records \in Seq(RollRecord)
        BY DEF RollInvariant, RollTypes
      <4>2. records # <<>> => Len(records) \in 1 .. Len(records)
        BY <4>1
      <4> QED
        BY <3>2, <4>2
    <3>4. rows'[rollout] = "exhausted" /\ Len(rows') = rollout
      BY <3>1, <3>2
    <3> QED
      BY <1>1, <2>1, <3>2, <3>3, <3>4 DEF RowsFit
  <2>2. CASE rollAt = "between" /\ rollAt' = "ended" /\ rows' = rows /\ rollout = Rollouts
    BY <1>1, <2>2 DEF RollInvariant, RowsFit
  <2>3. CASE rollAt = "running" /\ rollAt' = "raised" /\ rows' = rows
    BY <1>1, <2>3 DEF RollInvariant, RowsFit
  <2> QED
    BY <1>2, <2>1, <2>2, <2>3
<1> QED
  BY <1>5, <1>6, <1>7 DEF RollInvariant

\* What is due grows with the log.
LEMMA DueGrows ==
  ASSUME NEW from \in [pose : Int, step : Nat \ {0}], NEW log \in Seq(RollRecord), NEW r \in RollRecord
  PROVE  /\ \A i \in from.step .. Len(log) : WithinDelay(from, Append(log, r), i) = WithinDelay(from, log, i)
         /\ WithinDelay(from, log, Len(log)) \subseteq WithinDelay(from, Append(log, r), Len(log) + 1)
         /\ \A i \in Nat : i <= Len(log) => WithinDelay(from, log, i) \subseteq Int
<1> DEFINE more == Append(log, r)
<1>1. Len(log) \in Nat /\ \A k \in 1 .. Len(log) : more[k] = log[k]
  OBVIOUS
<1>2. from.step \in Nat /\ from.step >= 1 /\ from.pose \in Int
  OBVIOUS
<1>3. \A k \in from.step .. Len(log) : more[k].safe = log[k].safe /\ log[k].safe \in Int
  <2> SUFFICES ASSUME NEW k \in from.step .. Len(log) PROVE more[k].safe = log[k].safe /\ log[k].safe \in Int
    OBVIOUS
  <2>1. k \in 1 .. Len(log)
    BY <1>1, <1>2
  <2>2. log[k] \in RollRecord
    BY <2>1
  <2> QED
    BY <1>1, <2>1, <2>2 DEF RollRecord
<1> HIDE DEF more
<1>4. ASSUME NEW i \in from.step .. Len(log) PROVE WithinDelay(from, more, i) = WithinDelay(from, log, i)
  <2>1. \A k \in {k \in from.step .. i : i - k >= Delay} : more[k].safe = log[k].safe
    BY <1>1, <1>2, <1>3
  <2> QED
    BY <2>1 DEF WithinDelay
<1>5. Delay \in Nat
  BY CtlAssumption
<1>6. WithinDelay(from, log, Len(log)) \subseteq WithinDelay(from, more, Len(log) + 1)
  <2> SUFFICES ASSUME NEW k \in from.step .. Len(log), Len(log) - k >= Delay
               PROVE  log[k].safe \in WithinDelay(from, more, Len(log) + 1)
    BY DEF WithinDelay
  <2>1. k \in from.step .. Len(log) + 1 /\ (Len(log) + 1) - k >= Delay
    BY <1>1, <1>2, <1>5
  <2> QED
    BY <1>3, <2>1 DEF WithinDelay
<1>7. ASSUME NEW i \in Nat, i <= Len(log) PROVE WithinDelay(from, log, i) \subseteq Int
  <2>1. \A k \in {k \in from.step .. i : i - k >= Delay} : log[k].safe \in Int
    BY <1>1, <1>2, <1>3, <1>7
  <2> QED
    BY <1>2, <2>1 DEF WithinDelay
<1> QED
  BY <1>4, <1>6, <1>7 DEF more

LEMMA AmidBetween ==
  ASSUME NEW S \in SUBSET Int, NEW a \in Int, Amid(a, S), NEW b \in S, NEW x \in Int, Between(x, a, b)
  PROVE  Amid(x, S)
<1>1. PICK lo, hi \in S : lo <= a /\ a <= hi
  BY DEF Amid
<1>2. lo \in Int /\ hi \in Int /\ b \in Int
  OBVIOUS
<1>3. CASE a <= x /\ x <= b
  <2>1. lo <= x
    BY <1>1, <1>2, <1>3
  <2> QED
    BY <1>3, <2>1 DEF Amid
<1>4. CASE b <= x /\ x <= a
  <2>1. x <= hi
    BY <1>1, <1>2, <1>4
  <2> QED
    BY <1>4, <2>1 DEF Amid
<1> QED
  BY <1>3, <1>4 DEF Between

\* A step of a rollout, as far as the counts go.
LEMMA RollStepCounts ==
  ASSUME RollInvariant, RollStep
  PROVE  /\ chunkLeft # <<>> /\ chunkLeft' = Tail(chunkLeft) /\ chunkLeft' \in Seq(Wish)
         /\ Head(chunkLeft) \in Wish /\ Head(chunkLeft).of = rollout
         /\ Len(records') = Len(records) + 1 => RollCounts'
<1>1. /\ rollAt = "running" /\ chunkLeft # <<>> /\ ~Exhausted /\ chunkLeft' = Tail(chunkLeft)
      /\ UNCHANGED <<rollout, track, predicted, origin>>
  BY DEF RollStep
<1>2. /\ chunkLeft \in Seq(Wish) /\ records \in Seq(RollRecord) /\ predicted \in Nat
      /\ Len(records) \in Nat /\ Len(chunkLeft) \in Nat /\ {Chunks, ChunkLength, RollSteps} \subseteq Nat
  BY RolloutAssumption DEF RollInvariant, RollTypes
<1>3. /\ Len(chunkLeft) >= 1 /\ chunkLeft' \in Seq(Wish) /\ Len(chunkLeft') = Len(chunkLeft) - 1
      /\ Head(chunkLeft) = chunkLeft[1] /\ Head(chunkLeft) \in Wish
      /\ \A i \in 1 .. Len(chunkLeft) - 1 : chunkLeft'[i] = chunkLeft[i + 1]
  BY <1>1, <1>2
<1>4. Head(chunkLeft).of = rollout
  <2>1. 1 \in 1 .. Len(chunkLeft)
    BY <1>2, <1>3
  <2> QED
    BY <1>3, <2>1 DEF RollInvariant, RollCounts
<1>5. ASSUME Len(records') = Len(records) + 1 PROVE RollCounts'
  <2>1. Len(chunkLeft') <= ChunkLength
    <3>1. Len(chunkLeft) <= ChunkLength
      BY DEF RollInvariant, RollCounts
    <3> QED
      BY <1>2, <1>3, <3>1
  <2>2. track = "primary" => predicted <= Chunks /\ Len(records') + Len(chunkLeft') <= predicted * ChunkLength
    <3>1. track = "primary" => predicted <= Chunks /\ Len(records) + Len(chunkLeft) <= predicted * ChunkLength
      BY DEF RollInvariant, RollCounts
    <3>2. Len(records') + Len(chunkLeft') = Len(records) + Len(chunkLeft)
      BY <1>2, <1>3, <1>5
    <3> QED
      BY <3>1, <3>2
  <2>3. track = "synthetic" => Len(records') <= RollSteps
    <3>1. track = "synthetic" => Len(records) <= RollSteps /\ Len(records) # RollSteps
      BY <1>1 DEF RollInvariant, RollCounts, Exhausted
    <3> QED
      BY <1>2, <1>5, <3>1
  <2>4. \A i \in 1 .. Len(chunkLeft') : chunkLeft'[i].of = rollout
    <3> SUFFICES ASSUME NEW i \in 1 .. Len(chunkLeft') PROVE chunkLeft'[i].of = rollout
      OBVIOUS
    <3>1. i \in 1 .. Len(chunkLeft) - 1 /\ i + 1 \in 1 .. Len(chunkLeft)
      BY <1>2, <1>3
    <3> QED
      BY <1>3, <3>1 DEF RollInvariant, RollCounts
  <2> QED
    BY <1>1, <2>1, <2>2, <2>3, <2>4 DEF RollCounts
<1> QED
  BY <1>1, <1>3, <1>4, <1>5

LEMMA RollRejects ==
  ASSUME RollInvariant, RollStep, JointSafety(Head(chunkLeft).wish, joint).rejected
  PROVE  RollInvariant'
<1> DEFINE r == [kind |-> "REJECT", safe |-> joint, applied |-> joint, of |-> Head(chunkLeft).of]
           n == Len(records)
<1>1. /\ rollAt = "running" /\ records' = Append(records, r) /\ rows' = Append(rows, "safety_reject")
      /\ rollAt' = "between" /\ UNCHANGED <<joint, layer, rollout, track, predicted, origin>>
  BY DEF RollStep
<1>2. /\ chunkLeft' \in Seq(Wish) /\ Head(chunkLeft) \in Wish
      /\ (Len(records') = Len(records) + 1 => RollCounts')
  BY RollStepCounts
<1>3. /\ records \in Seq(RollRecord) /\ n \in Nat /\ joint \in Int /\ rows \in Seq(Ending) /\ rollout \in Nat
      /\ origin \in [pose : Int, step : Nat \ {0}] /\ "safety_reject" \in Ending /\ Len(rows) \in Nat
  BY DEF RollInvariant, RollTypes, Ending
<1>4. r \in RollRecord /\ r.kind = "REJECT"
  BY <1>2, <1>3 DEF RollRecord, Wish
<1> HIDE DEF r
<1>5. /\ records' \in Seq(RollRecord) /\ Len(records') = n + 1 /\ records'[n + 1] = r
      /\ \A i \in 1 .. n : records'[i] = records[i]
  BY <1>1, <1>3, <1>4
<1>6. /\ rows' \in Seq(Ending) /\ Len(rows') = Len(rows) + 1 /\ rows'[Len(rows) + 1] = "safety_reject"
  BY <1>1, <1>3
<1>7. RollTypes'
  BY <1>1, <1>2, <1>5, <1>6 DEF RollInvariant, RollTypes
<1>8. RollCounts'
  BY <1>2, <1>5
<1>9. RowsFit'
  <2>1. Len(rows) + 1 = rollout /\ \A i \in 1 .. n : records[i].kind = "STEP"
    BY <1>1 DEF RollInvariant, RowsFit
  <2>2. \A i \in 1 .. n + 1 : records'[i].kind = "REJECT" => i = n + 1
    <3>1. \A i \in 1 .. n + 1 : i \in 1 .. n \/ i = n + 1
      BY <1>3
    <3> HIDE DEF n
    <3> QED
      BY <1>5, <2>1, <3>1
  <2>3. records' # <<>>
    BY <1>3, <1>5
  <2> QED
    BY <1>1, <1>4, <1>5, <1>6, <2>1, <2>2, <2>3 DEF RowsFit
<1>10. LayerIsOwn'
  <2>1. /\ \A i \in origin.step .. n : WithinDelay(origin, records', i) = WithinDelay(origin, records, i)
        /\ WithinDelay(origin, records, n) \subseteq WithinDelay(origin, records', n + 1)
    BY <1>1, <1>3, <1>4, DueGrows
  <2>2. origin.step \in Nat /\ origin.step >= 1
    BY <1>3
  <2>3. origin.step <= n + 1 /\ layer.delayed \in WithinDelay(origin, records, n) /\ Amid(layer.out, WithinDelay(origin, records, n))
        /\ InOrder(layer.pending)
    BY DEF RollInvariant, LayerIsOwn
  <2>4. origin.step <= (n + 1) + 1
    BY <1>3, <2>2, <2>3
  <2>5. layer.delayed \in WithinDelay(origin, records', n + 1) /\ Amid(layer.out, WithinDelay(origin, records', n + 1))
    BY <2>1, <2>3 DEF Amid
  <2>6. \A k \in origin.step .. n : k \in origin.step .. n + 1 /\ k \in 1 .. n
    BY <1>3, <2>2
  <2>7. \A i \in 1 .. Len(layer.pending) :
          \E k \in origin.step .. n + 1 :
            layer.pending[i].at = k - 1 /\ layer.pending[i].value = records'[k].safe
    <3> SUFFICES ASSUME NEW i \in 1 .. Len(layer.pending)
                 PROVE  \E k \in origin.step .. n + 1 :
                          layer.pending[i].at = k - 1 /\ layer.pending[i].value = records'[k].safe
      OBVIOUS
    <3>1. PICK k \in origin.step .. n : layer.pending[i].at = k - 1 /\ layer.pending[i].value = records[k].safe
      BY DEF RollInvariant, LayerIsOwn
    <3> QED
      BY <1>5, <2>6, <3>1
  <2>8. ASSUME NEW i \in origin.step .. n + 1, records'[i].kind = "STEP"
        PROVE  records'[i].of = rollout /\ Amid(records'[i].applied, WithinDelay(origin, records', i))
    <3>1. i \in origin.step .. n \/ i = n + 1
      BY <1>3, <2>2
    <3>2. i # n + 1
      BY <1>4, <1>5, <2>8
    <3>3. i \in origin.step .. n
      BY <3>1, <3>2
    <3>4. records'[i] = records[i] /\ WithinDelay(origin, records', i) = WithinDelay(origin, records, i)
      BY <1>5, <2>1, <2>6, <3>3
    <3> QED
      BY <2>8, <3>3, <3>4 DEF RollInvariant, LayerIsOwn
  <2> HIDE DEF n
  <2> QED
    BY <1>1, <1>5, <2>3, <2>4, <2>5, <2>7, <2>8 DEF LayerIsOwn
<1> QED
  BY <1>7, <1>8, <1>9, <1>10 DEF RollInvariant

LEMMA RollExecutes ==
  ASSUME RollInvariant, RollStep, ~JointSafety(Head(chunkLeft).wish, joint).rejected
  PROVE  RollInvariant'
<1> DEFINE safe == JointSafety(Head(chunkLeft).wish, joint).safe
           n == Len(records)
           r == [kind |-> "STEP", safe |-> safe, applied |-> layer'.out, of |-> Head(chunkLeft).of]
           queue == Append(layer.pending, [at |-> n, value |-> safe])
           L == Len(layer.pending)
<1>1. /\ rollAt = "running" /\ layer' = Processed(layer, safe, n, joint) /\ joint' \in {joint, layer'.out}
      /\ records' = Append(records, r) /\ UNCHANGED <<rows, rollAt, rollout, track, predicted, origin>>
  BY DEF RollStep
<1>2. /\ chunkLeft' \in Seq(Wish) /\ Head(chunkLeft) \in Wish /\ Head(chunkLeft).of = rollout
      /\ (Len(records') = Len(records) + 1 => RollCounts')
  BY RollStepCounts
<1>3. /\ records \in Seq(RollRecord) /\ n \in Nat /\ joint \in Int /\ rollout \in Nat
      /\ origin \in [pose : Int, step : Nat \ {0}] /\ layer \in Channel /\ layer.delayed \in Int
      /\ layer.out \in Int /\ layer.pending \in Seq(Timed) /\ Delay \in Nat /\ NoPosition \notin Int
  BY CtlAssumption DEF RollInvariant, RollTypes, Channel
<1>31. L \in Nat
  BY <1>3
<1>32. origin.step \in Nat /\ origin.step >= 1 /\ origin.step <= n + 1
  BY <1>3 DEF RollInvariant, LayerIsOwn
<1>4. safe \in Int
  <2>1. Head(chunkLeft).wish \in Int
    BY <1>2, RolloutAssumption DEF Wish
  <2> QED
    BY <1>3, <2>1, JointAtGate
<1> HIDE DEF safe
<1>5. [at |-> n, value |-> safe] \in Timed
  BY <1>3, <1>4 DEF Timed
<1>6. /\ queue \in Seq(Timed) /\ Len(queue) = L + 1 /\ queue[L + 1] = [at |-> n, value |-> safe]
      /\ \A i \in 1 .. L : queue[i] = layer.pending[i]
  BY <1>3, <1>5
<1>7. \A i \in 1 .. L : \E k \in origin.step .. n :
        layer.pending[i].at = k - 1 /\ layer.pending[i].value = records[k].safe
  BY DEF RollInvariant, LayerIsOwn
<1>8. InOrder(queue)
  <2> HIDE DEF queue
  <2> SUFFICES ASSUME NEW i \in 1 .. Len(queue), NEW k \in 1 .. Len(queue), i <= k
               PROVE  queue[i].at <= queue[k].at
    BY DEF InOrder
  <2>1. i \in 1 .. L + 1 /\ k \in 1 .. L + 1
    BY <1>6
  <2>2. \A j \in 1 .. L + 1 : j \in 1 .. L \/ j = L + 1
    BY <1>31
  <2>3. CASE k \in 1 .. L
    <3>1. i \in 1 .. L
      BY <1>31, <2>1, <2>3
    <3> QED
      BY <1>6, <2>3, <3>1 DEF RollInvariant, LayerIsOwn, InOrder
  <2>4. CASE k = L + 1 /\ i \in 1 .. L
    <3>1. PICK j \in origin.step .. n : layer.pending[i].at = j - 1
      BY <1>7, <2>4
    <3>2. j - 1 <= n
      BY <1>3, <1>32
    <3> QED
      BY <1>6, <2>4, <3>1, <3>2
  <2>5. CASE k = L + 1 /\ i = L + 1
    BY <1>3, <1>6, <2>5
  <2> QED
    BY <2>1, <2>2, <2>3, <2>4, <2>5
<1>9. /\ layer' \in Channel /\ layer'.delayed \in Int /\ layer'.out \in Int
      /\ \E ready \in 0 .. Len(queue) :
           /\ \A i \in 1 .. Len(queue) : i <= ready <=> n - queue[i].at >= Delay
           /\ layer'.delayed = IF ready = 0 THEN layer.delayed ELSE queue[ready].value
           /\ layer'.pending = SubSeq(queue, ready + 1, Len(queue))
      /\ Between(layer'.out, layer.out, layer'.delayed)
  <2> DEFINE d == Processed(layer, safe, n, joint)
  <2>1. layer.delayed # NoPosition /\ layer.out # NoPosition /\ joint \in Int \cup {NoPosition} /\ n \in Int
        /\ InOrder(Append(layer.pending, [at |-> n, value |-> safe]))
    BY <1>3, <1>8
  <2> HIDE DEF queue, n
  <2>2. /\ d \in Channel /\ d.wrist = layer.wrist /\ d.delayed \in Int /\ d.out \in Int
        /\ \E ready \in 0 .. Len(queue) :
             /\ \A i \in 1 .. Len(queue) : i <= ready <=> n - queue[i].at >= Delay
             /\ d.delayed = IF ready = 0 THEN layer.delayed ELSE queue[ready].value
             /\ d.pending = SubSeq(queue, ready + 1, Len(queue))
        /\ Between(d.out, layer.out, d.delayed) /\ Distance(d.out, layer.out) <= SoftLimit
        /\ ~layer.wrist /\ d.out # d.delayed => Distance(layer.out, d.delayed) > SoftLimit
    <3> HIDE DEF d
    <3> QED
      BY <1>3, <1>4, <2>1, ProcessedIs DEF d, queue
  <2>3. layer' = d
    BY <1>1
  <2> HIDE DEF d
  <2> QED
    BY <2>2, <2>3
<1>10. PICK ready \in 0 .. Len(queue) :
           /\ \A i \in 1 .. Len(queue) : i <= ready <=> n - queue[i].at >= Delay
           /\ layer'.delayed = IF ready = 0 THEN layer.delayed ELSE queue[ready].value
           /\ layer'.pending = SubSeq(queue, ready + 1, Len(queue))
  BY <1>9
<1>11. ready \in Nat /\ ready <= L + 1 /\ 1 .. Len(queue) = 1 .. L + 1
  BY <1>6, <1>31
<1>12. r \in RollRecord /\ r.kind = "STEP" /\ r.safe = safe /\ r.applied = layer'.out /\ r.of = rollout
  BY <1>2, <1>3, <1>4, <1>9 DEF RollRecord, Wish
<1> HIDE DEF r
<1>13. /\ records' \in Seq(RollRecord) /\ Len(records') = n + 1 /\ records'[n + 1] = r
       /\ \A i \in 1 .. n : records'[i] = records[i]
  BY <1>1, <1>3, <1>12
<1>14. \A k \in origin.step .. n : k \in origin.step .. n + 1 /\ k \in 1 .. n
  BY <1>3, <1>32
<1>15. n + 1 \in origin.step .. n + 1
  BY <1>3, <1>32
<1>16. \A i \in 1 .. L + 1 : \E k \in origin.step .. n + 1 :
         queue[i].at = k - 1 /\ queue[i].value = records'[k].safe
  <2> SUFFICES ASSUME NEW i \in 1 .. L + 1
               PROVE  \E k \in origin.step .. n + 1 : queue[i].at = k - 1 /\ queue[i].value = records'[k].safe
    OBVIOUS
  <2> HIDE DEF queue
  <2>1. CASE i = L + 1
    <3>1. queue[i].at = n /\ queue[i].value = safe /\ n = (n + 1) - 1
      BY <1>3, <1>6, <2>1
    <3> QED
      BY <1>12, <1>13, <1>15, <3>1
  <2>2. CASE i \in 1 .. L
    <3>1. PICK k \in origin.step .. n : layer.pending[i].at = k - 1 /\ layer.pending[i].value = records[k].safe
      BY <1>7, <2>2
    <3> QED
      BY <1>6, <1>13, <1>14, <2>2, <3>1
  <2> QED
    BY <1>31, <2>1, <2>2
<1> HIDE DEF queue
<1>17. /\ Len(layer'.pending) = L + 1 - ready
       /\ \A k \in 1 .. L + 1 - ready : layer'.pending[k] = queue[ready + k] /\ ready + k \in 1 .. L + 1
  <2>1. ready + 1 \in 1 .. Len(queue) + 1 /\ Len(queue) \in 0 .. Len(queue)
    BY <1>6, <1>11, <1>31
  <2>2. layer'.pending = SubSeq(queue, ready + 1, Len(queue))
    BY <1>10
  <2>3. /\ Len(layer'.pending) = Len(queue) - ready
        /\ \A k \in 1 .. Len(queue) - ready : layer'.pending[k] = queue[ready + k]
    BY <1>6, <1>11, <1>31, <2>1, <2>2
  <2>4. \A k \in 1 .. L + 1 - ready : ready + k \in 1 .. L + 1
    BY <1>11, <1>31
  <2> QED
    BY <1>6, <2>3, <2>4
<1>18. \A i \in 1 .. Len(layer'.pending) :
         \E k \in origin.step .. n + 1 :
           layer'.pending[i].at = k - 1 /\ layer'.pending[i].value = records'[k].safe
  <2> SUFFICES ASSUME NEW i \in 1 .. Len(layer'.pending)
               PROVE  \E k \in origin.step .. n + 1 :
                        layer'.pending[i].at = k - 1 /\ layer'.pending[i].value = records'[k].safe
    OBVIOUS
  <2>1. i \in 1 .. L + 1 - ready
    BY <1>17
  <2>2. layer'.pending[i] = queue[ready + i] /\ ready + i \in 1 .. L + 1
    BY <1>17, <2>1
  <2>3. PICK k \in origin.step .. n + 1 :
          queue[ready + i].at = k - 1 /\ queue[ready + i].value = records'[k].safe
    BY <1>16, <2>2
  <2> QED
    BY <2>2, <2>3
<1>19. InOrder(layer'.pending)
  <2> SUFFICES ASSUME NEW i \in 1 .. Len(layer'.pending), NEW k \in 1 .. Len(layer'.pending), i <= k
               PROVE  layer'.pending[i].at <= layer'.pending[k].at
    BY DEF InOrder
  <2>1. layer'.pending[i] = queue[ready + i] /\ layer'.pending[k] = queue[ready + k]
        /\ ready + i \in 1 .. Len(queue) /\ ready + k \in 1 .. Len(queue)
    BY <1>11, <1>17
  <2>2. ready + i <= ready + k
    BY <1>11
  <2> QED
    BY <1>8, <2>1, <2>2 DEF InOrder
<1>20. /\ \A i \in origin.step .. n : WithinDelay(origin, records', i) = WithinDelay(origin, records, i)
       /\ WithinDelay(origin, records, n) \subseteq WithinDelay(origin, records', n + 1)
  BY <1>1, <1>3, <1>12, DueGrows
<1>21. WithinDelay(origin, records', n + 1) \subseteq Int
  <2>1. n + 1 \in Nat /\ n + 1 <= Len(records')
    BY <1>3, <1>13
  <2> QED
    BY <1>3, <1>12, <1>13, <2>1, DueGrows
<1>22. layer'.delayed \in WithinDelay(origin, records', n + 1)
  <2>1. CASE ready = 0
    BY <1>10, <1>20, <2>1 DEF RollInvariant, LayerIsOwn
  <2>2. CASE ready # 0
    <3>1. ready \in 1 .. L + 1 /\ ready \in 1 .. Len(queue) /\ ready <= ready
      BY <1>11, <2>2
    <3>2. PICK k \in origin.step .. n + 1 : queue[ready].at = k - 1 /\ queue[ready].value = records'[k].safe
      BY <1>16, <3>1
    <3>3. n - queue[ready].at >= Delay
      BY <1>10, <3>1
    <3>4. (n + 1) - k >= Delay
      <4>1. k \in Int
        BY <1>32
      <4>2. n - (k - 1) >= Delay
        BY <3>2, <3>3
      <4> QED
        BY <1>3, <4>1, <4>2
    <3>5. layer'.delayed = records'[k].safe
      BY <1>10, <2>2, <3>2
    <3> QED
      BY <3>2, <3>4, <3>5 DEF WithinDelay
  <2> QED
    BY <2>1, <2>2
<1>23. Amid(layer'.out, WithinDelay(origin, records', n + 1))
  <2>1. Amid(layer.out, WithinDelay(origin, records', n + 1))
    <3>1. Amid(layer.out, WithinDelay(origin, records, n))
      BY DEF RollInvariant, LayerIsOwn
    <3> QED
      BY <1>20, <3>1 DEF Amid
  <2> QED
    BY <1>3, <1>9, <1>21, <1>22, <2>1, AmidBetween
<1>24. ASSUME NEW i \in origin.step .. n + 1, records'[i].kind = "STEP"
       PROVE  records'[i].of = rollout /\ Amid(records'[i].applied, WithinDelay(origin, records', i))
  <2>1. CASE i = n + 1
    BY <1>12, <1>13, <1>23, <2>1
  <2>2. CASE i # n + 1
    <3>1. i \in origin.step .. n
      BY <1>3, <1>32, <2>2
    <3>2. records'[i] = records[i] /\ WithinDelay(origin, records', i) = WithinDelay(origin, records, i)
      BY <1>13, <1>14, <1>20, <3>1
    <3> QED
      BY <1>24, <3>1, <3>2 DEF RollInvariant, LayerIsOwn
  <2> QED
    BY <2>1, <2>2
<1>25. origin.step <= (n + 1) + 1
  BY <1>3, <1>32
<1>26. LayerIsOwn'
  <2> HIDE DEF n, L
  <2> QED
    BY <1>1, <1>13, <1>18, <1>19, <1>22, <1>23, <1>24, <1>25 DEF LayerIsOwn
<1>27. RollTypes'
  <2>1. joint' \in Int
    BY <1>1, <1>3, <1>9
  <2> QED
    BY <1>1, <1>2, <1>9, <1>13, <2>1 DEF RollInvariant, RollTypes
<1>28. RollCounts'
  BY <1>2, <1>13
<1>29. RowsFit'
  <2>1. Len(rows) + 1 = rollout /\ \A i \in 1 .. n : records[i].kind = "STEP"
    BY <1>1 DEF RollInvariant, RowsFit
  <2>2. \A i \in 1 .. n + 1 : records'[i].kind = "STEP"
    <3>1. \A i \in 1 .. n + 1 : i \in 1 .. n \/ i = n + 1
      BY <1>3
    <3> HIDE DEF n
    <3> QED
      BY <1>12, <1>13, <2>1, <3>1
  <2> QED
    BY <1>1, <1>13, <2>1, <2>2 DEF RowsFit
<1> QED
  BY <1>26, <1>27, <1>28, <1>29 DEF RollInvariant

LEMMA RollStepHolds == RollInvariant /\ [RollNext]_rollVars => RollInvariant'
<1> SUFFICES ASSUME RollInvariant, [RollNext]_rollVars PROVE RollInvariant'
  OBVIOUS
<1>1. CASE RollNext
  BY <1>1, RollBeginsOne, RollGetsChunk, RollRejects, RollExecutes, RollEnds DEF RollNext
<1>2. CASE UNCHANGED rollVars
  <2>1. UNCHANGED <<rollout, track, rollAt, chunkLeft, predicted, joint, layer, origin, records, rows>>
    BY <1>2 DEF rollVars
  <2>2. RollTypes'
    BY <2>1 DEF RollInvariant, RollTypes
  <2>3. RollCounts' /\ RowsFit'
    BY <2>1 DEF RollInvariant, RollCounts, RowsFit
  <2>4. LayerIsOwn'
    BY <2>1 DEF RollInvariant, LayerIsOwn
  <2> QED
    BY <2>2, <2>3, <2>4 DEF RollInvariant
<1> QED
  BY <1>1, <1>2

LEMMA RollIsSafe == RollInvariant => RolloutSafe /\ RollTypeOK
<1> SUFFICES ASSUME RollInvariant PROVE RolloutSafe /\ RollTypeOK
  OBVIOUS
<1>1. /\ records \in Seq(RollRecord) /\ Len(records) \in Nat /\ Len(chunkLeft) \in Nat /\ Len(rows) \in Nat
      /\ origin \in [pose : Int, step : Nat \ {0}] /\ rollout \in Nat /\ rollout <= Rollouts /\ predicted \in Nat
      /\ {Rollouts, Chunks, ChunkLength, RollSteps} \subseteq Nat
  BY RolloutAssumption DEF RollInvariant, RollTypes
<1>2. OnlyOwnCommands
  <2> SUFFICES ASSUME NEW i \in origin.step .. Len(records), records[i].kind = "STEP"
               PROVE  /\ records[i].of = rollout
                      /\ Min(WithinDelay(origin, records, i)) <= records[i].applied
                      /\ records[i].applied <= Max(WithinDelay(origin, records, i))
    BY DEF OnlyOwnCommands, WithinDelay
  <2> DEFINE due == WithinDelay(origin, records, i)
  <2>1. i \in Nat /\ i <= Len(records) /\ i \in 1 .. Len(records) /\ origin.step \in Nat
    BY <1>1
  <2>2. due \subseteq Int
    <3>1. records[i] \in RollRecord
      BY <1>1, <2>1
    <3> QED
      BY <1>1, <2>1, <3>1, DueGrows
  <2>3. IsFiniteSet(due) /\ due # {}
    <3> DEFINE K == {k \in origin.step .. i : i - k >= Delay}
               V == {records[k].safe : k \in K}
               f == [k \in K |-> records[k].safe]
    <3>1. IsFiniteSet(origin.step .. i)
      BY <2>1, FS_Interval
    <3>2. IsFiniteSet(K)
      BY <3>1, FS_Subset
    <3>3. f \in Surjection(K, V)
      BY DEF Surjection
    <3>4. due = {origin.pose} \cup V
      BY DEF WithinDelay
    <3> HIDE DEF K, V, f, due
    <3>5. IsFiniteSet(V)
      BY <3>2, <3>3, FS_Surjection
    <3>6. IsFiniteSet({origin.pose})
      BY FS_Singleton
    <3> QED
      BY <3>4, <3>5, <3>6, FS_Union
  <2>4. records[i].of = rollout /\ Amid(records[i].applied, due)
    BY DEF RollInvariant, LayerIsOwn
  <2>5. records[i].applied \in Int
    <3>1. records[i] \in RollRecord
      BY <1>1, <2>1
    <3> QED
      BY <3>1 DEF RollRecord
  <2> HIDE DEF due
  <2>6. /\ Min(due) \in due /\ \A y \in due : Min(due) <= y
        /\ Max(due) \in due /\ \A y \in due : y <= Max(due)
    BY <2>2, <2>3, EndsOfFinite
  <2>7. PICK lo, hi \in due : lo <= records[i].applied /\ records[i].applied <= hi
    BY <2>4 DEF Amid
  <2>8. Min(due) \in Int /\ Max(due) \in Int /\ lo \in Int /\ hi \in Int /\ Min(due) <= lo /\ hi <= Max(due)
    BY <2>2, <2>6, <2>7
  <2>9. Min(due) <= records[i].applied /\ records[i].applied <= Max(due)
    BY <2>5, <2>7, <2>8
  <2> QED
    BY <2>4, <2>9 DEF due
<1>3. RowsAreTrue
  <2>1. DOMAIN records = 1 .. Len(records)
    BY <1>1
  <2> QED
    BY <2>1 DEF RollInvariant, RowsFit, RowsAreTrue
<1>4. RollTypeOK
  <2>1. rollout \in 0 .. Rollouts
    BY <1>1
  <2>2. Len(rows) <= rollout
    <3>1. Len(rows) = rollout \/ Len(rows) + 1 = rollout
      BY DEF RollInvariant, RollTypes, RowsFit
    <3> QED
      BY <1>1, <3>1
  <2>3. Len(records) <= IF track = "primary" THEN Chunks * ChunkLength ELSE RollSteps
    <3>1. CASE track = "primary"
      <4>1. predicted <= Chunks /\ Len(records) + Len(chunkLeft) <= predicted * ChunkLength
        BY <3>1 DEF RollInvariant, RollCounts
      <4>2. \A a, b, c \in Nat : a <= b => a * c <= b * c /\ a * c \in Nat /\ b * c \in Nat
        OBVIOUS
      <4>3. predicted * ChunkLength <= Chunks * ChunkLength /\ predicted * ChunkLength \in Nat
            /\ Chunks * ChunkLength \in Nat
        BY <1>1, <4>1, <4>2
      <4> DEFINE a == predicted * ChunkLength
                 b == Chunks * ChunkLength
      <4> HIDE DEF a, b
      <4>4. Len(records) <= b
        BY <1>1, <4>1, <4>3 DEF a, b
      <4> QED
        BY <3>1, <4>4 DEF b
    <3>2. CASE track # "primary"
      BY <3>2 DEF RollInvariant, RollTypes, RollCounts
    <3> QED
      BY <3>1, <3>2
  <2> QED
    BY <2>1, <2>2, <2>3 DEF RollTypeOK, RollInvariant, RollTypes, RollCounts
<1> QED
  BY <1>2, <1>3, <1>4 DEF RolloutSafe

-----------------------------------------------------------------------------
(***************************************************************************)
(* The parts together.                                                     *)
(***************************************************************************)
ToolsInvariant ==
  /\ DiagInvariant /\ AnalyzerInvariant /\ TeleopInvariant /\ ShtInvariant /\ TickLogInvariant
  /\ RecordingInvariant /\ BuildInvariant /\ EvalInvariant /\ ReplayInvariant
  /\ ShadowInvariant /\ CtlInvariant /\ RollInvariant

ToolParts == {"diagnosis", "differences", "teleop", "recording", "ticks", "rollout",
              "layer", "shadow", "replay", "benchmark", "watching", "datasets"}

\* Each part begins as its invariant says, also where it begins in one way only.
LEMMA ToolsBegin == ToolsInit => ToolsInvariant
BY DiagBegins, AnalyzerBegins, TeleopBegins, ShtBegins, TickLogBegins, RecordingBegins, BuildBegins, EvalBegins,
   ReplayBegins, ShadowBegins, CtlBegins, RollBegins
   DEF ToolsInit, ToolsInvariant

\* A step is one of one part; the others stay as they are.
LEMMA OnePartSteps ==
  [ToolsNext]_toolVars =>
    /\ [DiagNext]_diagVars /\ [AnalyzerNext]_analyzerVars /\ [TeleopNext]_teleopVars /\ [ShtNext]_shtVars
    /\ [TickLogNext]_tickLogVars /\ [RecordingNext]_recordingVars /\ [BuildNext]_buildVars /\ [EvalNext]_evalVars
    /\ [ReplayNext]_replayVars /\ [ShadowNext]_shadowVars /\ [CtlNext]_ctlVars /\ [RollNext]_rollVars
BY DEF ToolsNext, toolVars, measured, Simulated, DiagnosisPart, DifferencesPart, TeleopPart, RecordingPart, TicksPart,
       RolloutPart, LayerPart, ShadowPart, ReplayPart, BenchmarkPart, WatchingPart, DatasetsPart

\* So every part keeps its invariant.
LEMMA ToolsStep == ToolsInvariant /\ [ToolsNext]_toolVars => ToolsInvariant'
BY OnePartSteps, DiagStep, AnalyzerStep, TeleopStep, ShtStep, TickLogStep, RecordingStep, BuildStep, EvalStep,
   ReplayStep, ShadowStep, CtlStep, RollStepHolds
   DEF ToolsInvariant

\* Every tool keeps its invariant in every behaviour.
THEOREM ToolsCorrect == ToolsSpec => []ToolsInvariant
BY ToolsBegin, ToolsStep, PTL DEF ToolsSpec

\* The state of the tools stays in its range: phases and counters of the diagnosis, of
\* teleoperation and of the log, what the recorder and the builders left on disk, and
\* what the simulations were given and said.
THEOREM ToolsTyped == ToolsSpec => []ToolsTypeOK
<1>1. ToolsInvariant =>
        /\ DiagTypeOK /\ AnalyzerTypeOK /\ TeleopTypeOK /\ RecordingTypeOK /\ TickLogTypeOK /\ EvalTypeOK
        /\ CtlTypeOK /\ ShadowTypeOK /\ ReplayTypeOK /\ RollTypeOK /\ ShtTypeOK /\ BuildTypeOK
  BY DiagIsSafe, AnalyzerIsHonest, TeleopIsSafe, RecordingIsSafe, TickLogIsSafe, EvalIsSafe, CtlIsSafe,
     ShadowIsSafe, ReplayIsSafe, RollIsSafe, ShtIsSafe, BuildIsSafe
     DEF ToolsInvariant
<1>2. ToolsInvariant /\ part \in ToolParts => ToolsTypeOK
  BY <1>1 DEF ToolsTypeOK, ToolParts
<1>3. ToolsInit => part \in ToolParts
  BY DEF ToolsInit, ToolParts
<1>4. part \in ToolParts /\ [ToolsNext]_toolVars => (part \in ToolParts)'
  BY DEF ToolsNext, toolVars, measured, DiagnosisPart, DifferencesPart, TeleopPart, RecordingPart, TicksPart,
         RolloutPart, LayerPart, ShadowPart, ReplayPart, BenchmarkPart, WatchingPart, DatasetsPart
<1> QED
  BY <1>2, <1>3, <1>4, ToolsCorrect, PTL DEF ToolsSpec

\* However leader, follower and network answer: a diagnosis that says PASS went
\* untroubled and all joints followed it; the analysis reports a difference or a
\* saturation where it begins and only there, and two reports of opposite directions
\* have a clean memory between them (remote_diagnostic.py, diagnostic_analysis.py).
THEOREM DiagnosesHold == ToolsSpec => []Diagnosed
<1>1. ToolsInvariant => Diagnosed
  BY DiagIsSafe, AnalyzerIsHonest DEF ToolsInvariant, Diagnosed
<1> QED
  BY <1>1, ToolsCorrect, PTL

\* However often takes are discarded and sessions begin and crash, and wherever the tick
\* log and the building of a dataset are interrupted: episodes, lines and reports are
\* of what happened (recorder and runner, tick_diagnostics.py, the scripts of DatasetBuild).
THEOREM RecordsHold == ToolsSpec => []RecordsTrue
<1>1. ToolsInvariant => RecordsTrue
  BY RecordingIsSafe, TickLogIsSafe, BuildIsSafe DEF ToolsInvariant, RecordsTrue
<1> QED
  BY <1>1, ToolsCorrect, PTL

\* Whatever arms, ports and registers do: teleoperation that is measured sends every
\* command and loses no movement over failed reads, its analyses find the ends they look
\* for and its arms are released; teleoperation that is watched stops sampling when the
\* follower moves (instrumented_teleop.py, the shadow teleoperation script).
THEOREM TeleopsHold == ToolsSpec => []TeleopsSafe
<1>1. ToolsInvariant => TeleopsSafe
  BY TeleopIsSafe, ShtIsSafe DEF ToolsInvariant, TeleopsSafe
<1> QED
  BY <1>1, ToolsCorrect, PTL

\* For any policy, any cube and any recording: success of a rollout, PASS of a replay
\* or of a step in shadow and the row of a policy are of what the simulation went
\* through, and commands reach MuJoCo delayed and limited and not otherwise changed.
THEOREM SimulationsHold == ToolsSpec => []SimulationsTrue
<1>1. ToolsInvariant => SimulationsTrue
  BY EvalIsSafe, ReplayIsSafe, ShadowIsSafe, RollIsSafe, CtlIsSafe DEF ToolsInvariant, SimulationsTrue
<1> QED
  BY <1>1, ToolsCorrect, PTL
=============================================================================
