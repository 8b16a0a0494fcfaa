---------------------------- MODULE ShadowTeleop ----------------------------
(***************************************************************************)
(* Leader and follower watched together while nothing drives the follower  *)
(* (shadow_teleop_diagnostic.py, run_shadow_teleop_diagnostic.py): the     *)
(* leader is moved by hand, the follower must not move, and a movement of  *)
(* it ends the run at once.                                                *)
(***************************************************************************)
EXTENDS Integers, Sequences, FiniteSetsExt

CONSTANTS
  ShtAngles,      \* wrist_roll of either arm
  AbortAt,        \* follower_move_abort_threshold_deg
  FixedAt,        \* FOLLOWER_FIXED_THRESHOLD_DEG
  AccelEvery,     \* accel_refresh_interval_s
  ShtDuration     \* duration_sec, in samples that fit into it at the most

ASSUME ShtAssumption ==
  /\ ShtAngles \subseteq Int /\ {FixedAt, AbortAt, AccelEvery} \subseteq Nat
  /\ FixedAt < AbortAt /\ ShtDuration \in Nat

VARIABLES
  shtAt,      \* "ports", "leader", "follower", "sampling", "row", "closing", "over"
  guarded,    \* follower_move_abort_threshold_deg is not 0
  ports,      \* per arm: "closed", "half" when connect() raised on the way, "open"
  watched,    \* what was sampled: both angles, and the age of the acceleration
  csvRows,    \* rows written
  shtTime,    \* elapsed time
  accelAt,    \* when the acceleration was read last, -1: never
  stopped,    \* stopped_reason
  shtExit

shtVars == <<shtAt, guarded, ports, watched, csvRows, shtTime, accelAt, stopped, shtExit>>

ShtInit ==
  /\ shtAt = "ports" /\ guarded \in BOOLEAN
  /\ ports = [leader |-> "closed", follower |-> "closed"]
  /\ watched = <<>> /\ csvRows = 0 /\ shtTime = 0 /\ accelAt = -1
  /\ stopped = "none" /\ shtExit = "none"

\* Ports in use or unknown, and calibrations that cannot be loaded, are refused.
CheckPorts ==
  /\ shtAt = "ports"
  /\ \/ shtAt' = "leader" /\ UNCHANGED shtExit
     \/ shtAt' = "over" /\ shtExit' = "refused"
  /\ UNCHANGED <<guarded, ports, watched, csvRows, shtTime, accelAt, stopped>>

\* The flag that has an arm disconnected is set when connect() has returned.
ArmConnects(at, arm, next) ==
  /\ shtAt = at
  /\ \/ ports' = [ports EXCEPT ![arm] = "open"] /\ shtAt' = next /\ UNCHANGED shtExit
     \/ /\ \E left \in {"closed", "half"} : ports' = [ports EXCEPT ![arm] = left]
        /\ shtAt' = "closing" /\ shtExit' = "failed"
  /\ UNCHANGED <<guarded, watched, csvRows, shtTime, accelAt, stopped>>

ConnectLeader == ArmConnects("leader", "leader", "follower")
ConnectFollower == ArmConnects("follower", "follower", "sampling")

ShtStops(reason) == shtAt' = "closing" /\ stopped' = reason

SamplingEnds ==
  /\ shtAt = "sampling" /\ shtTime >= ShtDuration /\ ShtStops("duration_elapsed")
  /\ UNCHANGED <<guarded, ports, watched, csvRows, shtTime, accelAt, shtExit>>

\* A register that must be read and is not ends the run; nothing is tried again.
ReadFails ==
  /\ shtAt = "sampling" /\ shtTime < ShtDuration /\ ShtStops("read_error")
  /\ UNCHANGED <<guarded, ports, watched, csvRows, shtTime, accelAt, shtExit>>

\* Ctrl-C, while a sample is taken or while its row is written.
SamplingInterrupted ==
  /\ shtAt \in {"sampling", "row"} /\ ShtStops("keyboard_interrupt")
  /\ \/ UNCHANGED csvRows
     \/ shtAt = "row" /\ csvRows' = csvRows + 1
  /\ UNCHANGED <<guarded, ports, watched, shtTime, accelAt, shtExit>>

\* sample(): the acceleration is read again when it is old enough; the loop keeps the
\* sample before anything is written of it.
TakeSample ==
  /\ shtAt = "sampling" /\ shtTime < ShtDuration
  /\ LET refreshed == IF accelAt = -1 \/ shtTime - accelAt >= AccelEvery THEN shtTime ELSE accelAt
     IN  /\ accelAt' = refreshed
         /\ \E leader \in ShtAngles, present \in ShtAngles :
              watched' = Append(watched, [leader |-> leader, present |-> present,
                                          accelAge |-> shtTime - refreshed])
  /\ shtAt' = "row"
  /\ UNCHANGED <<guarded, ports, csvRows, shtTime, stopped, shtExit>>

\* Compared with the sample before instead of the first.
MovedSinceLast(s) ==
  LET n == Len(watched)
      d == s.present - watched[IF n > 1 THEN n - 1 ELSE 1].present
  IN  IF d < 0 THEN -d ELSE d

MovedBy(s) == LET d == s.present - watched[1].present IN IF d < 0 THEN -d ELSE d

\* on_sample(), then the guard: the sample that ends the run is in the file.
WriteRow ==
  /\ shtAt = "row" /\ csvRows' = csvRows + 1
  /\ \E passes \in 1 .. 2 : shtTime' = shtTime + passes
  /\ IF guarded /\ MovedBy(watched[Len(watched)]) > AbortAt
     THEN ShtStops("follower_moved_unexpectedly")
     ELSE shtAt' = "sampling" /\ UNCHANGED stopped
  /\ UNCHANGED <<guarded, ports, watched, accelAt, shtExit>>

\* Both are disconnected whatever becomes of the other; an error is only a warning.
Disconnect ==
  /\ shtAt = "closing" /\ shtAt' = "over"
  /\ ports' \in {p \in [{"leader", "follower"} -> {"closed", "half", "open"}] :
                   \A a \in DOMAIN p : p[a] = ports[a] \/ (ports[a] = "open" /\ p[a] = "closed")}
  /\ shtExit' = IF shtExit # "none" THEN shtExit
                ELSE IF stopped \in {"duration_elapsed", "keyboard_interrupt"} THEN "done" ELSE "failed"
  /\ UNCHANGED <<guarded, watched, csvRows, shtTime, accelAt, stopped>>

ShtNext ==
  \/ CheckPorts \/ ConnectLeader \/ ConnectFollower
  \/ SamplingEnds \/ ReadFails \/ SamplingInterrupted \/ TakeSample \/ WriteRow \/ Disconnect
ShtSpec == ShtInit /\ [][ShtNext]_shtVars

-----------------------------------------------------------------------------
(* compute_run_analysis().                                                 *)

Spread(S) == Max(S) - Min(S)
LeaderMovedFollowerFixed ==
  /\ watched # <<>>
  /\ Spread({watched[i].leader : i \in DOMAIN watched}) > FixedAt
  /\ Spread({watched[i].present : i \in DOMAIN watched}) <= FixedAt

(* The types of the run's state.                                           *)
ShtTypeOK ==
  /\ shtAt \in {"ports", "leader", "follower", "sampling", "row", "closing", "over"}
  /\ \A a \in DOMAIN ports : ports[a] \in {"closed", "half", "open"}
  /\ Len(watched) <= ShtDuration /\ csvRows \in 0 .. ShtDuration /\ accelAt \in -1 .. ShtDuration
  /\ stopped \in {"none", "duration_elapsed", "read_error", "keyboard_interrupt",
                  "follower_moved_unexpectedly"}
  /\ shtExit \in {"none", "refused", "failed", "done"}

Drifted(i) == watched[i].present - watched[1].present \notin -AbortAt .. AbortAt

\* With the guard a follower that has moved is not sampled again, however slowly it
\* did: what is beyond the threshold is the last of the samples, the run does not go on
\* to its end, and it neither succeeds nor is said to have had a fixed follower.
FollowerMoveEnds ==
  guarded =>
    /\ \A i \in 1 .. Len(watched) - 1 : ~Drifted(i)
    /\ stopped = "duration_elapsed" => \A i \in DOMAIN watched : ~Drifted(i)
    /\ stopped = "follower_moved_unexpectedly" =>
         csvRows = Len(watched) /\ shtExit # "done" /\ ~LeaderMovedFollowerFixed

\* The file has the samples of the report, but the last of a run that was interrupted.
CsvIsTheSamples ==
  /\ csvRows \in {Len(watched), Len(watched) - 1}
  /\ csvRows < Len(watched) => shtAt = "row" \/ stopped = "keyboard_interrupt"
  /\ \A i \in DOMAIN watched : watched[i].accelAge < AccelEvery \/ watched[i].accelAge = 0

ShadowTeleopSafe == FollowerMoveEnds /\ CsvIsTheSamples
=============================================================================
