---------------------------- MODULE CommandStream ----------------------------
(***************************************************************************)
(* What the realtime runtime promises about the targets it sends to the    *)
(* motors, without buffers, threads or clocks: predictions are offered in  *)
(* increasing order, some are rejected by intent validation, and every     *)
(* target is blended from offered predictions such that                    *)
(*   - a rejected prediction is never used again, and                      *)
(*   - the newest prediction of the stream never goes back to an older     *)
(*     one, unless a newer one than that was rejected.                     *)
(***************************************************************************)
EXTENDS Integers

CONSTANT Sequence       \* the numbers predictions carry

VARIABLES
  offered,    \* the predictions offered so far
  rejected,   \* those rejected since
  target,     \* the predictions blended into the target being sent, or {}
  sent        \* the predictions blended into the last target that arrived

streamVars == <<offered, rejected, target, sent>>

StreamInit ==
  /\ offered = {}
  /\ rejected = {}
  /\ target = {}
  /\ sent = {}

Offer(s) ==
  /\ \A r \in offered : r < s
  /\ offered' = offered \cup {s}
  /\ UNCHANGED <<rejected, target, sent>>

Reject(s) ==
  /\ s \in offered \ rejected
  /\ rejected' = rejected \cup {s}
  /\ UNCHANGED <<offered, target, sent>>

\* The blend may only leave the newest prediction of the last target behind
\* for an older one when something newer than the blend has been rejected.
Blend(S) ==
  /\ target = {}
  /\ S \subseteq offered \ rejected
  /\ \A p \in sent : (\E s \in S : p <= s) \/ (\E r \in rejected : \A s \in S : s < r)
  /\ target' = S
  /\ UNCHANGED <<offered, rejected, sent>>

\* The motors took the target, or the write failed.
Settle ==
  /\ target # {}
  /\ target' = {}
  /\ sent' \in {sent, target}
  /\ UNCHANGED <<offered, rejected>>

StreamNext ==
  \/ \E s \in Sequence : Offer(s) \/ Reject(s)
  \/ \E S \in SUBSET offered : Blend(S)
  \/ Settle

StreamSpec == StreamInit /\ [][StreamNext]_streamVars
=============================================================================
