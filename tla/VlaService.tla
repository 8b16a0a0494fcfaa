----------------------------- MODULE VlaService -----------------------------
(***************************************************************************)
(* The policy server (runtime/desktop/vla_server.py) and its clients       *)
(* (runtime/laptop/vla_client.py, inprocess_vla_client.py).                *)
(*                                                                         *)
(* A client makes one call at a time and sends it again when an attempt    *)
(* times out, is cut off or is refused; the server goes on with a request  *)
(* whose client has given up.  Handlers run on a pool of threads: a lock   *)
(* keeps inferences apart, resets and acks do not take it.  All sessions   *)
(* share one policy, whose queue of actions /predict consumes; an action   *)
(* is known by the call whose observation it was made from.                *)
(***************************************************************************)
EXTENDS Naturals, Sequences, FiniteSets

CONSTANTS
  Clients,
  MaxCalls,       \* bound: calls of all clients
  MaxRetries,     \* max_retries
  QueueLength     \* n_action_steps of the policy (external)

ASSUME VlaAssumption ==
  /\ IsFiniteSet(Clients)
  /\ {MaxCalls, MaxRetries, QueueLength} \subseteq Nat \ {0}

VARIABLES
  remote,         \* the clients talk HTTP; or they call the policy in their process
  ready,          \* is_ready(): the checkpoint was loaded
  client,         \* each client's call: number, kind, attempt, and its last result
  requests,       \* requests on their way to the server, or inside a handler
  policyLock,     \* the request that holds _lock, or NoHolder
  queue,          \* the policy's actions not consumed yet
  acks,           \* last_acks: how often each call is in it
  settled         \* history: calls that were over when the client's reset was executed

vlaVars == <<remote, ready, client, requests, policyLock, queue, acks, settled>>

Kinds == {"reset", "predict", "chunk", "ack"}
Calls == Clients \X (1 .. MaxCalls)
NoHolder == [client |-> "none"]

Idle(c) == client[c].status = "idle"
Request(c, k, kind, attempt) == [client |-> c, call |-> k, kind |-> kind, attempt |-> attempt, stage |-> "sent"]

VlaInit ==
  /\ remote \in BOOLEAN /\ ready \in BOOLEAN
  /\ client = [c \in Clients |-> [call |-> 0, kind |-> "reset", attempt |-> 0, status |-> "idle",
                                  result |-> "none", source |-> {}, afterReset |-> FALSE]]
  /\ requests = {} /\ policyLock = NoHolder
  /\ queue = <<>> /\ acks = [k \in Calls |-> 0]
  /\ settled = [c \in Clients |-> {}]

-----------------------------------------------------------------------------
(***************************************************************************)
(* The client: _request.                                                   *)
(***************************************************************************)
Sends(c, new) ==
  /\ client' = [client EXCEPT ![c] = new]
  /\ requests' = requests \cup {Request(c, new.call, new.kind, new.attempt)}

Answered(c, kind) == Idle(c) /\ client[c].kind = kind /\ client[c].result = "ok"

Begun == {k \in Calls : k[2] <= client[k[1]].call}

\* A policy in the client's own process has no other client.
CallBegins(c, kind) ==
  /\ Idle(c) /\ Cardinality(Begun) < MaxCalls
  /\ remote \/ \A d \in Clients \ {c} : client[d].call = 0
  /\ Sends(c, [call |-> client[c].call + 1, kind |-> kind, attempt |-> 1, status |-> "waiting",
               result |-> "none", source |-> {}, afterReset |-> client[c].call > 0 /\ Answered(c, "reset")])
  /\ UNCHANGED <<remote, ready, policyLock, queue, acks, settled>>

AttemptsLeft(c) == client[c].attempt < MaxRetries

\* Timeout, connection error, or an answer that is of no use: once more, or the
\* call has failed.  The request may still be executed.
AttemptFails(c) ==
  /\ remote /\ client[c].status = "waiting"
  /\ IF AttemptsLeft(c)
     THEN Sends(c, [client[c] EXCEPT !.attempt = @ + 1])
     ELSE client' = [client EXCEPT ![c].status = "idle", ![c].result = "communication"] /\ UNCHANGED requests
  /\ UNCHANGED <<remote, ready, policyLock, queue, acks, settled>>

RequestLost(r) ==
  /\ remote /\ r.stage = "sent"
  /\ requests' = requests \ {r}
  /\ UNCHANGED <<remote, ready, client, policyLock, queue, acks, settled>>

Awaited(r) ==
  LET c == client[r.client] IN c.status = "waiting" /\ c.call = r.call /\ c.attempt = r.attempt

\* The handler answers: the client has it, or is not there to take it.
ReplyArrives(r, result, source) ==
  /\ requests' = requests \ {r}
  /\ client' = IF Awaited(r)
               THEN [client EXCEPT ![r.client].status = "idle", ![r.client].result = result,
                                   ![r.client].source = source]
               ELSE client

-----------------------------------------------------------------------------
(***************************************************************************)
(* The handlers.                                                           *)
(***************************************************************************)
\* The client has its answer, or none, and the server nothing left to do.
Over(k) ==
  /\ k[2] < client[k[1]].call \/ (k[2] = client[k[1]].call /\ Idle(k[1]))
  /\ ~\E q \in requests : <<q.client, q.call>> = k

\* Mutant of ResetHandled: the queue outlives the session.
ResetForgotten(r) ==
  /\ r.kind = "reset" /\ r.stage = "sent"
  /\ settled' = [settled EXCEPT ![r.client] = {k \in Calls : Over(k)}]
  /\ ReplyArrives(r, "ok", {})
  /\ UNCHANGED <<remote, ready, policyLock, queue, acks>>

\* Without the lock.
ResetHandled(r) ==
  /\ r.kind = "reset" /\ r.stage = "sent"
  /\ queue' = IF ready THEN <<>> ELSE queue
  /\ settled' = [settled EXCEPT ![r.client] = {k \in Calls : Over(k)}]
  /\ ReplyArrives(r, "ok", {})
  /\ UNCHANGED <<remote, ready, policyLock, acks>>

\* Mutant of AckHandled: answered, and not noted.
AckForgotten(r) ==
  /\ r.kind = "ack" /\ r.stage = "sent"
  /\ ReplyArrives(r, "ok", {})
  /\ UNCHANGED <<remote, ready, policyLock, queue, acks, settled>>

AckHandled(r) ==
  /\ r.kind = "ack" /\ r.stage = "sent"
  /\ acks' = IF remote THEN [acks EXCEPT ![<<r.client, r.call>>] = @ + 1] ELSE acks
  /\ ReplyArrives(r, "ok", {})
  /\ UNCHANGED <<remote, ready, policyLock, queue, settled>>

\* The policy is not loaded, or has no spacing for its chunks: a 500, that the
\* client does not repeat.
PredictRefused(r) ==
  /\ r.kind \in {"predict", "chunk"} /\ r.stage = "sent" /\ ~ready
  /\ ReplyArrives(r, "inference", {})
  /\ UNCHANGED <<remote, ready, policyLock, queue, acks, settled>>

TakesPolicyLock(r) ==
  /\ r.kind \in {"predict", "chunk"} /\ r.stage = "sent" /\ ready
  /\ policyLock = NoHolder
  /\ LET held == [r EXCEPT !.stage = "computing"]
     IN requests' = (requests \ {r}) \cup {held} /\ policyLock' = held
  /\ UNCHANGED <<remote, ready, client, queue, acks, settled>>

\* Mutant of ChunkComputed: select_action() instead of predict_action_chunk().
ChunkFromQueue(r) ==
  /\ r.kind = "chunk" /\ r.stage = "computing"
  /\ policyLock' = NoHolder
  /\ IF queue = <<>> THEN ReplyArrives(r, "ok", {<<r.client, r.call>>}) /\ UNCHANGED queue
                     ELSE ReplyArrives(r, "ok", {Head(queue)}) /\ queue' = Tail(queue)
  /\ UNCHANGED <<remote, ready, acks, settled>>

\* predict_action_chunk(): made of this observation, the queue is left alone.
ChunkComputed(r) ==
  /\ r.kind = "chunk" /\ r.stage = "computing"
  /\ policyLock' = NoHolder
  /\ ReplyArrives(r, "ok", {<<r.client, r.call>>}) \/ ReplyArrives(r, "inference", {})
  /\ UNCHANGED <<remote, ready, queue, acks, settled>>

InferenceFails(r) ==
  /\ r.kind = "predict" /\ r.stage = "computing"
  /\ policyLock' = NoHolder
  /\ ReplyArrives(r, "inference", {})
  /\ UNCHANGED <<remote, ready, queue, acks, settled>>

\* select_action(): an empty queue is filled from this observation, ...
QueueFilled(r) ==
  /\ r.kind = "predict" /\ r.stage = "computing"
  /\ LET filled == [r EXCEPT !.stage = "filled"]
     IN requests' = (requests \ {r}) \cup {filled} /\ policyLock' = filled
  /\ queue' = IF queue = <<>> THEN [i \in 1 .. QueueLength |-> <<r.client, r.call>>] ELSE queue
  /\ UNCHANGED <<remote, ready, client, acks, settled>>

\* ... and its first action is returned; a reset may have come between.
ActionTaken(r) ==
  /\ r.kind = "predict" /\ r.stage = "filled"
  /\ policyLock' = NoHolder
  /\ IF queue = <<>> THEN ReplyArrives(r, "inference", {}) /\ UNCHANGED queue
                     ELSE ReplyArrives(r, "ok", {Head(queue)}) /\ queue' = Tail(queue)
  /\ UNCHANGED <<remote, ready, acks, settled>>

Handled(r) ==
  \/ ResetHandled(r) \/ AckHandled(r) \/ PredictRefused(r)
  \/ TakesPolicyLock(r) \/ ChunkComputed(r) \/ InferenceFails(r) \/ QueueFilled(r) \/ ActionTaken(r)

VlaNext ==
  \/ \E c \in Clients : (\E kind \in Kinds : CallBegins(c, kind)) \/ AttemptFails(c)
  \/ \E r \in requests : RequestLost(r) \/ Handled(r)

VlaSpec == VlaInit /\ [][VlaNext]_vlaVars

-----------------------------------------------------------------------------
VlaTypeOK ==
  /\ remote \in BOOLEAN /\ ready \in BOOLEAN
  /\ \A c \in Clients : client[c].call \in 0 .. MaxCalls /\ client[c].attempt \in 0 .. MaxRetries
  /\ \A r \in requests : r.stage # "sent" <=> r = policyLock
  /\ Len(queue) <= QueueLength

\* A chunk is always made of the observation it answers: retries, other sessions
\* and the queue of /predict never show in it.
ChunkIsOfItsObservation ==
  \A c \in Clients : Answered(c, "chunk") => client[c].source = {<<c, client[c].call>>}

\* After its reset a client is never given an action of a call that was over
\* when the reset was executed (it may be given one of another session, or of
\* an attempt that had been abandoned and was executed later).
NothingFromBeforeReset ==
  [][\A c \in Clients :
       client'[c] # client[c] /\ Answered(c, "predict")' => client'[c].source \cap settled[c] = {}]_vlaVars

\* What staged_real_rollout.py:124-126 says of a prediction that follows its own
\* reset: it was made of the observation it answers.
FreshAfterReset ==
  \A c \in Clients : Answered(c, "predict") /\ client[c].afterReset => client[c].source = {<<c, client[c].call>>}

\* An ack that was reported to have arrived has; one call is noted no more often
\* than it was sent.
AcksArrive ==
  /\ \A c \in Clients : remote /\ Answered(c, "ack") => acks[<<c, client[c].call>>] > 0
  /\ \A k \in Calls : acks[k] <= MaxRetries
=============================================================================
