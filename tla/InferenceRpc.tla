---------------------------- MODULE InferenceRpc ----------------------------
(***************************************************************************)
(* What generate and count of src/src/omo/inference.py promise their       *)
(* callers, with no worker, pipe or lock in sight: a bounded queue served  *)
(* in the order of admission.                                              *)
(***************************************************************************)
EXTENDS Integers, FiniteSets

CONSTANTS
  Call,       \* the calls, each made at most once
  CountCall,  \* the calls answered by a number of tokens
  QueueLimit  \* how many calls may be inside at once

VARIABLES
  state,    \* idle, pending or done
  outcome,  \* what the call returned or raised
  before    \* the pending calls a pending call must not overtake

rpcVars == <<state, outcome, before>>

Pending == {c \in Call : state[c] = "pending"}

RpcInit ==
  /\ state = [c \in Call |-> "idle"]
  /\ outcome = [c \in Call |-> "none"]
  /\ before = [c \in Call |-> {}]

Finish(c, kind) ==
  /\ state' = [state EXCEPT ![c] = "done"]
  /\ outcome' = [outcome EXCEPT ![c] = kind]
  /\ before' = [d \in Call |-> IF d = c THEN {} ELSE before[d] \ {c}]

\* inference_busy: only when the queue is full, and nothing changes for it.
Refuse(c) ==
  /\ state[c] = "idle" /\ Cardinality(Pending) >= QueueLimit
  /\ Finish(c, "busy")

Admit(c) ==
  /\ state[c] = "idle" /\ Cardinality(Pending) < QueueLimit
  /\ state' = [state EXCEPT ![c] = "pending"]
  /\ before' = [before EXCEPT ![c] = Pending]
  /\ UNCHANGED outcome

\* The answer to this very call: nothing admitted earlier is still pending.
Answer(c) ==
  /\ state[c] = "pending" /\ before[c] = {}
  /\ \E kind \in {"error", IF c \in CountCall THEN "tokens" ELSE "completion"} :
       Finish(c, kind)

\* The worker was lost or too slow for the call whose turn it is.
Unavailable(c) ==
  /\ state[c] = "pending" /\ before[c] = {}
  /\ Finish(c, "unavailable")

\* The caller gave up, in its turn or in the queue.
Cancelled(c) == state[c] = "pending" /\ Finish(c, "cancelled")

RpcNext ==
  \E c \in Call : Refuse(c) \/ Admit(c) \/ Answer(c) \/ Unavailable(c) \/ Cancelled(c)

RpcSpec == RpcInit /\ [][RpcNext]_rpcVars

=============================================================================
