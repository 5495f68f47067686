------------------------------ MODULE Upstream ------------------------------
(***************************************************************************)
(* What complete and collect_stream of src/src/omo/provider.py promise the *)
(* orchestrator about the requests that leave the machine: at most two     *)
(* posts a call, the second only after the first was rejected, and one     *)
(* verdict.  Nothing is said of connections, events or sizes.              *)
(***************************************************************************)
EXTENDS Integers

CONSTANT Call  \* calls of the provider, each made at most once

VARIABLES
  link,     \* idle, posted, rejected, ok or failed
  posted,   \* posts made so far
  billable  \* those of them the provider may have billed: all but the rejected

upstreamVars == <<link, posted, billable>>

UpstreamInit ==
  /\ link = [c \in Call |-> "idle"]
  /\ posted = [c \in Call |-> 0]
  /\ billable = [c \in Call |-> 0]

LinkTo(c, kind) == link' = [link EXCEPT ![c] = kind]
NotBilled(c) == billable' = [billable EXCEPT ![c] = @ - 1]

Post(c) ==
  /\ link[c] \in {"idle", "rejected"}
  /\ LinkTo(c, "posted")
  /\ posted' = [posted EXCEPT ![c] = @ + 1]
  /\ billable' = [billable EXCEPT ![c] = @ + 1]

\* An explicit 429: the first is retried, the second is final.
Reject(c) ==
  /\ link[c] = "posted"
  /\ LinkTo(c, IF posted[c] = 1 THEN "rejected" ELSE "failed")
  /\ NotBilled(c) /\ UNCHANGED posted

Succeed(c) == link[c] = "posted" /\ LinkTo(c, "ok") /\ UNCHANGED <<posted, billable>>

\* Anything else, at any time: nobody knows whether the post was billed.
Fail(c) ==
  /\ link[c] \in {"idle", "posted", "rejected"}
  /\ LinkTo(c, "failed") /\ UNCHANGED <<posted, billable>>

UpstreamNext == \E c \in Call : Post(c) \/ Reject(c) \/ Succeed(c) \/ Fail(c)

UpstreamSpec == UpstreamInit /\ [][UpstreamNext]_upstreamVars

=============================================================================
