------------------------------ MODULE Routing ------------------------------
(***************************************************************************)
(* decide and eligible_models of src/src/omo/policy.py, and the restriction*)
(* of a request to its caller's limits in Orchestrator.route               *)
(* (src/src/omo/service.py), as operators on requests, registries and      *)
(* proposals.                                                              *)
(*                                                                         *)
(* A request is a record of what these operators look at: its options, the *)
(* upper bound of its input, and to which of three shapes its conversation *)
(* belongs: a full calc command, a question of the local envelope, or      *)
(* anything else.  A registry is a set of entries with distinct ids.  Costs*)
(* are in a unit that makes them integers.                                 *)
(***************************************************************************)
EXTENDS Integers, FiniteSets

CONSTANTS
  ExternalEnabled, SandboxEnabled,  \* settings
  ExternalMaxCost,                  \* settings.external_max_cost_usd
  NoCaller,         \* requests under the single API key have no caller policy
  Unpriced,         \* a price that is None
  MaxCostOf,        \* max_cost_usd of each caller
  RetentionOf,      \* allowed_retention
  HostsOf           \* allowed_hosts

Capability == {"text", "coding", "current_information"}
HelperId == {"decimal", "even_squares"}
NoTarget == 0

\* What a request may be, and an entry of a registry.
Asked(callers) ==
  [path : {"chat", "route"}, action : {"auto", "local_answer", "helper", "external_model"},
   shape : {"command", "reference", "other"}, required_capability : Capability,
   helper : HelperId \cup {"none"}, local_only : BOOLEAN, max_cost : Nat,
   caller : callers \cup {NoCaller}, input : Nat, max_tokens : Nat]
ModelEntry ==
  [id : Nat \ {NoTarget}, priority : Nat, enabled : BOOLEAN, available : BOOLEAN,
   capabilities : SUBSET Capability, host : STRING, retention : STRING,
   input_price : Nat \cup {Unpriced}, output_price : Nat \cup {Unpriced},
   context : Nat, max_output : Nat]

\* What the embedded model may propose, under the schema it is given.
Proposals ==
  [action : {"external_model", "clarify"}, capability : Capability, helper : {"none"}]
  \cup [action : {"helper"}, capability : Capability, helper : HelperId]

-----------------------------------------------------------------------------
(* Costs and limits *)

Least(a, b) == IF a <= b THEN a ELSE b

EstimatedCost(m, q) == q.input * m.input_price + q.max_tokens * m.output_price

\* The budget of eligible_models for the request route has restricted.
Limit(q) ==
  LET asked == IF q.caller = NoCaller THEN q.max_cost
               ELSE Least(q.max_cost, MaxCostOf[q.caller])
  IN  Least(ExternalMaxCost, asked)

-----------------------------------------------------------------------------
(* eligible_models *)

Allowed(m, q) ==
  q.caller # NoCaller =>
    m.retention \in RetentionOf[q.caller] /\ m.host \in HostsOf[q.caller]

Fits(m, q) == q.input + q.max_tokens <= m.context /\ q.max_tokens <= m.max_output

\* The form of Affordable that allows for one attempt only.
AffordableOnce(m, q) ==
  /\ m.input_price # Unpriced /\ m.output_price # Unpriced
  /\ EstimatedCost(m, q) <= Limit(q)

Affordable(m, q) ==
  /\ m.input_price # Unpriced /\ m.output_price # Unpriced
  /\ EstimatedCost(m, q) * 2 <= Limit(q)

\* The form of Eligible that leaves local_only to the caller of decide.
EligibleAnywhere(q, p, registry) ==
  LET required == {"text", q.required_capability, p.capability}
  IN  {m \in registry :
         /\ ExternalEnabled /\ "current_information" \notin required
         /\ m.enabled /\ m.available /\ required \subseteq m.capabilities
         /\ Allowed(m, q) /\ Fits(m, q) /\ Affordable(m, q)}

Eligible(q, p, registry) ==
  LET required == {"text", q.required_capability, p.capability}
  IN  {m \in registry :
         /\ ~q.local_only /\ ExternalEnabled /\ "current_information" \notin required
         /\ m.enabled /\ m.available /\ required \subseteq m.capabilities
         /\ Allowed(m, q) /\ Fits(m, q) /\ Affordable(m, q)}

\* The order of sorted.  Ids are positive numbers, ordered like the strings.
Precedes(m, n) == m.priority < n.priority \/ (m.priority = n.priority /\ m.id < n.id)

\* The form of First that takes the last of the sorted list.
FirstBackwards(entries) == CHOOSE m \in entries : \A n \in entries : ~Precedes(m, n)

First(entries) == CHOOSE m \in entries : \A n \in entries : ~Precedes(n, m)

-----------------------------------------------------------------------------
(* decide *)

Decision(action) == [action |-> action, target |-> NoTarget, helper |-> "none"]
Rejected == Decision("reject")
Clarify == Decision("clarify")
AnalysisNeeded == Decision("analysis_needed")  \* clarify, with that reason

\* A helper from the request or from the model: the sandbox may be off.
Helper(id) ==
  IF id = "even_squares" /\ ~SandboxEnabled THEN Rejected
  ELSE [Decision("helper") EXCEPT !.helper = id]

LocalEligible(q) == q.shape = "reference" /\ q.required_capability = "text"

\* decide without a proposal: what the request says by itself.
DecideAlone(q) ==
  IF q.required_capability = "current_information" THEN Rejected
  ELSE CASE q.action = "helper" -> Helper(q.helper)
         [] q.action = "auto" /\ q.shape = "command" -> Helper("decimal")
         [] q.action \in {"auto", "local_answer"} /\ LocalEligible(q) -> Decision("local_answer")
         [] q.action = "local_answer" /\ ~LocalEligible(q) -> Rejected
         [] OTHER -> AnalysisNeeded

\* decide with a proposal, for a request that needs one.
DecideOn(q, p, registry) ==
  LET eligible == Eligible(q, p, registry)
  IN  CASE p.action = "clarify" -> Clarify
        [] p.action # "clarify" /\ p.capability = "current_information" -> Rejected
        [] p.action = "helper" /\ p.capability # "current_information" -> Helper(p.helper)
        [] OTHER -> IF eligible = {} THEN Rejected
                    ELSE [Decision("external_model") EXCEPT !.target = First(eligible).id]

\* The proposal route makes itself when the request asks for an external model.
AskedFor(q) ==
  [action |-> "external_model", capability |-> q.required_capability, helper |-> "none"]

=============================================================================
