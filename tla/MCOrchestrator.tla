--------------------------- MODULE MCOrchestrator ---------------------------
(* Small instances of Orchestrator for TLC. *)
EXTENDS Orchestrator, TLC

CONSTANTS alice, bob

Both == {"text", "coding"}

\* An entry everybody may use; a request of one input token costs 2.
Cheap ==
  [id |-> 2, priority |-> 1, enabled |-> TRUE, available |-> TRUE, capabilities |-> Both,
   host |-> "near", retention |-> "none", input_price |-> 1, output_price |-> 1,
   context |-> 3, max_output |-> 2]

Moved == [Cheap EXCEPT !.host = "far", !.priority = 0]
Keeping == [Cheap EXCEPT !.id = 1, !.retention = "unknown", !.input_price = 0]
Dear == [Cheap EXCEPT !.id = 1, !.priority = 0, !.input_price = 2]
Free == [Cheap EXCEPT !.id = 3, !.priority = 2, !.input_price = 0, !.output_price = 0,
                      !.capabilities = {"text"}]
Off == [Cheap EXCEPT !.id = 3, !.priority = 0, !.available = FALSE]
Quoteless == [Cheap EXCEPT !.id = 1, !.input_price = Unpriced]
Short == [Cheap EXCEPT !.id = 1, !.context = 2, !.max_output = 1]

Request(path, action, shape, need, only, limit, who, size) ==
  [path |-> path, action |-> action, shape |-> shape, required_capability |-> need,
   helper |-> "none", local_only |-> only, max_cost |-> limit, caller |-> who,
   input |-> size, max_tokens |-> 1]

\* Two requests of few kinds, for the interleavings.
FewRequests ==
  {Request("chat", "auto", "other", "text", FALSE, 4, alice, 1),
   Request("chat", "auto", "other", "text", TRUE, 4, alice, 1),
   Request("chat", "external_model", "other", "coding", FALSE, 4, alice, 1),
   Request("chat", "external_model", "other", "text", FALSE, 6, bob, 2)}
FewRegistries == {{Cheap}, {Moved, Keeping}, {Dear, Free}}

\* One request of every kind, for the decisions.
HelperRequests ==
  {[Request(path, "helper", "other", need, FALSE, 0, alice, 1) EXCEPT !.helper = h] :
     path \in {"chat", "route"}, need \in Capability, h \in HelperId}
ManyRequests ==
  HelperRequests \cup
  {Request(path, action, shape, need, only, limit, who, size) :
     path \in {"chat", "route"}, action \in {"auto", "local_answer", "external_model"},
     shape \in {"command", "reference", "other"}, need \in Capability, only \in BOOLEAN,
     limit \in {0, 4, 6}, who \in {alice, bob, NoCaller}, size \in {1, 2}}
ManyRegistries == {{}, {Cheap, Dear, Off}, {Cheap, Keeping, Free}, {Quoteless, Cheap}, {Short, Moved}}

MCRequests == FewRequests \cup ManyRequests
MCRegistries == FewRegistries \cup ManyRegistries

\* The two requests are both of the few kinds; or one is of any kind, the
\* other never comes and neither does midnight nor, once the one has come, a
\* reload.
Idle == Request("route", "auto", "command", "text", TRUE, 0, NoCaller, 1)
Interleaved == request \in [Req -> FewRequests] /\ registry \in FewRegistries
Alone ==
  /\ request \in {[r \in Req |-> IF r = one THEN q ELSE Idle] : one \in Req, q \in ManyRequests}
  /\ registry \in ManyRegistries
Considered ==
  \/ request \in [Req -> FewRequests] /\ registry \in FewRegistries
  \/ /\ today = 0 /\ ~reloadFailed
     /\ \E one, other \in Req :
          /\ one # other /\ request[other] = Idle /\ at[other] = "new"
          /\ registry \in IF at[one] = "new" THEN ManyRegistries ELSE {snapshot[one]}

Symmetry == Permutations(Req)

MCInit == (Interleaved \/ Alone) /\ Init
MCSpec == MCInit /\ [][Next]_vars

MCMaxCostOf == [c \in CallerId |-> IF c = alice THEN 4 ELSE 6]
MCDailyOf == [c \in CallerId |-> IF c = alice THEN 7 ELSE Unlimited]
MCHostsOf == [c \in CallerId |-> IF c = alice THEN {"near"} ELSE {"near", "far"}]
MCRetentionOf == [c \in CallerId |-> IF c = alice THEN {"none"} ELSE {"none", "unknown"}]

=============================================================================
