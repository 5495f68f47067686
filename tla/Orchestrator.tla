---------------------------- MODULE Orchestrator ----------------------------
(***************************************************************************)
(* Orchestrator.chat and route of src/src/omo/service.py: a request takes  *)
(* the registry's snapshot, is routed, by the embedded model if it must    *)
(* be, and executed.  Composed with Routing (policy.py), Upstream (the     *)
(* promise of provider.py), the reload of RegistryStore (registry.py) and  *)
(* the in-memory mode of BudgetLedger (access.py).                         *)
(*                                                                         *)
(* A step runs from one await to the next, so reloads, other requests and  *)
(* midnight come between the routing, the reservation and the posts.  What *)
(* the model answers to this very call is the promise of InferenceRpc.     *)
(***************************************************************************)
EXTENDS Routing, FiniteSetsExt, Functions

CONSTANTS
  Req,           \* requests, each made once
  Requests,      \* what a request may be: records as in Routing, with path
  Registries,    \* the registries the operators may write
  Evaluated,     \* the model's revision is the one of the local envelope
  CallerId, Day, \* days are consecutive numbers, the first is 0
  DailyOf,       \* daily_budget_usd of each caller, or Unlimited
  Unlimited

ASSUME RequestsAssumption == Requests \subseteq Asked(CallerId)
ASSUME RegistriesAssumption ==
  \A models \in Registries :
    /\ models \subseteq ModelEntry
    /\ \A m, n \in models : m.id = n.id => m = n
ASSUME LimitsAssumption ==
  /\ ExternalMaxCost \in Nat /\ NoCaller \notin CallerId
  /\ {Unpriced, Unlimited} \cap Nat = {}
  /\ \A c \in CallerId : MaxCostOf[c] \in Nat /\ DailyOf[c] \in Nat \cup {Unlimited}
ASSUME DayAssumption == Day \subseteq Nat /\ 0 \in Day

VARIABLES
  request,   \* the request of each Req, chosen at the start
  registry,  \* RegistryStore.snapshot
  reloadFailed, \* last_reload_error is set
  today,     \* the date of the ledger's clock
  reserved,  \* _reservations, 0 where there is no key
  at,        \* the await each request is at
  snapshot,  \* the snapshot a request has taken
  decision,  \* what it was routed to
  cost,      \* estimated_call_cost_usd
  result,    \* how it ended
  link, posted, billable,  \* of Upstream
  sent,      \* history: entries a request was posted to
  asked,     \* history: requests that had the embedded model classify them
  day        \* history: the day a request's reservation was charged

Call == Req
Up == INSTANCE Upstream

ledgerVars == <<today, reserved>>
upVars == <<link, posted, billable, sent>>
vars == <<request, registry, reloadFailed, ledgerVars, at, snapshot, decision, cost, result,
          upVars, asked, day>>

NoDay == -1
Place == {"new", "count", "generate", "answer", "sandbox", "provider", "done"}
Result == {"none", "answer", "route", "clarify", "denied", "error", "cancelled"}

Init ==
  /\ request \in [Req -> Requests]
  /\ registry \in Registries /\ reloadFailed = FALSE
  /\ today = 0 /\ reserved = [k \in CallerId \X Day |-> 0]
  /\ at = [r \in Req |-> "new"]
  /\ snapshot = [r \in Req |-> {}]
  /\ decision = [r \in Req |-> AnalysisNeeded]
  /\ cost = [r \in Req |-> 0]
  /\ result = [r \in Req |-> "none"]
  /\ Up!UpstreamInit /\ sent = [r \in Req |-> {}]
  /\ asked = {} /\ day = [r \in Req |-> NoDay]

Goto(r, place) == at' = [at EXCEPT ![r] = place] /\ UNCHANGED result
Finish(r, kind) == at' = [at EXCEPT ![r] = "done"] /\ result' = [result EXCEPT ![r] = kind]

-----------------------------------------------------------------------------
(* BudgetLedger.reserve without a file *)

\* The form of Reserve that reserves one attempt.
ReserveOnce(r, c) ==
  LET k == <<request[r].caller, today>>
  IN  reserved' = [j \in DOMAIN reserved |->
        CASE j = k -> reserved[k] + c [] j # k /\ j[2] = today -> reserved[j] [] OTHER -> 0]

\* Other days are forgotten; twice the estimate is reserved, for two attempts.
Reserve(r, c) ==
  LET k == <<request[r].caller, today>>
  IN  reserved' = [j \in DOMAIN reserved |->
        CASE j = k -> reserved[k] + 2 * c [] j # k /\ j[2] = today -> reserved[j] [] OTHER -> 0]

Forget == reserved' = [j \in DOMAIN reserved |-> IF j[2] = today THEN reserved[j] ELSE 0]

Limited(r) == request[r].caller # NoCaller /\ DailyOf[request[r].caller] # Unlimited

\* The form of HasRoom that looks at what is reserved already only.
HasRoomBefore(r, c) == reserved[<<request[r].caller, today>>] < DailyOf[request[r].caller]

HasRoom(r, c) ==
  reserved[<<request[r].caller, today>>] + 2 * c <= DailyOf[request[r].caller]

-----------------------------------------------------------------------------
(* Execution: from the decision to the next await *)

\* The entry of a decision, by its id.
Entry(d, models) == CHOOSE m \in models : m.id = d.target

\* The reservation, or caller_budget_exceeded.
External(r, c) ==
  /\ cost' = [cost EXCEPT ![r] = c]
  /\ \/ ~Limited(r) /\ Goto(r, "provider") /\ UNCHANGED <<reserved, day>>
     \/ /\ Limited(r) /\ HasRoom(r, c)
        /\ Reserve(r, c) /\ day' = [day EXCEPT ![r] = today]
        /\ Goto(r, "provider")
     \/ Limited(r) /\ ~HasRoom(r, c) /\ Forget /\ Finish(r, "error") /\ UNCHANGED day

\* Whatever is not external.
Local(r, d) ==
  /\ UNCHANGED <<reserved, day, cost>>
  /\ \/ /\ d.action = "local_answer"
        /\ IF Evaluated THEN Goto(r, "answer") ELSE Finish(r, "error")
     \/ d.helper = "decimal" /\ Finish(r, "answer")
     \/ d.helper = "even_squares" /\ Goto(r, "sandbox")
     \/ d.action = "clarify" /\ Finish(r, "clarify")
     \/ d.action = "reject" /\ Finish(r, "denied")

\* chat goes on with the decision, /v1/route returns it.
Execute(r, d, models) ==
  /\ decision' = [decision EXCEPT ![r] = d]
  /\ \/ request[r].path = "route" /\ Finish(r, "route") /\ UNCHANGED <<reserved, day, cost>>
     \/ /\ request[r].path = "chat" /\ d.action = "external_model"
        /\ External(r, EstimatedCost(Entry(d, models), request[r]))
     \/ request[r].path = "chat" /\ d.action # "external_model" /\ Local(r, d)

-----------------------------------------------------------------------------
(* Routing *)

\* The form of Arrive that asks the model about every undecided request.
ArriveAsking(r) ==
  LET q == request[r] alone == DecideAlone(q)
  IN  /\ at[r] = "new"
      /\ snapshot' = [snapshot EXCEPT ![r] = registry]
      /\ \/ /\ alone # AnalysisNeeded
            /\ Execute(r, alone, registry) /\ UNCHANGED asked
         \/ /\ alone = AnalysisNeeded
            /\ Goto(r, "count") /\ asked' = asked \cup {r}
            /\ UNCHANGED <<decision, reserved, day, cost>>
      /\ UNCHANGED <<request, registry, reloadFailed, today, upVars>>

\* The snapshot is taken and the request is routed by what it says itself,
\* unless the model has to be asked.  A conversation whose serialization is
\* too long for that is an error.
Arrive(r) ==
  LET q == request[r] alone == DecideAlone(q)
  IN  /\ at[r] = "new"
      /\ snapshot' = [snapshot EXCEPT ![r] = registry]
      /\ \/ /\ alone # AnalysisNeeded
            /\ Execute(r, alone, registry) /\ UNCHANGED asked
         \/ /\ alone = AnalysisNeeded /\ q.action = "external_model"
            /\ Execute(r, DecideOn(q, AskedFor(q), registry), registry) /\ UNCHANGED asked
         \/ /\ alone = AnalysisNeeded /\ q.action # "external_model"
            /\ \/ Goto(r, "count") /\ asked' = asked \cup {r}
               \/ Finish(r, "error") /\ UNCHANGED asked
            /\ UNCHANGED <<decision, reserved, day, cost>>
      /\ UNCHANGED <<request, registry, reloadFailed, today, upVars>>

ModelFails(r) == Finish(r, "error") /\ UNCHANGED <<decision, reserved, day, cost>>

\* The tokens are counted: too many are an analysis_context_exceeded.
Counted(r) ==
  /\ at[r] = "count"
  /\ \/ Goto(r, "generate") /\ UNCHANGED <<decision, reserved, day, cost>>
     \/ Execute(r, Rejected, snapshot[r])
     \/ ModelFails(r)
  /\ UNCHANGED <<request, registry, reloadFailed, today, snapshot, upVars, asked>>

\* The model has proposed, something valid or not.
Classified(r) ==
  /\ at[r] = "generate"
  /\ \/ \E p \in Proposals : Execute(r, DecideOn(request[r], p, snapshot[r]), snapshot[r])
     \/ Execute(r, Rejected, snapshot[r])
     \/ ModelFails(r)
  /\ UNCHANGED <<request, registry, reloadFailed, today, snapshot, upVars, asked>>

-----------------------------------------------------------------------------
(* The awaits of chat *)

\* The embedded model or the sandbox has answered; the answer is validated.
LocalEnds(r) ==
  /\ at[r] \in {"answer", "sandbox"}
  /\ Finish(r, "answer") \/ Finish(r, "error")
  /\ UNCHANGED <<request, registry, reloadFailed, ledgerVars, snapshot, decision, cost, upVars, asked, day>>

\* The form of Post that looks the target up in the registry of the moment.
PostNow(r) ==
  /\ at[r] = "provider" /\ Up!Post(r)
  /\ \E m \in registry : m.id = decision[r].target /\ sent' = [sent EXCEPT ![r] = @ \cup {m}]
  /\ UNCHANGED <<request, registry, reloadFailed, ledgerVars, at, snapshot, decision, cost, result, asked, day>>

Post(r) ==
  /\ at[r] = "provider" /\ Up!Post(r)
  /\ sent' = [sent EXCEPT ![r] = @ \cup {Entry(decision[r], snapshot[r])}]
  /\ UNCHANGED <<request, registry, reloadFailed, ledgerVars, at, snapshot, decision, cost, result, asked, day>>

ProviderEnds(r) ==
  /\ at[r] = "provider"
  /\ \/ Up!Reject(r) /\ IF posted[r] = 1 THEN UNCHANGED <<at, result>> ELSE Finish(r, "error")
     \/ Up!Succeed(r) /\ Finish(r, "answer")
     \/ Up!Fail(r) /\ Finish(r, "error")
  /\ UNCHANGED <<request, registry, reloadFailed, ledgerVars, snapshot, decision, cost, sent, asked, day>>

\* The deadline, the disconnection or the shutdown: see Gateway.
Cancel(r) ==
  /\ at[r] \notin {"new", "done"}
  /\ IF at[r] = "provider" THEN Up!Fail(r) ELSE UNCHANGED <<link, posted, billable>>
  /\ Finish(r, "cancelled")
  /\ UNCHANGED <<request, registry, reloadFailed, ledgerVars, snapshot, decision, cost, sent, asked, day>>

-----------------------------------------------------------------------------
(* RegistryStore.reload and the clock *)

\* A valid file replaces the snapshot as a whole, any other leaves it.
Reload ==
  /\ \/ registry' \in Registries /\ reloadFailed' = FALSE
     \/ UNCHANGED registry /\ reloadFailed' = TRUE
  /\ UNCHANGED <<request, ledgerVars, at, snapshot, decision, cost, result, upVars, asked, day>>

Midnight ==
  /\ today + 1 \in Day /\ today' = today + 1
  /\ UNCHANGED <<request, registry, reloadFailed, reserved, at, snapshot, decision, cost, result, upVars, asked, day>>

Serve(r) ==
  \/ Arrive(r) \/ Counted(r) \/ Classified(r) \/ LocalEnds(r) \/ Post(r) \/ ProviderEnds(r)
  \/ Cancel(r)

Next == (\E r \in Req : Serve(r)) \/ Reload \/ Midnight

Spec == Init /\ [][Next]_vars

-----------------------------------------------------------------------------
(* Properties *)

Decisions ==
  [action : {"local_answer", "helper", "external_model", "clarify", "reject", "analysis_needed"},
   target : Nat, helper : HelperId \cup {"none"}]

\* Every variable has its type, and nothing is reserved beyond a budget.
TypeOK ==
  /\ request \in [Req -> Asked(CallerId)]
  /\ registry \in Registries /\ reloadFailed \in BOOLEAN
  /\ today \in Day /\ reserved \in [CallerId \X Day -> Nat]
  /\ \A k \in CallerId \X Day : DailyOf[k[1]] # Unlimited => reserved[k] <= DailyOf[k[1]]
  /\ at \in [Req -> Place] /\ result \in [Req -> Result]
  /\ snapshot \in [Req -> Registries \cup {{}}]
  /\ decision \in [Req -> Decisions] /\ cost \in [Req -> Nat]
  /\ link \in [Req -> {"idle", "posted", "rejected", "ok", "failed"}]
  /\ posted \in [Req -> 0..2] /\ billable \in [Req -> 0..2]
  /\ sent \in [Req -> SUBSET ModelEntry]
  /\ asked \in SUBSET Req /\ day \in [Req -> Day \cup {NoDay}]

\* No content leaves the machine for a request that is local_only, asks for
\* current information, names a local action or only inspects its route, nor
\* at all while external models are disabled, whatever the model proposes.
NothingLeaves ==
  \A r \in Req :
    \/ ~ExternalEnabled \/ request[r].local_only \/ request[r].path = "route"
    \/ request[r].action \in {"helper", "local_answer"}
    \/ request[r].required_capability = "current_information"
    => posted[r] = 0

Trusted(m, q) ==
  /\ m.enabled /\ m.available /\ {"text", q.required_capability} \subseteq m.capabilities
  /\ q.caller # NoCaller => m.host \in HostsOf[q.caller] /\ m.retention \in RetentionOf[q.caller]
  /\ q.input + q.max_tokens <= m.context /\ q.max_tokens <= m.max_output
  /\ {m.input_price, m.output_price} \cap {Unpriced} = {}

\* Every post goes to an entry the request and its caller allow, as the
\* snapshot of the request's arrival has it, although the registry may have
\* been reloaded between the decision, the lookup and a retry.
SentAsPermitted ==
  \A r \in Req : \A m \in sent[r] : m \in snapshot[r] /\ Trusted(m, request[r])

\* Never is an entry passed over that comes first, can do all the chosen one
\* can, and costs no more than the chosen one.
BestSent ==
  \A r \in Req : \A m \in sent[r] : \A n \in snapshot[r] :
    /\ Trusted(n, request[r]) /\ m.capabilities \subseteq n.capabilities
    /\ EstimatedCost(n, request[r]) <= EstimatedCost(m, request[r])
    => n.id = m.id \/ m.priority < n.priority \/ (m.priority = n.priority /\ m.id < n.id)

\* All the posts of a request, had each been billed in full, cost no more
\* than the request, its caller and the settings allow.
PaidWithinLimit ==
  \A r \in Req :
    LET q == request[r] bill == posted[r] * cost[r]
    IN  /\ bill <= q.max_cost /\ bill <= ExternalMaxCost
        /\ q.caller # NoCaller => bill <= MaxCostOf[q.caller]

\* The requests charged to a caller's day.
Charged(c, d) == {r \in Req : request[r].caller = c /\ day[r] = d}

\* All the posts charged to a caller's day, had each been billed in full,
\* cost no more than the caller's daily budget.
DailyBudgetHolds ==
  \A c \in CallerId : DailyOf[c] # Unlimited =>
    \A d \in Day :
      SumFunctionOnSet([r \in Req |-> posted[r] * cost[r]], Charged(c, d)) <= DailyOf[c]

\* A request that names what it wants is never handed to the classifier, and
\* gets that or a refusal.
OverrideKept ==
  \A r \in Req : request[r].action # "auto" =>
    /\ r \notin asked
    /\ decision[r].action \in {request[r].action, "reject", "analysis_needed"}

-----------------------------------------------------------------------------
(* The inductive invariant: each request's row, whatever the others do *)

\* An entry is the first of those that some proposal allows a request which
\* did not say itself what becomes of it, at the estimated price.
Chosen(q, models, d, c) ==
  LET entry == Entry(d, models)
  IN  /\ DecideAlone(q) = AnalysisNeeded
      /\ c = EstimatedCost(entry, q)
      /\ \E p \in Proposals :
           LET eligible == Eligible(q, p, models)
           IN  entry \in eligible /\ \A n \in eligible : ~Precedes(n, entry)

Outgoing(q, d) == q.path = "chat" /\ d.action = "external_model"

\* Where a request is tells how far it was routed.
Routed(q, place, models, d, c) ==
  /\ place \in {"new", "count", "generate"} => d = AnalysisNeeded
  /\ place \in {"count", "generate"} => DecideAlone(q) = AnalysisNeeded /\ q.action # "external_model"
  /\ place # "new" => models \in Registries
  /\ place = "provider" => Outgoing(q, d)
  /\ Outgoing(q, d) => Chosen(q, models, d, c)

\* What was posted went where the request was routed to.
PostedTo(entries, q, place, models, d, state, posts, billed) ==
  /\ place \in {"new", "count", "generate", "answer", "sandbox"} => state = "idle"
  /\ state = "idle" => posts = 0
  /\ state = "rejected" => posts = 1
  /\ state = "posted" => billed > 0
  /\ billed <= posts
  /\ posts > 0 => Outgoing(q, d)
  /\ entries # {} => posts > 0 /\ entries = {Entry(d, models)}

IInv ==
  /\ OverrideKept
  /\ \A r \in Req : Routed(request[r], at[r], snapshot[r], decision[r], cost[r])
  /\ \A r \in Req : PostedTo(sent[r], request[r], at[r], snapshot[r], decision[r],
                             link[r], posted[r], billable[r])

Rows == TypeOK /\ IInv

\* Two attempts of every request that was charged to the day.
Within(c, d, limit) ==
  /\ IsFiniteSet(Charged(c, d))
  /\ SumFunctionOnSet([r \in Req |-> 2 * cost[r]], Charged(c, d)) <= limit

\* Those of today are reserved; those of an earlier day, which the ledger may
\* have forgotten, were within the budget.
BudgetsCovered ==
  \A c \in CallerId : DailyOf[c] # Unlimited =>
    \A d \in Day :
      /\ d > today => Charged(c, d) = {}
      /\ Within(c, d, IF d = today THEN reserved[<<c, d>>] ELSE DailyOf[c])

UnroutedUncharged == \A r \in Req : at[r] \in {"new", "count", "generate"} => day[r] = NoDay

Covered == UnroutedUncharged /\ BudgetsCovered

\* The types, every request's row and every budget are consistent: what the
\* theorems of OrchestratorProofs rest on.
Consistent == Rows /\ Covered

=============================================================================
