------------------------- MODULE OrchestratorProofs -------------------------
(***************************************************************************)
(* What leaves the machine, for any requests, registries and limits: the   *)
(* type invariant of Orchestrator, and that every post is permitted by the *)
(* snapshot of the request's arrival, is the first choice and is paid for. *)
(***************************************************************************)
EXTENDS Orchestrator, FoldLemmas

-----------------------------------------------------------------------------
(* The order of the entries *)

\* Of any entries one comes first: of those with the least priority the one
\* with the least id.
LEMMA FirstComesFirst ==
  ASSUME NEW entries \in SUBSET ModelEntry, entries # {}
  PROVE  /\ First(entries) \in entries
         /\ \A n \in entries : ~Precedes(n, First(entries))
<1> DEFINE low == {m.priority : m \in entries}
<1>1. low \in SUBSET Nat /\ low # {}
  BY DEF ModelEntry
<1>2. PICK p \in low : \A q \in low : p <= q
  BY <1>1, LeastNatural
<1> DEFINE ids == {m.id : m \in {e \in entries : e.priority = p}}
<1>3. ids \in SUBSET Nat /\ ids # {}
  BY <1>2 DEF ModelEntry
<1>4. PICK i \in ids : \A j \in ids : i <= j
  BY <1>3, LeastNatural
<1>5. PICK m \in entries : m.priority = p /\ m.id = i
  BY <1>4
<1>6. ASSUME NEW n \in entries PROVE ~Precedes(n, m)
  <2>1. n.priority \in low /\ n.priority \in Nat /\ p \in Nat /\ n.id \in Nat /\ i \in Nat
    BY <1>1, <1>2, <1>3, <1>4 DEF ModelEntry
  <2>2. p <= n.priority
    BY <1>2, <2>1
  <2>3. n.priority = p => i <= n.id
    BY <1>4
  <2> QED
    BY <1>5, <2>1, <2>2, <2>3 DEF Precedes
<1> QED
  BY <1>6 DEF First

-----------------------------------------------------------------------------
(* What is decided *)

LEMMA ProposalsTyped ==
  ASSUME NEW p \in Proposals
  PROVE  /\ p.action \in {"external_model", "clarify", "helper"}
         /\ p.helper \in HelperId \cup {"none"}
BY DEF Proposals

LEMMA HelperTyped ==
  ASSUME NEW id \in HelperId \cup {"none"}
  PROVE  /\ Helper(id) \in Decisions
         /\ Helper(id).action \in {"helper", "reject"}
BY DEF Helper, Rejected, Decision, Decisions, HelperId, NoTarget

LEMMA PlainTyped ==
  ASSUME NEW action \in {"local_answer", "clarify", "reject", "analysis_needed"}
  PROVE  Decision(action) \in Decisions /\ Decision(action).action = action
BY DEF Decision, Decisions, NoTarget

\* What a request says itself never sends it out, and is what it asks for.
LEMMA AloneStays ==
  ASSUME NEW q \in Asked(CallerId)
  PROVE  /\ DecideAlone(q) \in Decisions
         /\ DecideAlone(q).action # "external_model"
         /\ q.action # "auto" =>
              DecideAlone(q).action \in {q.action, "reject", "analysis_needed"}
<1>1. q.helper \in HelperId \cup {"none"} /\ "decimal" \in HelperId \cup {"none"}
  BY DEF Asked, HelperId
<1>2. /\ Helper(q.helper) \in Decisions /\ Helper(q.helper).action \in {"helper", "reject"}
      /\ Helper("decimal") \in Decisions /\ Helper("decimal").action \in {"helper", "reject"}
  BY <1>1, HelperTyped
<1>3. /\ Decision("local_answer") \in Decisions
      /\ Decision("local_answer").action = "local_answer"
      /\ Rejected \in Decisions /\ Rejected.action = "reject"
      /\ AnalysisNeeded \in Decisions /\ AnalysisNeeded.action = "analysis_needed"
  BY PlainTyped DEF Rejected, AnalysisNeeded
<1> QED
  BY <1>2, <1>3 DEF DecideAlone

\* A request that does not say it neither names a local action nor wants
\* current information.
LEMMA UndecidedAsks ==
  ASSUME NEW q \in Asked(CallerId), DecideAlone(q) = AnalysisNeeded
  PROVE  /\ q.action \in {"auto", "external_model"}
         /\ q.required_capability # "current_information"
<1>1. q.helper \in HelperId \cup {"none"}
  BY DEF Asked
<1>2. Helper(q.helper).action \in {"helper", "reject"}
  BY <1>1, HelperTyped
<1>3. /\ Rejected.action = "reject" /\ AnalysisNeeded.action = "analysis_needed"
      /\ Decision("local_answer").action = "local_answer"
  BY PlainTyped DEF Rejected, AnalysisNeeded
<1>4. q.required_capability # "current_information"
  BY <1>3 DEF DecideAlone
<1>5. q.action # "helper"
  BY <1>2, <1>3, <1>4 DEF DecideAlone
<1>6. q.action # "local_answer"
  BY <1>3, <1>4, <1>5 DEF DecideAlone
<1> QED
  BY <1>4, <1>5, <1>6 DEF Asked

LEMMA RegistryTyped ==
  ASSUME NEW models \in Registries
  PROVE  /\ models \in SUBSET ModelEntry
         /\ \A m, n \in models : m.id = n.id => m = n
BY RegistriesAssumption

\* An id names one entry of a snapshot.
LEMMA EntryById ==
  ASSUME NEW models \in Registries, NEW m \in models, NEW d, d.target = m.id
  PROVE  Entry(d, models) = m
<1>1. \A n \in models : n.id = d.target <=> n = m
  BY RegistryTyped
<1> QED
  BY <1>1 DEF Entry

LEMMA CostTyped ==
  ASSUME NEW q \in Asked(CallerId), NEW m \in ModelEntry,
         m.input_price # Unpriced, m.output_price # Unpriced
  PROVE  EstimatedCost(m, q) \in Nat
<1>1. /\ q.input \in Nat /\ q.max_tokens \in Nat
      /\ m.input_price \in Nat /\ m.output_price \in Nat
  BY DEF Asked, ModelEntry
<1>2. \A a, b, c, d \in Nat : a * b + c * d \in Nat
  OBVIOUS
<1> QED
  BY <1>1, <1>2 DEF EstimatedCost

\* What a proposal decides is a decision, and an external one names the first
\* of the entries it allows.
LEMMA DecisionSound ==
  ASSUME NEW q \in Asked(CallerId), NEW p \in Proposals, NEW models \in Registries,
         NEW d, d = DecideOn(q, p, models)
  PROVE  /\ d \in Decisions /\ d.action # "analysis_needed"
         /\ d.action = "external_model" =>
              /\ Entry(d, models) \in Eligible(q, p, models)
              /\ \A n \in Eligible(q, p, models) : ~Precedes(n, Entry(d, models))
<1> DEFINE eligible == Eligible(q, p, models)
           choice == [Decision("external_model") EXCEPT !.target = First(eligible).id]
<1>1. eligible \in SUBSET models /\ models \in SUBSET ModelEntry
  BY RegistryTyped DEF Eligible
<1>2. /\ Clarify \in Decisions /\ Clarify.action = "clarify"
      /\ Rejected \in Decisions /\ Rejected.action = "reject"
  BY PlainTyped DEF Clarify, Rejected
<1>3. Helper(p.helper) \in Decisions /\ Helper(p.helper).action \in {"helper", "reject"}
  BY ProposalsTyped, HelperTyped
<1>4. ASSUME eligible # {}
      PROVE  /\ choice \in Decisions /\ choice.action = "external_model"
             /\ Entry(choice, models) \in eligible
             /\ \A n \in eligible : ~Precedes(n, Entry(choice, models))
  <2>1. /\ First(eligible) \in eligible
        /\ \A n \in eligible : ~Precedes(n, First(eligible))
    BY <1>1, <1>4, FirstComesFirst
  <2>2. First(eligible).id \in Nat
    BY <1>1, <2>1 DEF ModelEntry
  <2>3. choice = [action |-> "external_model", target |-> First(eligible).id, helper |-> "none"]
    BY DEF Decision
  <2>4. choice \in Decisions /\ choice.action = "external_model"
    BY <2>2, <2>3 DEF Decisions
  <2>5. choice.target = First(eligible).id /\ First(eligible) \in models
    BY <1>1, <2>1, <2>3
  <2> HIDE DEF choice
  <2>6. Entry(choice, models) = First(eligible)
    BY <2>5, EntryById
  <2> QED
    BY <2>1, <2>4, <2>6
<1>5. d \in {Clarify, Rejected, Helper(p.helper)} \/ (eligible # {} /\ d = choice)
  BY ProposalsTyped DEF DecideOn
<1> HIDE DEF choice, eligible
<1>6. CASE d \in {Clarify, Rejected, Helper(p.helper)}
  BY <1>2, <1>3, <1>6
<1>7. CASE eligible # {} /\ d = choice
  BY <1>4, <1>7 DEF eligible
<1> QED
  BY <1>5, <1>6, <1>7

\* A request for an external model gets one, or a refusal.
LEMMA AskedForSound ==
  ASSUME NEW q \in Asked(CallerId), NEW models \in Registries
  PROVE  /\ AskedFor(q) \in Proposals
         /\ DecideOn(q, AskedFor(q), models).action \in {"external_model", "reject"}
<1>1. AskedFor(q) \in Proposals
  BY DEF AskedFor, Proposals, Asked
<1>2. Rejected.action = "reject"
  BY PlainTyped DEF Rejected
<1>3. AskedFor(q).action = "external_model"
  BY DEF AskedFor
<1>4. DecideOn(q, AskedFor(q), models) \in
        {Rejected, [Decision("external_model") EXCEPT
                      !.target = First(Eligible(q, AskedFor(q), models)).id]}
  BY <1>3 DEF DecideOn
<1> QED
  BY <1>1, <1>2, <1>4 DEF Decision

\* An entry that was chosen has a price.
LEMMA ChosenTyped ==
  ASSUME NEW q \in Asked(CallerId), NEW p \in Proposals, NEW models \in Registries,
         NEW m \in Eligible(q, p, models)
  PROVE  m \in ModelEntry /\ EstimatedCost(m, q) \in Nat
<1>1. m \in ModelEntry /\ m.input_price # Unpriced /\ m.output_price # Unpriced
  BY RegistryTyped DEF Eligible, Affordable
<1> QED
  BY <1>1, CostTyped
-----------------------------------------------------------------------------
(* The properties follow from the invariant *)

\* What is known of a request that has been posted.
LEMMA PostedIsChosen ==
  ASSUME Rows, NEW r \in Req, posted[r] > 0
  PROVE  /\ request[r].path = "chat"
         /\ snapshot[r] \in Registries
         /\ DecideAlone(request[r]) = AnalysisNeeded
         /\ cost[r] = EstimatedCost(Entry(decision[r], snapshot[r]), request[r])
         /\ sent[r] \subseteq {Entry(decision[r], snapshot[r])}
         /\ \E p \in Proposals :
              /\ Entry(decision[r], snapshot[r]) \in Eligible(request[r], p, snapshot[r])
              /\ \A n \in Eligible(request[r], p, snapshot[r]) :
                   ~Precedes(n, Entry(decision[r], snapshot[r]))
<1>1. /\ PostedTo(sent[r], request[r], at[r], snapshot[r], decision[r],
                  link[r], posted[r], billable[r])
      /\ Routed(request[r], at[r], snapshot[r], decision[r], cost[r])
  BY DEF Rows, IInv
<1>2. Outgoing(request[r], decision[r])
  BY <1>1 DEF PostedTo
<1>3. Chosen(request[r], snapshot[r], decision[r], cost[r])
  BY <1>1, <1>2 DEF Routed
<1>4. at[r] # "new"
  BY <1>1 DEF PostedTo
<1>5. snapshot[r] \in Registries
  BY <1>1, <1>4 DEF Routed
<1>6. sent[r] \subseteq {Entry(decision[r], snapshot[r])}
  BY <1>1 DEF PostedTo
<1> QED
  BY <1>2, <1>3, <1>5, <1>6 DEF Outgoing, Chosen

LEMMA RequestTyped ==
  ASSUME Rows, NEW r \in Req
  PROVE  request[r] \in Asked(CallerId)
BY DEF Rows, TypeOK

LEMMA NothingLeavesFollows == Rows => NothingLeaves
<1> SUFFICES ASSUME Rows, NEW r \in Req, posted[r] # 0
             PROVE  /\ ExternalEnabled /\ ~request[r].local_only /\ request[r].path # "route"
                    /\ request[r].action \notin {"helper", "local_answer"}
                    /\ request[r].required_capability # "current_information"
  BY DEF NothingLeaves
<1>1. posted[r] > 0
  BY DEF Rows, TypeOK
<1>2. request[r].path = "chat" /\ DecideAlone(request[r]) = AnalysisNeeded
  BY <1>1, PostedIsChosen
<1>3. \E p \in Proposals : Eligible(request[r], p, snapshot[r]) # {}
  BY <1>1, PostedIsChosen
<1>4. ExternalEnabled /\ ~request[r].local_only
  BY <1>3, Zenon DEF Eligible
<1>5. /\ request[r].action \in {"auto", "external_model"}
      /\ request[r].required_capability # "current_information"
  BY <1>2, RequestTyped, UndecidedAsks
<1> QED
  BY <1>2, <1>4, <1>5

LEMMA SentAsPermittedFollows == Rows => SentAsPermitted
<1> SUFFICES ASSUME Rows, NEW r \in Req, NEW m \in sent[r]
             PROVE  m \in snapshot[r] /\ Trusted(m, request[r])
  BY DEF SentAsPermitted
<1>1. posted[r] > 0
  BY DEF Rows, IInv, PostedTo
<1>2. m = Entry(decision[r], snapshot[r])
  BY <1>1, PostedIsChosen
<1>3. PICK p \in Proposals : m \in Eligible(request[r], p, snapshot[r])
  BY <1>1, <1>2, PostedIsChosen
<1> QED
  BY <1>3 DEF Eligible, Trusted, Allowed, Fits, Affordable

LEMMA BestSentFollows == Rows => BestSent
<1> SUFFICES ASSUME Rows, NEW r \in Req, NEW m \in sent[r], NEW n \in snapshot[r],
                    Trusted(n, request[r]), m.capabilities \subseteq n.capabilities,
                    EstimatedCost(n, request[r]) <= EstimatedCost(m, request[r])
             PROVE  n.id = m.id \/ m.priority < n.priority \/ (m.priority = n.priority /\ m.id < n.id)
  BY DEF BestSent
<1> DEFINE q == request[r]
<1>1. posted[r] > 0
  BY DEF Rows, IInv, PostedTo
<1>2. m = Entry(decision[r], snapshot[r]) /\ snapshot[r] \in Registries /\ q \in Asked(CallerId)
  BY <1>1, PostedIsChosen, RequestTyped
<1>3. PICK p \in Proposals :
        /\ m \in Eligible(q, p, snapshot[r])
        /\ \A e \in Eligible(q, p, snapshot[r]) : ~Precedes(e, m)
  BY <1>1, <1>2, PostedIsChosen
<1>4. m \in ModelEntry /\ n \in ModelEntry
  BY <1>2, <1>3, ChosenTyped, RegistryTyped
<1>5. /\ n.input_price # Unpriced /\ n.output_price # Unpriced
      /\ m.input_price # Unpriced /\ m.output_price # Unpriced
  BY <1>3 DEF Trusted, Eligible, Affordable
<1>6. EstimatedCost(n, q) \in Nat /\ EstimatedCost(m, q) \in Nat
  BY <1>2, <1>4, <1>5, CostTyped
<1>7. Limit(q) \in Int
  <2>1. ExternalMaxCost \in Nat /\ q.max_cost \in Nat
    BY <1>2, LimitsAssumption DEF Asked
  <2>2. q.caller # NoCaller => MaxCostOf[q.caller] \in Nat
    BY <1>2, LimitsAssumption DEF Asked
  <2> QED
    BY <2>1, <2>2 DEF Limit, Least
<1>8. Affordable(n, q)
  <2>1. EstimatedCost(m, q) * 2 <= Limit(q)
    BY <1>3 DEF Eligible, Affordable
  <2>2. EstimatedCost(n, q) * 2 <= Limit(q)
    BY <1>6, <1>7, <2>1
  <2> QED
    BY <1>5, <2>2 DEF Affordable
<1>9. n \in Eligible(q, p, snapshot[r])
  BY <1>3, <1>8 DEF Eligible, Trusted, Allowed, Fits
<1>10. ~Precedes(n, m)
  BY <1>3, <1>9
<1>11. /\ m.id \in Nat /\ n.id \in Nat /\ m.priority \in Nat /\ n.priority \in Nat
  BY <1>4 DEF ModelEntry
<1> QED
  BY <1>10, <1>11 DEF Precedes

LEMMA LimitIsLeast ==
  ASSUME NEW q \in Asked(CallerId)
  PROVE  /\ Limit(q) \in Nat /\ Limit(q) <= q.max_cost /\ Limit(q) <= ExternalMaxCost
         /\ q.caller # NoCaller => MaxCostOf[q.caller] \in Nat /\ Limit(q) <= MaxCostOf[q.caller]
<1>1. ExternalMaxCost \in Nat /\ q.max_cost \in Nat
  BY LimitsAssumption DEF Asked
<1>2. q.caller # NoCaller => MaxCostOf[q.caller] \in Nat
  BY LimitsAssumption DEF Asked
<1> QED
  BY <1>1, <1>2 DEF Limit, Least

LEMMA PaidWithinLimitFollows == Rows => PaidWithinLimit
<1> SUFFICES ASSUME Rows, NEW r \in Req
             PROVE  /\ posted[r] * cost[r] <= request[r].max_cost
                    /\ posted[r] * cost[r] <= ExternalMaxCost
                    /\ request[r].caller # NoCaller =>
                         posted[r] * cost[r] <= MaxCostOf[request[r].caller]
  BY DEF PaidWithinLimit
<1>1. request[r] \in Asked(CallerId) /\ posted[r] \in 0..2 /\ cost[r] \in Nat
  BY RequestTyped DEF Rows, TypeOK
<1>2. posted[r] * cost[r] <= Limit(request[r])
  <2>1. CASE posted[r] = 0
    BY <1>1, <2>1, LimitIsLeast
  <2>2. CASE posted[r] > 0
    <3>1. PICK p \in Proposals :
            Entry(decision[r], snapshot[r]) \in Eligible(request[r], p, snapshot[r])
      BY <2>2, PostedIsChosen
    <3>2. EstimatedCost(Entry(decision[r], snapshot[r]), request[r]) * 2 <= Limit(request[r])
      BY <3>1 DEF Eligible, Affordable
    <3>3. cost[r] * 2 <= Limit(request[r])
      BY <2>2, <3>2, PostedIsChosen
    <3>4. Limit(request[r]) \in Nat /\ posted[r] \in {1, 2}
      BY <1>1, <2>2, LimitIsLeast
    <3> QED
      BY <1>1, <3>3, <3>4
  <2> QED
    BY <1>1, <2>1, <2>2
<1>3. posted[r] * cost[r] \in Nat
  BY <1>1
<1>4. /\ Limit(request[r]) \in Nat /\ request[r].max_cost \in Nat /\ ExternalMaxCost \in Nat
      /\ Limit(request[r]) <= request[r].max_cost /\ Limit(request[r]) <= ExternalMaxCost
      /\ request[r].caller # NoCaller =>
           /\ MaxCostOf[request[r].caller] \in Nat
           /\ Limit(request[r]) <= MaxCostOf[request[r].caller]
  BY <1>1, LimitIsLeast, LimitsAssumption DEF Asked
<1> HIDE DEF Limit
<1>5. \A a, b, c \in Nat : a <= b /\ b <= c => a <= c
  OBVIOUS
<1> QED
  BY <1>2, <1>3, <1>4, <1>5
-----------------------------------------------------------------------------
(* The invariant is inductive *)

LEMMA InitRows == Init => Rows
<1> SUFFICES ASSUME Init PROVE Rows
  OBVIOUS
<1>1. AnalysisNeeded \in Decisions /\ AnalysisNeeded.action = "analysis_needed"
  BY PlainTyped DEF AnalysisNeeded
<1>2. TypeOK
  <2>1. request \in [Req -> Asked(CallerId)]
    BY RequestsAssumption DEF Init
  <2>2. reserved \in [CallerId \X Day -> Nat]
    BY DEF Init
  <2>3. \A k \in CallerId \X Day : DailyOf[k[1]] # Unlimited => reserved[k] <= DailyOf[k[1]]
    BY LimitsAssumption DEF Init
  <2>4. decision \in [Req -> Decisions]
    BY <1>1 DEF Init
  <2>5. /\ link \in [Req -> {"idle", "posted", "rejected", "ok", "failed"}]
        /\ posted \in [Req -> 0..2] /\ billable \in [Req -> 0..2]
    BY DEF Init, Up!UpstreamInit, Call
  <2>6. /\ at \in [Req -> Place] /\ result \in [Req -> Result]
        /\ cost \in [Req -> Nat] /\ day \in [Req -> Day \cup {NoDay}]
        /\ snapshot \in [Req -> Registries \cup {{}}] /\ sent \in [Req -> SUBSET ModelEntry]
    BY DEF Init, Place, Result
  <2>7. registry \in Registries /\ reloadFailed \in BOOLEAN /\ today \in Day /\ asked \in SUBSET Req
    BY DayAssumption DEF Init
  <2> QED
    BY <2>1, <2>2, <2>3, <2>4, <2>5, <2>6, <2>7 DEF TypeOK
<1>3. OverrideKept
  BY <1>1 DEF Init, OverrideKept
<1>4. ASSUME NEW r \in Req
      PROVE  Routed(request[r], at[r], snapshot[r], decision[r], cost[r])
  BY <1>1 DEF Init, Routed, Outgoing
<1>5. ASSUME NEW r \in Req
      PROVE  PostedTo(sent[r], request[r], at[r], snapshot[r], decision[r],
                      link[r], posted[r], billable[r])
  BY DEF Init, Up!UpstreamInit, Call, PostedTo
<1> QED
  BY <1>2, <1>3, <1>4, <1>5 DEF Rows, IInv

\* A step of one request leaves the rows of the others consistent.
LEMMA OthersKept ==
  ASSUME IInv, NEW r \in Req, request' = request,
         \A x \in Req \ {r} :
           /\ at'[x] = at[x] /\ snapshot'[x] = snapshot[x]
           /\ decision'[x] = decision[x] /\ cost'[x] = cost[x] /\ sent'[x] = sent[x]
           /\ link'[x] = link[x] /\ posted'[x] = posted[x] /\ billable'[x] = billable[x]
           /\ x \in asked' => x \in asked,
         Routed(request[r], at'[r], snapshot'[r], decision'[r], cost'[r]),
         PostedTo(sent'[r], request[r], at'[r], snapshot'[r], decision'[r],
                  link'[r], posted'[r], billable'[r]),
         request[r].action # "auto" =>
           /\ r \notin asked'
           /\ decision'[r].action \in {request[r].action, "reject", "analysis_needed"}
  PROVE  IInv'
<1>1. OverrideKept'
  BY DEF IInv, OverrideKept
<1>2. ASSUME NEW x \in Req
      PROVE  Routed(request'[x], at'[x], snapshot'[x], decision'[x], cost'[x])
  <2>1. CASE x = r
    BY <2>1
  <2>2. CASE x # r
    BY <2>2 DEF IInv
  <2> QED
    BY <2>1, <2>2
<1>3. ASSUME NEW x \in Req
      PROVE  PostedTo(sent'[x], request'[x], at'[x], snapshot'[x], decision'[x],
                      link'[x], posted'[x], billable'[x])
  <2>1. CASE x = r
    BY <2>1
  <2>2. CASE x # r
    BY <2>2 DEF IInv
  <2> QED
    BY <2>1, <2>2
<1> QED
  BY <1>1, <1>2, <1>3 DEF IInv

\* What the rows of a request say, and its types.
LEMMA RowOf ==
  ASSUME Rows, NEW r \in Req
  PROVE  /\ Routed(request[r], at[r], snapshot[r], decision[r], cost[r])
         /\ PostedTo(sent[r], request[r], at[r], snapshot[r], decision[r],
                     link[r], posted[r], billable[r])
         /\ request[r].action # "auto" =>
              /\ r \notin asked
              /\ decision[r].action \in {request[r].action, "reject", "analysis_needed"}
BY DEF Rows, IInv, OverrideKept

LEMMA FinishTyped ==
  ASSUME Rows, NEW r \in Req, NEW kind \in Result, Finish(r, kind)
  PROVE  /\ at' \in [Req -> Place] /\ result' \in [Req -> Result]
         /\ at'[r] = "done" /\ \A x \in Req \ {r} : at'[x] = at[x]
BY DEF Rows, TypeOK, Finish, Place

LEMMA GotoTyped ==
  ASSUME Rows, NEW r \in Req, NEW place \in Place, Goto(r, place)
  PROVE  /\ at' \in [Req -> Place] /\ result' \in [Req -> Result]
         /\ at'[r] = place /\ \A x \in Req \ {r} : at'[x] = at[x]
BY DEF Rows, TypeOK, Goto

\* The reservation: other days are forgotten, and nothing exceeds a budget.
LEMMA ReserveTyped ==
  ASSUME Rows, NEW r \in Req, NEW c \in Nat, Limited(r),
         (HasRoom(r, c) /\ Reserve(r, c)) \/ Forget
  PROVE  /\ reserved' \in [CallerId \X Day -> Nat]
         /\ \A k \in CallerId \X Day : DailyOf[k[1]] # Unlimited => reserved'[k] <= DailyOf[k[1]]
<1>1. request[r].caller \in CallerId /\ today \in Day
  BY DEF Rows, TypeOK, Limited, Asked
<1> DEFINE k0 == <<request[r].caller, today>>
<1>2. k0 \in CallerId \X Day /\ k0[1] = request[r].caller
  BY <1>1
<1>3. /\ reserved \in [CallerId \X Day -> Nat]
      /\ \A k \in CallerId \X Day : DailyOf[k[1]] # Unlimited => reserved[k] <= DailyOf[k[1]]
  BY DEF Rows, TypeOK
<1>4. \A k \in CallerId \X Day : DailyOf[k[1]] # Unlimited => 0 <= DailyOf[k[1]]
  BY LimitsAssumption
<1>5. CASE HasRoom(r, c) /\ Reserve(r, c)
  <2>1. reserved[k0] + 2 * c <= DailyOf[k0[1]] /\ reserved[k0] + 2 * c \in Nat
    BY <1>2, <1>3, <1>5 DEF HasRoom
  <2>2. reserved' = [j \in CallerId \X Day |->
          CASE j = k0 -> reserved[k0] + 2 * c [] j # k0 /\ j[2] = today -> reserved[j] [] OTHER -> 0]
    BY <1>3, <1>5 DEF Reserve
  <2> HIDE DEF k0
  <2>3. \A j \in CallerId \X Day : reserved'[j] \in {reserved[j], 0} \/ (j = k0 /\ reserved'[j] = reserved[k0] + 2 * c)
    BY <2>2
  <2>4. reserved' \in [CallerId \X Day -> Nat]
    BY <1>3, <2>1, <2>2
  <2> QED
    BY <1>3, <1>4, <2>1, <2>3, <2>4
<1>6. CASE Forget
  BY <1>3, <1>4, <1>6 DEF Forget
<1> QED
  BY <1>5, <1>6

\* The step to the next await of whatever was decided.
LEMMA ExecuteSound ==
  ASSUME Rows, NEW r \in Req, NEW d \in Decisions, NEW models, Execute(r, d, models),
         Outgoing(request[r], d) => EstimatedCost(Entry(d, models), request[r]) \in Nat
  PROVE  /\ decision' \in [Req -> Decisions]
         /\ decision'[r] = d /\ \A x \in Req \ {r} : decision'[x] = decision[x]
         /\ at' \in [Req -> Place] /\ result' \in [Req -> Result]
         /\ at'[r] \in {"done", "provider", "answer", "sandbox"}
         /\ \A x \in Req \ {r} : at'[x] = at[x]
         /\ at'[r] = "provider" => Outgoing(request[r], d)
         /\ cost' \in [Req -> Nat] /\ \A x \in Req \ {r} : cost'[x] = cost[x]
         /\ Outgoing(request[r], d) => cost'[r] = EstimatedCost(Entry(d, models), request[r])
         /\ reserved' \in [CallerId \X Day -> Nat]
         /\ \A k \in CallerId \X Day : DailyOf[k[1]] # Unlimited => reserved'[k] <= DailyOf[k[1]]
         /\ day' \in [Req -> Day \cup {NoDay}]
<1>1. /\ decision' \in [Req -> Decisions]
      /\ decision'[r] = d /\ \A x \in Req \ {r} : decision'[x] = decision[x]
  BY DEF Rows, TypeOK, Execute
<1>2. /\ reserved \in [CallerId \X Day -> Nat]
      /\ \A k \in CallerId \X Day : DailyOf[k[1]] # Unlimited => reserved[k] <= DailyOf[k[1]]
      /\ day \in [Req -> Day \cup {NoDay}] /\ cost \in [Req -> Nat] /\ today \in Day
  BY DEF Rows, TypeOK
<1>3. {"answer", "sandbox", "provider"} \subseteq Place
  BY DEF Place
<1>4. {"route", "answer", "error", "clarify", "denied"} \subseteq Result
  BY DEF Result
<1>5. CASE request[r].path = "route" /\ Finish(r, "route") /\ UNCHANGED <<reserved, day, cost>>
  BY <1>1, <1>2, <1>4, <1>5, FinishTyped DEF Outgoing
<1>6. CASE /\ request[r].path = "chat" /\ d.action = "external_model"
           /\ External(r, EstimatedCost(Entry(d, models), request[r]))
  <2> DEFINE c == EstimatedCost(Entry(d, models), request[r])
  <2>1. Outgoing(request[r], d) /\ c \in Nat
    BY <1>6 DEF Outgoing
  <2>2. cost' = [cost EXCEPT ![r] = c]
    BY <1>6 DEF External
  <2> HIDE DEF c
  <2>3. cost' \in [Req -> Nat] /\ cost'[r] = c /\ \A x \in Req \ {r} : cost'[x] = cost[x]
    BY <1>2, <2>1, <2>2
  <2>4. CASE ~Limited(r) /\ Goto(r, "provider") /\ UNCHANGED <<reserved, day>>
    BY <1>1, <1>2, <1>3, <2>1, <2>3, <2>4, GotoTyped DEF c
  <2>5. CASE /\ Limited(r) /\ HasRoom(r, c) /\ Reserve(r, c)
             /\ day' = [day EXCEPT ![r] = today] /\ Goto(r, "provider")
    <3>1. day' \in [Req -> Day \cup {NoDay}]
      BY <1>2, <2>5
    <3>2. /\ reserved' \in [CallerId \X Day -> Nat]
          /\ \A k \in CallerId \X Day : DailyOf[k[1]] # Unlimited => reserved'[k] <= DailyOf[k[1]]
      BY <2>1, <2>5, ReserveTyped
    <3> QED
      BY <1>1, <1>3, <2>1, <2>3, <2>5, <3>1, <3>2, GotoTyped DEF c
  <2>6. CASE Limited(r) /\ ~HasRoom(r, c) /\ Forget /\ Finish(r, "error") /\ UNCHANGED day
    <3>1. /\ reserved' \in [CallerId \X Day -> Nat]
          /\ \A k \in CallerId \X Day : DailyOf[k[1]] # Unlimited => reserved'[k] <= DailyOf[k[1]]
      BY <2>1, <2>6, ReserveTyped
    <3> QED
      BY <1>1, <1>2, <1>4, <2>1, <2>3, <2>6, <3>1, FinishTyped DEF c
  <2> QED
    BY <1>6, <2>4, <2>5, <2>6 DEF External, c
<1>7. CASE request[r].path = "chat" /\ d.action # "external_model" /\ Local(r, d)
  <2>1. ~Outgoing(request[r], d) /\ UNCHANGED <<reserved, day, cost>>
    BY <1>7 DEF Outgoing, Local
  <2>2. \/ \E place \in {"answer", "sandbox"} : Goto(r, place)
        \/ \E kind \in {"answer", "error", "clarify", "denied"} : Finish(r, kind)
    BY <1>7 DEF Local
  <2>3. CASE \E place \in {"answer", "sandbox"} : Goto(r, place)
    BY <1>1, <1>2, <1>3, <2>1, <2>3, GotoTyped
  <2>4. CASE \E kind \in {"answer", "error", "clarify", "denied"} : Finish(r, kind)
    BY <1>1, <1>2, <1>4, <2>1, <2>4, FinishTyped
  <2> QED
    BY <2>2, <2>3, <2>4
<1> QED
  BY <1>5, <1>6, <1>7 DEF Execute
\* A request is routed: by what it says itself, or on a proposal.
LEMMA RoutedOn ==
  ASSUME Rows, NEW r \in Req, at[r] \in {"new", "count", "generate"},
         NEW d \in Decisions, NEW models \in Registries, Execute(r, d, models),
         snapshot' = [snapshot EXCEPT ![r] = models],
         UNCHANGED <<request, registry, reloadFailed, today, upVars, asked>>,
         d.action = "external_model" =>
           /\ DecideAlone(request[r]) = AnalysisNeeded
           /\ \E p \in Proposals :
                /\ Entry(d, models) \in Eligible(request[r], p, models)
                /\ \A n \in Eligible(request[r], p, models) : ~Precedes(n, Entry(d, models)),
         request[r].action # "auto" => d.action \in {request[r].action, "reject", "analysis_needed"}
  PROVE  Rows'
<1>1. Outgoing(request[r], d) => EstimatedCost(Entry(d, models), request[r]) \in Nat
  BY RequestTyped, ChosenTyped DEF Outgoing
<1>2. /\ decision' \in [Req -> Decisions]
      /\ decision'[r] = d /\ \A x \in Req \ {r} : decision'[x] = decision[x]
      /\ at' \in [Req -> Place] /\ result' \in [Req -> Result]
      /\ at'[r] \in {"done", "provider", "answer", "sandbox"}
      /\ \A x \in Req \ {r} : at'[x] = at[x]
      /\ at'[r] = "provider" => Outgoing(request[r], d)
      /\ cost' \in [Req -> Nat] /\ \A x \in Req \ {r} : cost'[x] = cost[x]
      /\ Outgoing(request[r], d) => cost'[r] = EstimatedCost(Entry(d, models), request[r])
      /\ reserved' \in [CallerId \X Day -> Nat]
      /\ \A k \in CallerId \X Day : DailyOf[k[1]] # Unlimited => reserved'[k] <= DailyOf[k[1]]
      /\ day' \in [Req -> Day \cup {NoDay}]
  BY <1>1, ExecuteSound
<1>3. /\ snapshot' \in [Req -> Registries \cup {{}}]
      /\ snapshot'[r] = models /\ \A x \in Req \ {r} : snapshot'[x] = snapshot[x]
  BY DEF Rows, TypeOK
<1>4. TypeOK'
  BY <1>2, <1>3 DEF Rows, TypeOK, upVars
<1>5. link[r] = "idle" /\ posted[r] = 0 /\ billable[r] = 0 /\ sent[r] = {}
  <2>1. link[r] = "idle" /\ posted[r] = 0 /\ sent[r] = {} /\ billable[r] <= posted[r]
    BY RowOf DEF PostedTo
  <2>2. billable[r] \in 0..2
    BY DEF Rows, TypeOK
  <2> QED
    BY <2>1, <2>2
<1>6. /\ \A x \in Req : /\ link'[x] = link[x] /\ posted'[x] = posted[x]
                        /\ billable'[x] = billable[x] /\ sent'[x] = sent[x]
      /\ asked' = asked /\ request' = request
  BY DEF upVars
<1>7. Outgoing(request[r], d) => Chosen(request[r], models, d, cost'[r])
  BY <1>2 DEF Outgoing, Chosen
<1>8. Routed(request[r], at'[r], snapshot'[r], decision'[r], cost'[r])
  BY <1>2, <1>3, <1>7 DEF Routed
<1>9. PostedTo(sent'[r], request[r], at'[r], snapshot'[r], decision'[r],
               link'[r], posted'[r], billable'[r])
  BY <1>5, <1>6 DEF PostedTo
<1>10. request[r].action # "auto" =>
         /\ r \notin asked'
         /\ decision'[r].action \in {request[r].action, "reject", "analysis_needed"}
  BY <1>2, <1>6, RowOf
<1>11. IInv'
  BY <1>2, <1>3, <1>6, <1>8, <1>9, <1>10, OthersKept DEF Rows
<1> QED
  BY <1>4, <1>11 DEF Rows

\* A request moves to another await, or ends, without having been routed anew.
LEMMA MovedOn ==
  ASSUME Rows, NEW r \in Req, NEW place \in Place \ {"new", "provider"},
         at' \in [Req -> Place], at'[r] = place, \A x \in Req \ {r} : at'[x] = at[x],
         result' \in [Req -> Result],
         \/ UNCHANGED <<snapshot, asked>> /\ at[r] # "new"
         \/ /\ at[r] = "new" /\ \E models \in Registries : snapshot' = [snapshot EXCEPT ![r] = models]
            /\ asked' \in SUBSET Req /\ asked' \subseteq asked \cup {r}
            /\ r \in asked' => request[r].action = "auto",
         place # "done" => at[r] \in {"new", "count", "generate"},
         place \in {"count", "generate"} =>
           DecideAlone(request[r]) = AnalysisNeeded /\ request[r].action # "external_model",
         UNCHANGED <<request, registry, reloadFailed, ledgerVars, decision, cost, upVars, day>>
  PROVE  Rows'
<1>1. /\ snapshot' \in [Req -> Registries \cup {{}}] /\ asked' \in SUBSET Req
      /\ \A x \in Req \ {r} : snapshot'[x] = snapshot[x] /\ (x \in asked' => x \in asked)
      /\ at[r] # "new" => snapshot'[r] = snapshot[r]
      /\ snapshot'[r] \in Registries
  <2>1. CASE UNCHANGED <<snapshot, asked>> /\ at[r] # "new"
    BY <2>1, RowOf DEF Rows, TypeOK, Routed
  <2>2. CASE at[r] = "new" /\ (\E models \in Registries : snapshot' = [snapshot EXCEPT ![r] = models])
             /\ asked' \in SUBSET Req /\ asked' \subseteq asked \cup {r}
    BY <2>2 DEF Rows, TypeOK
  <2> QED
    BY <2>1, <2>2
<1>2. TypeOK'
  BY <1>1 DEF Rows, TypeOK, ledgerVars, upVars
<1>3. /\ \A x \in Req : /\ link'[x] = link[x] /\ posted'[x] = posted[x]
                        /\ billable'[x] = billable[x] /\ sent'[x] = sent[x]
                        /\ decision'[x] = decision[x] /\ cost'[x] = cost[x]
      /\ request' = request
  BY DEF upVars
<1>4. /\ Routed(request[r], at[r], snapshot[r], decision[r], cost[r])
      /\ PostedTo(sent[r], request[r], at[r], snapshot[r], decision[r],
                  link[r], posted[r], billable[r])
  BY RowOf
<1>5. AnalysisNeeded.action = "analysis_needed"
  BY PlainTyped DEF AnalysisNeeded
<1>6. at[r] = "new" => ~Outgoing(request[r], decision[r]) /\ sent[r] = {}
  BY <1>4, <1>5 DEF Routed, PostedTo, Outgoing
<1>7. Routed(request[r], place, snapshot'[r], decision[r], cost[r])
  BY <1>1, <1>4, <1>6 DEF Routed
<1>8. PostedTo(sent[r], request[r], place, snapshot'[r], decision[r],
               link[r], posted[r], billable[r])
  BY <1>1, <1>4, <1>6 DEF PostedTo
<1>9. request[r].action # "auto" =>
        /\ r \notin asked'
        /\ decision[r].action \in {request[r].action, "reject", "analysis_needed"}
  BY RowOf
<1>10. IInv'
  BY <1>1, <1>3, <1>7, <1>8, <1>9, OthersKept DEF Rows
<1> QED
  BY <1>2, <1>10 DEF Rows
LEMMA ArriveConsistent == ASSUME Rows, NEW r \in Req, Arrive(r) PROVE Rows'
<1> DEFINE q == request[r]
           alone == DecideAlone(q)
<1>1. q \in Asked(CallerId) /\ registry \in Registries /\ at[r] = "new"
  BY RequestTyped DEF Rows, TypeOK, Arrive
<1>2. /\ snapshot' = [snapshot EXCEPT ![r] = registry]
      /\ UNCHANGED <<request, registry, reloadFailed, today, upVars>>
  BY DEF Arrive
<1>3. CASE alone # AnalysisNeeded /\ Execute(r, alone, registry) /\ UNCHANGED asked
  <2>1. /\ alone \in Decisions /\ alone.action # "external_model"
        /\ q.action # "auto" => alone.action \in {q.action, "reject", "analysis_needed"}
    BY <1>1, AloneStays
  <2> HIDE DEF alone
  <2> QED
    BY <1>1, <1>2, <1>3, <2>1, RoutedOn
<1>4. CASE /\ alone = AnalysisNeeded /\ q.action = "external_model"
           /\ Execute(r, DecideOn(q, AskedFor(q), registry), registry) /\ UNCHANGED asked
  <2> DEFINE d == DecideOn(q, AskedFor(q), registry)
  <2>1. AskedFor(q) \in Proposals /\ d.action \in {"external_model", "reject"}
    BY <1>1, AskedForSound
  <2>2. /\ d \in Decisions
        /\ d.action = "external_model" =>
             /\ Entry(d, registry) \in Eligible(q, AskedFor(q), registry)
             /\ \A n \in Eligible(q, AskedFor(q), registry) : ~Precedes(n, Entry(d, registry))
    BY <1>1, <2>1, DecisionSound
  <2>3. Execute(r, d, registry) /\ UNCHANGED asked /\ q.action = "external_model"
        /\ DecideAlone(q) = AnalysisNeeded
    BY <1>4
  <2>4. d.action = "external_model" =>
          \E p \in Proposals :
            /\ Entry(d, registry) \in Eligible(q, p, registry)
            /\ \A n \in Eligible(q, p, registry) : ~Precedes(n, Entry(d, registry))
    BY <2>1, <2>2
  <2>5. d \in Decisions /\ d.action \in {"external_model", "reject"}
    BY <2>1, <2>2
  <2> HIDE DEF d
  <2> QED
    BY <1>1, <1>2, <2>3, <2>4, <2>5, RoutedOn
<1>5. CASE /\ alone = AnalysisNeeded /\ q.action # "external_model"
           /\ Goto(r, "count") /\ asked' = asked \cup {r}
           /\ UNCHANGED <<decision, reserved, day, cost>>
  <2>1. q.action = "auto"
    BY <1>1, <1>5, UndecidedAsks
  <2>2. "count" \in Place \ {"new", "provider"} /\ asked' \in SUBSET Req
    BY <1>5 DEF Place, Rows, TypeOK
  <2>3. UNCHANGED <<request, registry, reloadFailed, ledgerVars, decision, cost, upVars, day>>
    BY <1>2, <1>5 DEF ledgerVars
  <2>4. /\ at' \in [Req -> Place] /\ at'[r] = "count" /\ \A x \in Req \ {r} : at'[x] = at[x]
        /\ result' \in [Req -> Result]
    BY <1>5, <2>2, GotoTyped
  <2> QED
    BY <1>1, <1>2, <1>5, <2>1, <2>2, <2>3, <2>4, MovedOn
<1>6. CASE /\ alone = AnalysisNeeded /\ q.action # "external_model"
           /\ Finish(r, "error") /\ UNCHANGED asked /\ UNCHANGED <<decision, reserved, day, cost>>
  <2>1. q.action = "auto"
    BY <1>1, <1>6, UndecidedAsks
  <2>2. "done" \in Place \ {"new", "provider"} /\ "error" \in Result /\ asked \in SUBSET Req
    BY DEF Place, Result, Rows, TypeOK
  <2>3. UNCHANGED <<request, registry, reloadFailed, ledgerVars, decision, cost, upVars, day>>
    BY <1>2, <1>6 DEF ledgerVars
  <2>4. /\ at' \in [Req -> Place] /\ at'[r] = "done" /\ \A x \in Req \ {r} : at'[x] = at[x]
        /\ result' \in [Req -> Result]
    BY <1>6, <2>2, FinishTyped
  <2> QED
    BY <1>1, <1>2, <1>6, <2>1, <2>2, <2>3, <2>4, MovedOn
<1> QED
  BY <1>3, <1>4, <1>5, <1>6 DEF Arrive

\* An end without an answer, once the request has been looked at.
LEMMA EndsConsistent ==
  ASSUME Rows, NEW r \in Req, NEW kind \in Result, at[r] # "new", Finish(r, kind),
         UNCHANGED <<request, registry, reloadFailed, ledgerVars, snapshot, decision, cost,
                     upVars, asked, day>>
  PROVE  Rows'
<1>1. "done" \in Place \ {"new", "provider"}
  BY DEF Place
<1>2. /\ at' \in [Req -> Place] /\ at'[r] = "done" /\ \A x \in Req \ {r} : at'[x] = at[x]
      /\ result' \in [Req -> Result]
  BY FinishTyped
<1> QED
  BY <1>1, <1>2, MovedOn

\* A refusal of what the model was asked about.
LEMMA RefusedConsistent ==
  ASSUME Rows, NEW r \in Req, at[r] \in {"count", "generate"},
         Execute(r, Rejected, snapshot[r]),
         UNCHANGED <<request, registry, reloadFailed, today, snapshot, upVars, asked>>
  PROVE  Rows'
<1>1. snapshot[r] \in Registries
  BY RowOf DEF Routed
<1>2. snapshot' = [snapshot EXCEPT ![r] = snapshot[r]]
  BY DEF Rows, TypeOK
<1>3. Rejected \in Decisions /\ Rejected.action = "reject"
  BY PlainTyped DEF Rejected
<1> QED
  BY <1>1, <1>2, <1>3, RoutedOn

LEMMA CountedConsistent == ASSUME Rows, NEW r \in Req, Counted(r) PROVE Rows'
<1>1. /\ at[r] = "count"
      /\ UNCHANGED <<request, registry, reloadFailed, today, snapshot, upVars, asked>>
  BY DEF Counted
<1>2. CASE Goto(r, "generate") /\ UNCHANGED <<decision, reserved, day, cost>>
  <2>1. DecideAlone(request[r]) = AnalysisNeeded /\ request[r].action # "external_model"
    BY <1>1, RowOf DEF Routed
  <2>2. "generate" \in Place \ {"new", "provider"}
    BY DEF Place
  <2>3. UNCHANGED <<request, registry, reloadFailed, ledgerVars, decision, cost, upVars, day>>
    BY <1>1, <1>2 DEF ledgerVars
  <2>4. /\ at' \in [Req -> Place] /\ at'[r] = "generate" /\ \A x \in Req \ {r} : at'[x] = at[x]
        /\ result' \in [Req -> Result]
    BY <1>2, <2>2, GotoTyped
  <2> QED
    BY <1>1, <2>1, <2>2, <2>3, <2>4, MovedOn
<1>3. CASE Execute(r, Rejected, snapshot[r])
  BY <1>1, <1>3, RefusedConsistent
<1>4. CASE ModelFails(r)
  BY <1>1, <1>4, EndsConsistent DEF ModelFails, ledgerVars, Result
<1> QED
  BY <1>2, <1>3, <1>4 DEF Counted

LEMMA ClassifiedConsistent == ASSUME Rows, NEW r \in Req, Classified(r) PROVE Rows'
<1>1. /\ at[r] = "generate"
      /\ UNCHANGED <<request, registry, reloadFailed, today, snapshot, upVars, asked>>
  BY DEF Classified
<1>2. ASSUME NEW p \in Proposals,
             Execute(r, DecideOn(request[r], p, snapshot[r]), snapshot[r])
      PROVE  Rows'
  <2> DEFINE d == DecideOn(request[r], p, snapshot[r])
  <2>1. /\ DecideAlone(request[r]) = AnalysisNeeded /\ request[r].action # "external_model"
        /\ snapshot[r] \in Registries
    BY <1>1, RowOf DEF Routed
  <2>2. request[r] \in Asked(CallerId)
    BY RequestTyped
  <2>3. request[r].action = "auto"
    BY <2>1, <2>2, UndecidedAsks
  <2>4. /\ d \in Decisions
        /\ d.action = "external_model" =>
             /\ Entry(d, snapshot[r]) \in Eligible(request[r], p, snapshot[r])
             /\ \A n \in Eligible(request[r], p, snapshot[r]) : ~Precedes(n, Entry(d, snapshot[r]))
    BY <2>1, <2>2, DecisionSound
  <2>5. snapshot' = [snapshot EXCEPT ![r] = snapshot[r]]
    BY <1>1 DEF Rows, TypeOK
  <2>6. Execute(r, d, snapshot[r])
    BY <1>2
  <2> HIDE DEF d
  <2> QED
    BY <1>1, <2>1, <2>3, <2>4, <2>5, <2>6, RoutedOn
<1>3. CASE Execute(r, Rejected, snapshot[r])
  BY <1>1, <1>3, RefusedConsistent
<1>4. CASE ModelFails(r)
  BY <1>1, <1>4, EndsConsistent DEF ModelFails, ledgerVars, Result
<1> QED
  BY <1>2, <1>3, <1>4 DEF Classified

LEMMA LocalEndsConsistent == ASSUME Rows, NEW r \in Req, LocalEnds(r) PROVE Rows'
<1>1. PICK kind \in {"answer", "error"} : Finish(r, kind)
  BY DEF LocalEnds
<1>2. kind \in Result
  BY DEF Result
<1> QED
  BY <1>1, <1>2, EndsConsistent DEF LocalEnds
\* A step between a request and its provider.
LEMMA ProviderMoves ==
  ASSUME Rows, NEW r \in Req, at[r] = "provider", NEW place \in {"provider", "done"},
         at' \in [Req -> Place], at'[r] = place, \A x \in Req \ {r} : at'[x] = at[x],
         result' \in [Req -> Result],
         NEW state \in {"posted", "rejected", "ok", "failed"}, link' = [link EXCEPT ![r] = state],
         NEW posts \in 0..2, posted' = [posted EXCEPT ![r] = posts],
         NEW billed \in 0..2, billable' = [billable EXCEPT ![r] = billed],
         NEW entries \in SUBSET {Entry(decision[r], snapshot[r])},
         sent' = [sent EXCEPT ![r] = entries],
         state = "rejected" => posts = 1, state = "posted" => billed > 0, billed <= posts,
         entries # {} => posts > 0,
         UNCHANGED <<request, registry, reloadFailed, ledgerVars, snapshot, decision, cost, asked, day>>
  PROVE  Rows'
<1>1. /\ Outgoing(request[r], decision[r]) /\ snapshot[r] \in Registries
      /\ Chosen(request[r], snapshot[r], decision[r], cost[r])
  BY RowOf DEF Routed
<1>2. Entry(decision[r], snapshot[r]) \in ModelEntry
  BY <1>1, RequestTyped, ChosenTyped DEF Chosen
<1>3. TypeOK'
  <2>1. sent' \in [Req -> SUBSET ModelEntry]
    BY <1>2 DEF Rows, TypeOK
  <2>2. /\ link' \in [Req -> {"idle", "posted", "rejected", "ok", "failed"}]
        /\ posted' \in [Req -> 0..2] /\ billable' \in [Req -> 0..2]
    BY DEF Rows, TypeOK
  <2> QED
    BY <2>1, <2>2 DEF Rows, TypeOK, ledgerVars
<1>4. /\ link'[r] = state /\ posted'[r] = posts /\ billable'[r] = billed /\ sent'[r] = entries
      /\ \A x \in Req \ {r} : /\ link'[x] = link[x] /\ posted'[x] = posted[x]
                              /\ billable'[x] = billable[x] /\ sent'[x] = sent[x]
  BY DEF Rows, TypeOK
<1>5. Routed(request[r], place, snapshot[r], decision[r], cost[r])
  BY <1>1 DEF Routed
<1>6. PostedTo(entries, request[r], place, snapshot[r], decision[r], state, posts, billed)
  BY <1>1 DEF PostedTo
<1>7. request[r].action # "auto" =>
        /\ r \notin asked
        /\ decision[r].action \in {request[r].action, "reject", "analysis_needed"}
  BY RowOf
<1>8. IInv'
  BY <1>4, <1>5, <1>6, <1>7, OthersKept DEF Rows
<1> QED
  BY <1>3, <1>8 DEF Rows

\* What the provider's variables are before such a step.
LEMMA ProviderTyped ==
  ASSUME Rows, NEW r \in Req
  PROVE  /\ posted[r] \in 0..2 /\ billable[r] \in 0..2 /\ billable[r] <= posted[r]
         /\ link[r] \in {"idle", "posted", "rejected", "ok", "failed"}
         /\ link[r] = "idle" => posted[r] = 0
         /\ link[r] = "rejected" => posted[r] = 1
         /\ link[r] = "posted" => billable[r] > 0
         /\ sent[r] \in SUBSET {Entry(decision[r], snapshot[r])}
         /\ sent[r] # {} => posted[r] > 0
         /\ posted = [posted EXCEPT ![r] = posted[r]]
         /\ billable = [billable EXCEPT ![r] = billable[r]]
         /\ sent = [sent EXCEPT ![r] = sent[r]]
<1>1. /\ link[r] = "idle" => posted[r] = 0
      /\ link[r] = "rejected" => posted[r] = 1
      /\ link[r] = "posted" => billable[r] > 0
      /\ billable[r] <= posted[r]
      /\ sent[r] # {} => posted[r] > 0 /\ sent[r] = {Entry(decision[r], snapshot[r])}
  BY RowOf DEF PostedTo
<1> QED
  BY <1>1 DEF Rows, TypeOK

LEMMA PostConsistent == ASSUME Rows, NEW r \in Req, Post(r) PROVE Rows'
<1> DEFINE posts == posted[r] + 1
           billed == billable[r] + 1
           entries == sent[r] \cup {Entry(decision[r], snapshot[r])}
<1>1. /\ at[r] = "provider" /\ link[r] \in {"idle", "rejected"}
      /\ link' = [link EXCEPT ![r] = "posted"]
      /\ posted' = [posted EXCEPT ![r] = posts] /\ billable' = [billable EXCEPT ![r] = billed]
      /\ sent' = [sent EXCEPT ![r] = entries]
      /\ UNCHANGED <<request, registry, reloadFailed, ledgerVars, at, snapshot, decision, cost,
                     result, asked, day>>
  BY DEF Post, Up!Post, Up!LinkTo
<1>2. /\ posts \in 0..2 /\ billed \in 0..2 /\ billed <= posts /\ billed > 0 /\ posts > 0
      /\ entries \in SUBSET {Entry(decision[r], snapshot[r])}
  BY <1>1, ProviderTyped
<1>3. at' \in [Req -> Place] /\ result' \in [Req -> Result] /\ at'[r] = "provider"
  BY <1>1 DEF Rows, TypeOK
<1> HIDE DEF posts, billed, entries
<1> QED
  BY <1>1, <1>2, <1>3, ProviderMoves

LEMMA FailConsistent ==
  ASSUME Rows, NEW r \in Req, NEW kind \in Result, at[r] = "provider", Up!Fail(r), Finish(r, kind),
         UNCHANGED <<request, registry, reloadFailed, ledgerVars, snapshot, decision, cost, sent, asked, day>>
  PROVE  Rows'
<1>1. link' = [link EXCEPT ![r] = "failed"] /\ UNCHANGED <<posted, billable>>
  BY DEF Up!Fail, Up!LinkTo
<1>2. /\ posted' = [posted EXCEPT ![r] = posted[r]] /\ billable' = [billable EXCEPT ![r] = billable[r]]
      /\ sent' = [sent EXCEPT ![r] = sent[r]]
  BY <1>1, ProviderTyped
<1>3. /\ at' \in [Req -> Place] /\ at'[r] = "done" /\ \A x \in Req \ {r} : at'[x] = at[x]
      /\ result' \in [Req -> Result]
  BY FinishTyped
<1>4. /\ posted[r] \in 0..2 /\ billable[r] \in 0..2 /\ billable[r] <= posted[r]
      /\ sent[r] \in SUBSET {Entry(decision[r], snapshot[r])}
      /\ sent[r] # {} => posted[r] > 0
  BY ProviderTyped
<1> QED
  BY <1>1, <1>2, <1>3, <1>4, ProviderMoves

LEMMA ProviderEndsConsistent == ASSUME Rows, NEW r \in Req, ProviderEnds(r) PROVE Rows'
<1>1. /\ at[r] = "provider"
      /\ UNCHANGED <<request, registry, reloadFailed, ledgerVars, snapshot, decision, cost, sent, asked, day>>
  BY DEF ProviderEnds
<1>2. {"error", "answer"} \subseteq Result
  BY DEF Result
<1>3. sent' = [sent EXCEPT ![r] = sent[r]]
  BY <1>1, ProviderTyped
<1>4. CASE Up!Reject(r) /\ (IF posted[r] = 1 THEN UNCHANGED <<at, result>> ELSE Finish(r, "error"))
  <2> DEFINE state == IF posted[r] = 1 THEN "rejected" ELSE "failed"
             billed == billable[r] - 1
             place == IF posted[r] = 1 THEN "provider" ELSE "done"
  <2>1. /\ link[r] = "posted" /\ link' = [link EXCEPT ![r] = state]
        /\ billable' = [billable EXCEPT ![r] = billed] /\ UNCHANGED posted
    BY <1>4 DEF Up!Reject, Up!LinkTo, Up!NotBilled
  <2>2. /\ billed \in 0..2 /\ billed <= posted[r] /\ posted[r] \in 0..2
        /\ state \in {"posted", "rejected", "ok", "failed"} /\ state # "posted"
        /\ state = "rejected" => posted[r] = 1
        /\ place \in {"provider", "done"}
    BY <2>1, ProviderTyped
  <2>3. posted' = [posted EXCEPT ![r] = posted[r]]
    BY <2>1, ProviderTyped
  <2>4. /\ at' \in [Req -> Place] /\ at'[r] = place /\ \A x \in Req \ {r} : at'[x] = at[x]
        /\ result' \in [Req -> Result]
    <3>1. CASE posted[r] = 1
      BY <1>1, <1>4, <3>1 DEF Rows, TypeOK
    <3>2. CASE posted[r] # 1
      BY <1>2, <1>4, <3>2, FinishTyped
    <3> QED
      BY <3>1, <3>2
  <2>5. /\ posted[r] \in 0..2 /\ billable[r] \in 0..2 /\ billable[r] <= posted[r]
        /\ sent[r] \in SUBSET {Entry(decision[r], snapshot[r])}
        /\ sent[r] # {} => posted[r] > 0
    BY ProviderTyped
  <2> HIDE DEF state, billed, place
  <2> QED
    BY <1>1, <1>3, <2>1, <2>2, <2>3, <2>4, <2>5, ProviderMoves
<1>5. CASE Up!Succeed(r) /\ Finish(r, "answer")
  <2>1. link' = [link EXCEPT ![r] = "ok"] /\ UNCHANGED <<posted, billable>>
    BY <1>5 DEF Up!Succeed, Up!LinkTo
  <2>2. posted' = [posted EXCEPT ![r] = posted[r]] /\ billable' = [billable EXCEPT ![r] = billable[r]]
    BY <2>1, ProviderTyped
  <2>3. /\ at' \in [Req -> Place] /\ at'[r] = "done" /\ \A x \in Req \ {r} : at'[x] = at[x]
        /\ result' \in [Req -> Result]
    BY <1>2, <1>5, FinishTyped
  <2>4. /\ posted[r] \in 0..2 /\ billable[r] \in 0..2 /\ billable[r] <= posted[r]
        /\ sent[r] \in SUBSET {Entry(decision[r], snapshot[r])}
        /\ sent[r] # {} => posted[r] > 0
    BY ProviderTyped
  <2> QED
    BY <1>1, <1>3, <2>1, <2>2, <2>3, <2>4, ProviderMoves
<1>6. CASE Up!Fail(r) /\ Finish(r, "error")
  BY <1>1, <1>2, <1>6, FailConsistent
<1> QED
  BY <1>4, <1>5, <1>6 DEF ProviderEnds

LEMMA CancelConsistent == ASSUME Rows, NEW r \in Req, Cancel(r) PROVE Rows'
<1>1. /\ at[r] \notin {"new", "done"} /\ Finish(r, "cancelled")
      /\ UNCHANGED <<request, registry, reloadFailed, ledgerVars, snapshot, decision, cost, sent, asked, day>>
  BY DEF Cancel
<1>2. "cancelled" \in Result
  BY DEF Result
<1>3. CASE at[r] = "provider"
  BY <1>1, <1>2, <1>3, FailConsistent DEF Cancel
<1>4. CASE at[r] # "provider"
  <2>1. UNCHANGED upVars
    BY <1>1, <1>4 DEF Cancel, upVars
  <2> QED
    BY <1>1, <1>2, <2>1, EndsConsistent
<1> QED
  BY <1>3, <1>4

\* Neither the registry nor the clock is part of a request's row.
LEMMA WorldConsistent ==
  ASSUME Rows, registry' \in Registries, reloadFailed' \in BOOLEAN, today' \in Day,
         UNCHANGED <<request, reserved, at, snapshot, decision, cost, result, upVars, asked, day>>
  PROVE  Rows'
<1>1. TypeOK'
  BY DEF Rows, TypeOK, upVars
<1>2. IInv'
  BY DEF Rows, IInv, OverrideKept, upVars
<1> QED
  BY <1>1, <1>2 DEF Rows

LEMMA NextRows == Rows /\ [Next]_vars => Rows'
<1> SUFFICES ASSUME Rows, [Next]_vars PROVE Rows'
  OBVIOUS
<1>1. ASSUME NEW r \in Req, Serve(r) PROVE Rows'
  BY <1>1, ArriveConsistent, CountedConsistent, ClassifiedConsistent, LocalEndsConsistent,
     PostConsistent, ProviderEndsConsistent, CancelConsistent DEF Serve
<1>2. registry \in Registries /\ reloadFailed \in BOOLEAN /\ today \in Day
  BY DEF Rows, TypeOK
<1>3. CASE Reload
  <2>1. registry' \in Registries
    BY <1>2, <1>3 DEF Reload
  <2>2. reloadFailed' \in BOOLEAN
    BY <1>3, Zenon DEF Reload
  <2> QED
    BY <1>2, <1>3, <2>1, <2>2, WorldConsistent DEF Reload, ledgerVars
<1>4. CASE Midnight
  BY <1>2, <1>4, WorldConsistent DEF Midnight
<1>5. CASE UNCHANGED vars
  BY <1>2, <1>5, WorldConsistent DEF vars, ledgerVars
<1> QED
  BY <1>1, <1>3, <1>4, <1>5 DEF Next

-----------------------------------------------------------------------------
(* The reservations cover the posts *)

\* What was charged to a day of which no charge changes stays within a limit
\* that has not become smaller.
LEMMA WithinKept ==
  ASSUME Rows, Rows', NEW c, NEW d, NEW limit \in Nat, NEW more \in Nat, limit <= more,
         Within(c, d, limit), Charged(c, d)' = Charged(c, d),
         \A r \in Charged(c, d) : cost'[r] = cost[r]
  PROVE  Within(c, d, more)'
<1>. DEFINE S == Charged(c, d)
            old == [r \in Req |-> 2 * cost[r]]
            new == [r \in Req |-> 2 * cost'[r]]
<1>1. \A r \in S : new[r] \in Nat /\ old[r] \in Nat /\ new[r] = old[r]
  BY DEF Rows, TypeOK, Charged
<1>2. IsFiniteSet(S) /\ SumFunctionOnSet(old, S) <= limit
  BY DEF Within
<1>. HIDE DEF S, old, new
<1>3. SumFunctionOnSet(new, S) = SumFunctionOnSet(old, S) /\ SumFunctionOnSet(old, S) \in Nat
  BY <1>1, <1>2, SumEqual, SumType
<1>4. SumFunctionOnSet(new, S) <= more
  BY <1>2, <1>3
<1>. QED
  BY <1>2, <1>4 DEF Within, S, new

\* A charge of a day for which two attempts are reserved.
LEMMA WithinMore ==
  ASSUME Rows, Rows', NEW c, NEW d, NEW limit \in Nat, Within(c, d, limit),
         NEW r \in Req, r \notin Charged(c, d), Charged(c, d)' = Charged(c, d) \cup {r},
         \A x \in Charged(c, d) : cost'[x] = cost[x]
  PROVE  Within(c, d, limit + 2 * cost[r])'
<1>. DEFINE S == Charged(c, d)
            T == S \cup {r}
            old == [x \in Req |-> 2 * cost[x]]
            new == [x \in Req |-> 2 * cost'[x]]
<1>1. /\ \A x \in S : new[x] \in Nat /\ old[x] \in Nat /\ new[x] = old[x]
      /\ new[r] = 2 * cost'[r] /\ new[r] \in Nat /\ cost'[r] \in Nat
  BY DEF Rows, TypeOK, Charged
<1>2. IsFiniteSet(S) /\ SumFunctionOnSet(old, S) <= limit
  BY DEF Within
<1>. HIDE DEF old, new
<1>3. IsFiniteSet(T) /\ T \ {r} = S
  <2>1. IsFiniteSet(T)
    BY <1>2, FS_AddElement
  <2>. QED
    BY <2>1
<1>4. SumFunctionOnSet(new, T) = new[r] + SumFunctionOnSet(new, T \ {r})
  <2>1. \A x \in T : new[x] \in Nat
    BY <1>1
  <2>2. r \in T
    OBVIOUS
  <2>. HIDE DEF T
  <2>. QED
    BY <1>3, <2>1, <2>2, SumRemove
<1>. HIDE DEF S, T
<1>5. SumFunctionOnSet(new, S) = SumFunctionOnSet(old, S) /\ SumFunctionOnSet(old, S) \in Nat
  BY <1>1, <1>2, SumEqual, SumType
<1>6. SumFunctionOnSet(new, T) <= limit + 2 * cost'[r]
  <2>1. SumFunctionOnSet(new, T) = 2 * cost'[r] + SumFunctionOnSet(old, S)
    BY <1>1, <1>3, <1>4, <1>5
  <2>2. \A m, n \in Nat : n <= limit => m + n <= limit + m
    OBVIOUS
  <2>3. 2 * cost'[r] \in Nat
    BY <1>1
  <2>. QED
    BY <1>2, <1>5, <2>1, <2>2, <2>3
<1>. QED
  BY <1>3, <1>6 DEF Within, S, T, new

\* What the limits are.
LEMMA LimitsTyped ==
  ASSUME Rows, NEW c \in CallerId, DailyOf[c] # Unlimited, NEW d \in Day
  PROVE  /\ reserved[<<c, d>>] \in Nat /\ DailyOf[c] \in Nat
         /\ reserved[<<c, d>>] <= DailyOf[c]
         /\ d \in Nat /\ today \in Nat
BY LimitsAssumption, DayAssumption DEF Rows, TypeOK

LEMMA InitCovered == Init => Covered
<1>. SUFFICES ASSUME Init PROVE Covered
  OBVIOUS
<1>1. \A c \in CallerId, d \in Day : Charged(c, d) = {}
  BY DayAssumption DEF Init, Charged, NoDay
<1>2. ASSUME NEW c \in CallerId, DailyOf[c] # Unlimited, NEW d \in Day
      PROVE  Within(c, d, IF d = today THEN reserved[<<c, d>>] ELSE DailyOf[c])
  <2>1. IsFiniteSet(Charged(c, d))
    BY <1>1, FS_EmptySet
  <2>2. SumFunctionOnSet([r \in Req |-> 2 * cost[r]], Charged(c, d)) = 0
    BY <1>1, SumEmpty
  <2>3. reserved[<<c, d>>] = 0 /\ DailyOf[c] \in Nat
    BY <1>2, LimitsAssumption DEF Init
  <2>. QED
    BY <2>1, <2>2, <2>3 DEF Within
<1>3. UnroutedUncharged
  BY DEF Init, UnroutedUncharged
<1>. QED
  BY <1>1, <1>2, <1>3 DEF Covered, BudgetsCovered

\* Nothing is charged, or has become cheaper or dearer after it was charged.
LEMMA BudgetsKept ==
  ASSUME Rows, Rows', BudgetsCovered, UNCHANGED <<request, today, day>>,
         \A r \in Req : day[r] # NoDay => cost'[r] = cost[r],
         \A c \in CallerId : DailyOf[c] # Unlimited => reserved'[<<c, today>>] = reserved[<<c, today>>]
  PROVE  BudgetsCovered'
<1>. SUFFICES ASSUME NEW c \in CallerId, DailyOf[c] # Unlimited, NEW d \in Day
              PROVE  /\ d > today' => Charged(c, d)' = {}
                     /\ Within(c, d, IF d = today THEN reserved[<<c, d>>] ELSE DailyOf[c])'
  BY DEF BudgetsCovered
<1>1. Charged(c, d)' = Charged(c, d)
  BY DEF Charged
<1>2. \A r \in Charged(c, d) : cost'[r] = cost[r]
  BY DayAssumption DEF Charged, NoDay
<1>. DEFINE limit == IF d = today THEN reserved[<<c, d>>] ELSE DailyOf[c]
<1>3. limit' = limit /\ limit \in Nat
  BY LimitsTyped
<1>4. Within(c, d, limit)
  BY DEF BudgetsCovered
<1>. HIDE DEF limit
<1>5. Within(c, d, limit)'
  BY <1>1, <1>2, <1>3, <1>4, WithinKept
<1>. QED
  BY <1>1, <1>5 DEF BudgetsCovered, limit

\* A reservation covers the charge it is made for.
LEMMA ReserveCovered ==
  ASSUME Rows, Rows', BudgetsCovered, NEW r \in Req, Limited(r), day[r] = NoDay,
         NEW c \in Nat, Reserve(r, c), day' = [day EXCEPT ![r] = today],
         cost' = [cost EXCEPT ![r] = c], UNCHANGED <<request, today>>
  PROVE  BudgetsCovered'
<1>1. /\ today \in Day /\ request[r].caller \in CallerId /\ NoDay \notin Day
      /\ day'[r] = today /\ \A x \in Req \ {r} : day'[x] = day[x] /\ cost'[x] = cost[x]
      /\ cost'[r] = c
  BY DayAssumption DEF Rows, TypeOK, Limited, Asked, NoDay
<1>. SUFFICES ASSUME NEW e \in CallerId, DailyOf[e] # Unlimited, NEW d \in Day
               PROVE  /\ d > today' => Charged(e, d)' = {}
                      /\ Within(e, d, IF d = today THEN reserved[<<e, d>>] ELSE DailyOf[e])'
  BY DEF BudgetsCovered
<1>3. /\ reserved[<<e, d>>] \in Nat /\ DailyOf[e] \in Nat /\ d \in Nat /\ today \in Nat
      /\ reserved[<<request[r].caller, today>>] \in Nat
  BY <1>1, LimitsTyped DEF Rows, TypeOK
<1>4. /\ Within(e, d, IF d = today THEN reserved[<<e, d>>] ELSE DailyOf[e])
      /\ d > today => Charged(e, d) = {}
  BY DEF BudgetsCovered
<1>5. r \notin Charged(e, d) /\ \A x \in Charged(e, d) : cost'[x] = cost[x]
  BY <1>1 DEF Charged
<1>6. reserved' = [j \in CallerId \X Day |->
        CASE j = <<request[r].caller, today>> -> reserved[<<request[r].caller, today>>] + 2 * c
          [] j # <<request[r].caller, today>> /\ j[2] = today -> reserved[j]
          [] OTHER -> 0]
  BY DEF Reserve, Rows, TypeOK
<1>7. CASE e = request[r].caller /\ d = today
  <2>1. Charged(e, d)' = Charged(e, d) \cup {r}
    BY <1>1, <1>7 DEF Charged
  <2>0. PICK limit \in Nat : limit = reserved[<<e, d>>]
    BY <1>3
  <2>2. reserved'[<<e, d>>] = limit + 2 * cost'[r]
    BY <1>1, <1>6, <1>7, <2>0
  <2>3. Within(e, d, limit)
    BY <1>4, <1>7, <2>0
  <2>4. Within(e, d, limit + 2 * cost[r])'
    BY <1>3, <1>5, <2>1, <2>3, WithinMore
  <2>. QED
    BY <1>3, <1>7, <2>2, <2>4
<1>8. CASE ~(e = request[r].caller /\ d = today)
  <2>1. Charged(e, d)' = Charged(e, d)
    BY <1>1, <1>8 DEF Charged
  <2>2. d = today => reserved'[<<e, d>>] = reserved[<<e, d>>]
    BY <1>6, <1>8
  <2>. DEFINE limit == IF d = today THEN reserved[<<e, d>>] ELSE DailyOf[e]
  <2>3. limit \in Nat /\ limit' = limit
    BY <1>3, <2>2
  <2>4. Within(e, d, limit)
    BY <1>4
  <2>. HIDE DEF limit
  <2>5. Within(e, d, limit)'
    BY <1>5, <2>1, <2>3, <2>4, WithinKept
  <2>. QED
    BY <1>4, <2>1, <2>5 DEF limit
<1>. QED
  BY <1>7, <1>8

\* Whatever is decided, the reservations cover it.
LEMMA ExecuteCovered ==
  ASSUME Rows, Rows', Covered, NEW r \in Req, at[r] \in {"new", "count", "generate"},
         NEW d, NEW models, Execute(r, d, models), UNCHANGED <<request, today>>
  PROVE  Covered'
<1>1. day[r] = NoDay /\ BudgetsCovered /\ UnroutedUncharged
  BY DEF Covered, UnroutedUncharged
<1>. DEFINE c == EstimatedCost(Entry(d, models), request[r])
<1>2. ASSUME UNCHANGED <<reserved, day, cost>> PROVE BudgetsCovered'
  BY <1>1, <1>2, BudgetsKept
<1>3. ASSUME External(r, c) PROVE BudgetsCovered'
  <2>1. cost' = [cost EXCEPT ![r] = c] /\ cost \in [Req -> Nat] /\ cost' \in [Req -> Nat]
    BY <1>3 DEF External, Rows, TypeOK
  <2>. HIDE DEF c
  <2>2. /\ c \in Nat /\ cost'[r] = c /\ \A x \in Req \ {r} : cost'[x] = cost[x]
        /\ \A x \in Req : day[x] # NoDay => cost'[x] = cost[x]
    BY <1>1, <2>1
  <2>3. CASE ~Limited(r) /\ UNCHANGED <<reserved, day>>
    BY <1>1, <2>2, <2>3, BudgetsKept
  <2>4. CASE Limited(r) /\ Reserve(r, c) /\ day' = [day EXCEPT ![r] = today]
    BY <1>1, <2>1, <2>2, <2>4, ReserveCovered
  <2>5. CASE Forget /\ UNCHANGED day
    <3>1. \A e \in CallerId : reserved'[<<e, today>>] = reserved[<<e, today>>]
      BY <2>5 DEF Forget, Rows, TypeOK
    <3>. QED
      BY <1>1, <2>2, <2>5, <3>1, BudgetsKept
  <2>. QED
    BY <1>3, <2>3, <2>4, <2>5 DEF External
<1>4. BudgetsCovered'
  BY <1>2, <1>3 DEF Execute, Local
<1>5. UnroutedUncharged'
  <2>1. \A x \in Req \ {r} : at'[x] = at[x] /\ day'[x] = day[x]
    BY DEF Execute, External, Local, Goto, Finish, Rows, TypeOK
  <2>2. at'[r] \notin {"new", "count", "generate"}
    BY DEF Execute, External, Local, Goto, Finish, Rows, TypeOK
  <2>. QED
    BY <1>1, <2>1, <2>2 DEF UnroutedUncharged
<1>. QED
  BY <1>4, <1>5 DEF Covered

\* A step that charges nothing, and leaves alone where the others are.
LEMMA UnchargedCovered ==
  ASSUME Rows, Rows', Covered, NEW r \in Req, at'[r] \in {"count", "generate"} =>
           at[r] \in {"new", "count", "generate"},
         \A x \in Req \ {r} : at'[x] = at[x], at'[r] # "new",
         UNCHANGED <<request, ledgerVars, cost, day>>
  PROVE  Covered'
<1>1. UnroutedUncharged /\ BudgetsCovered /\ UNCHANGED <<reserved, today>>
  BY DEF Covered, ledgerVars
<1>2. UnroutedUncharged'
  BY <1>1 DEF UnroutedUncharged
<1>3. BudgetsCovered'
  BY <1>1, BudgetsKept
<1>. QED
  BY <1>2, <1>3 DEF Covered

\* At midnight the day's charges are within the budget, as they were within
\* the reservation, and nothing is charged to the next day yet.
LEMMA MidnightCovered ==
  ASSUME Rows, Rows', Covered, Midnight
  PROVE  Covered'
<1>1. /\ UnroutedUncharged /\ BudgetsCovered /\ today + 1 \in Day /\ today' = today + 1
      /\ UNCHANGED <<request, reserved, at, cost, day>>
  BY DEF Covered, Midnight
<1>2. ASSUME NEW c \in CallerId, DailyOf[c] # Unlimited, NEW d \in Day
      PROVE  /\ d > today' => Charged(c, d)' = {}
             /\ Within(c, d, IF d = today THEN reserved[<<c, d>>] ELSE DailyOf[c])'
  <2>1. Charged(c, d)' = Charged(c, d) /\ \A r \in Charged(c, d) : cost'[r] = cost[r]
    BY <1>1 DEF Charged
  <2>2. /\ reserved[<<c, d>>] \in Nat /\ DailyOf[c] \in Nat
        /\ reserved[<<c, d>>] <= DailyOf[c]
        /\ d \in Nat /\ today \in Nat
    BY <1>2, LimitsTyped
  <2>3. PICK limit \in Nat, next \in Nat :
          /\ limit = IF d = today THEN reserved[<<c, d>>] ELSE DailyOf[c]
          /\ next = IF d = today' THEN reserved'[<<c, d>>] ELSE DailyOf[c]
          /\ Within(c, d, limit) /\ (d > today => Charged(c, d) = {})
    BY <1>1, <1>2, <2>2 DEF BudgetsCovered
  <2>4. CASE d # today'
    <3>1. limit <= next
      BY <1>1, <2>2, <2>3, <2>4
    <3>2. Within(c, d, next)'
      BY <2>1, <2>3, <3>1, WithinKept
    <3>. QED
      BY <1>1, <2>1, <2>2, <2>3, <3>2
  <2>5. CASE d = today'
    <3>1. Charged(c, d)' = {}
      BY <1>1, <2>1, <2>2, <2>3, <2>5
    <3>2. SumFunctionOnSet([r \in Req |-> 2 * cost'[r]], Charged(c, d)') = 0
      BY <3>1, SumEmpty
    <3>3. IsFiniteSet(Charged(c, d)')
      BY <3>1, FS_EmptySet
    <3>. QED
      BY <1>1, <2>2, <2>5, <3>1, <3>2, <3>3 DEF Within
  <2>. QED
    BY <2>4, <2>5
<1>3. UnroutedUncharged'
  BY <1>1 DEF UnroutedUncharged
<1>. QED
  BY <1>2, <1>3 DEF Covered, BudgetsCovered

LEMMA ServeCovered ==
  ASSUME Rows, Rows', Covered, NEW r \in Req, Serve(r)
  PROVE  Covered'
<1>0. at \in [Req -> Place] /\ UNCHANGED <<request, today>>
  BY DEF Rows, TypeOK, Serve, Arrive, Counted, Classified, LocalEnds, Post, ProviderEnds, Cancel, ledgerVars
<1>1. ASSUME at[r] \in {"new", "count", "generate"}, NEW d, NEW models, Execute(r, d, models)
      PROVE  Covered'
  BY <1>0, <1>1, ExecuteCovered
<1>2. ASSUME NEW place \in {"count", "generate"}, at[r] \in {"new", "count", "generate"}, Goto(r, place),
             UNCHANGED <<reserved, day, cost>>
      PROVE  Covered'
  <2>1. at'[r] = place /\ \A x \in Req \ {r} : at'[x] = at[x]
    BY <1>0, <1>2 DEF Goto
  <2>. QED
    BY <1>0, <1>2, <2>1, UnchargedCovered DEF ledgerVars
<1>3. ASSUME NEW kind, Finish(r, kind), UNCHANGED <<reserved, day, cost>>
      PROVE  Covered'
  <2>1. at'[r] = "done" /\ \A x \in Req \ {r} : at'[x] = at[x]
    BY <1>0, <1>3 DEF Finish
  <2>. QED
    BY <1>0, <1>3, <2>1, UnchargedCovered DEF ledgerVars
<1>4. ASSUME UNCHANGED <<at, reserved, day, cost>>, at[r] = "provider"
      PROVE  Covered'
  BY <1>0, <1>4, UnchargedCovered DEF ledgerVars
<1>5. CASE Arrive(r)
  <2>1. at[r] = "new"
    BY <1>5 DEF Arrive
  <2>2. \/ \E d : Execute(r, d, registry)
        \/ (Goto(r, "count") \/ Finish(r, "error")) /\ UNCHANGED <<reserved, day, cost>>
    BY <1>5 DEF Arrive
  <2>. QED
    BY <2>1, <2>2, <1>1, <1>2, <1>3
<1>6. CASE Counted(r)
  BY <1>6, <1>1, <1>2, <1>3 DEF Counted, ModelFails
<1>7. CASE Classified(r)
  BY <1>7, <1>1, <1>3 DEF Classified, ModelFails
<1>8. CASE LocalEnds(r)
  BY <1>8, <1>3 DEF LocalEnds, ledgerVars
<1>9. CASE Post(r)
  BY <1>9, <1>4 DEF Post, ledgerVars
<1>10. CASE ProviderEnds(r)
  <2>1. /\ at[r] = "provider" /\ UNCHANGED <<reserved, day, cost>>
        /\ UNCHANGED at \/ Finish(r, "error") \/ Finish(r, "answer")
    BY <1>10 DEF ProviderEnds, ledgerVars
  <2>. QED
    BY <2>1, <1>3, <1>4
<1>11. CASE Cancel(r)
  BY <1>11, <1>3 DEF Cancel, ledgerVars
<1>. QED
  BY <1>5, <1>6, <1>7, <1>8, <1>9, <1>10, <1>11 DEF Serve

LEMMA NextCovered ==
  ASSUME Rows, Rows', Covered, [Next]_vars
  PROVE  Covered'
<1>1. CASE Reload \/ UNCHANGED vars
  <2>1. UNCHANGED <<request, today, reserved, at, cost, day>>
    BY <1>1 DEF Reload, vars, ledgerVars
  <2>2. UnroutedUncharged' /\ BudgetsCovered'
    BY <2>1, BudgetsKept DEF Covered, UnroutedUncharged
  <2>. QED
    BY <2>2 DEF Covered
<1>. QED
  BY <1>1, MidnightCovered, ServeCovered DEF Next

\* Two posts, at the most, of what was charged: no more than twice the cost.
LEMMA DailyBudgetHoldsFollows == Consistent => DailyBudgetHolds
<1>. SUFFICES ASSUME Consistent, NEW c \in CallerId, DailyOf[c] # Unlimited, NEW d \in Day
              PROVE  SumFunctionOnSet([r \in Req |-> posted[r] * cost[r]], Charged(c, d)) <= DailyOf[c]
  BY DEF DailyBudgetHolds
<1>. DEFINE S == Charged(c, d)
            paid == [r \in Req |-> posted[r] * cost[r]]
            twice == [r \in Req |-> 2 * cost[r]]
<1>1. \A r \in S : paid[r] \in Nat /\ twice[r] \in Nat /\ paid[r] <= twice[r]
  <2>. SUFFICES ASSUME NEW r \in S PROVE paid[r] \in Nat /\ twice[r] \in Nat /\ paid[r] <= twice[r]
    OBVIOUS
  <2>1. r \in Req /\ posted[r] \in {0, 1, 2} /\ cost[r] \in Nat
    BY DEF Charged, Consistent, Rows, TypeOK
  <2>2. 0 * cost[r] = 0 /\ 1 * cost[r] = cost[r]
    BY <2>1
  <2>. QED
    BY <2>1, <2>2
<1>2. Rows /\ Within(c, d, IF d = today THEN reserved[<<c, d>>] ELSE DailyOf[c])
  BY DEF Covered, Consistent, BudgetsCovered
<1>3. IsFiniteSet(S) /\ SumFunctionOnSet(twice, S) <= IF d = today THEN reserved[<<c, d>>] ELSE DailyOf[c]
  BY <1>2 DEF Within
<1>. HIDE DEF S, paid, twice
<1>4. /\ SumFunctionOnSet(paid, S) <= SumFunctionOnSet(twice, S)
      /\ SumFunctionOnSet(paid, S) \in Nat /\ SumFunctionOnSet(twice, S) \in Nat
  BY <1>1, <1>3, SumMonotone, SumType
<1>5. SumFunctionOnSet(paid, S) <= DailyOf[c]
  BY <1>2, <1>3, <1>4, LimitsTyped
<1>. QED
  BY <1>5 DEF S, paid

-----------------------------------------------------------------------------
(* The theorems *)

\* Types, every request's row and every budget stay consistent.
THEOREM ConsistentAlways == Spec => []Consistent
<1>1. Init => Consistent
  BY InitRows, InitCovered DEF Consistent
<1>2. Consistent /\ [Next]_vars => Consistent'
  BY NextRows, NextCovered DEF Consistent
<1>. QED
  BY <1>1, <1>2, PTL DEF Spec

\* All the posts charged to a caller's day, had each been billed in full, cost
\* no more than the daily budget, however many requests there are and whenever
\* midnight comes.
THEOREM DailyBudgetHoldsAlways == Spec => []DailyBudgetHolds
BY ConsistentAlways, DailyBudgetHoldsFollows, PTL

\* No content leaves the machine for a request that may not leave it.
THEOREM NothingLeavesAlways == Spec => []NothingLeaves
BY ConsistentAlways, NothingLeavesFollows, PTL DEF Consistent

\* Every post goes to an entry that the request, its caller and the snapshot
\* of its arrival allow.
THEOREM SentAsPermittedAlways == Spec => []SentAsPermitted
BY ConsistentAlways, SentAsPermittedFollows, PTL DEF Consistent

\* No entry is passed over that comes first and is neither less able nor
\* dearer than the chosen one.
THEOREM BestSentAlways == Spec => []BestSent
BY ConsistentAlways, BestSentFollows, PTL DEF Consistent

\* Two attempts cost no more than the request, its caller and the settings
\* allow.
THEOREM PaidWithinLimitAlways == Spec => []PaidWithinLimit
BY ConsistentAlways, PaidWithinLimitFollows, PTL DEF Consistent

\* A request that names what it wants gets that or a refusal.
THEOREM OverrideKeptAlways == Spec => []OverrideKept
<1>1. Consistent => OverrideKept
  BY DEF Consistent, Rows, IInv
<1> QED
  BY <1>1, ConsistentAlways, PTL
=============================================================================
