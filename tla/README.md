# TLA+ verification of Open Model Orchestrator

Open Model Orchestrator (`src/src/omo`) is an HTTP service on one asyncio event
loop. It decides for each chat request whether to answer it with an embedded
model, a typed helper, a sandbox or a configured external provider, within the
limits of a caller policy. This directory holds TLA+ models of its concurrent
and failure-prone parts, TLC configurations that check them on small instances
and TLAPS proofs of their most important properties for any instance.

Paths below are relative to the root of the repository copy, as in
`PROJECT.json` (`src/src/omo/inference.py`).

## 1. Inventory

| Component | Source | State | Operations | What is hard about it |
|---|---|---|---|---|
| Inference model and worker | `inference.py`, `inference_worker.py` | queue counter, lock, `process`, `ready`, two pipes | `generate`, `count`, `start`, `close`; the worker's load and serve loop | lines carry no request id; the worker may hang or die; calls time out or are cancelled; `close` takes no lock |
| Lifespan | `api.py:158-183`, `__main__.py` | model, provider, sandbox, ledger handles | start, serve, close | failure half way through start; shutdown racing calls |
| Admission and cancellation | `api.py:31-147, 264-332` | `active`, `recent`, one task and one watcher a request | Guard, `cancellable`, `chunks` | slots on every way out; the window's edge; deadline, disconnection and cancellation at once |
| Durable budget ledger | `access.py:86-144` | table `budget_reservations`, the write lock | `reserve` | several processes, a crash between two statements, midnight |
| In-memory budget ledger | `access.py:145-152` | dictionary of reservations | `reserve` | prunes other days; lost at a restart; a clock that steps back |
| Caller policy | `access.py:1-83` | callers, read once | `authenticate` | none: a lookup |
| Orchestrator | `service.py` | a request's decision, snapshot, reservation | `route`, `chat` | two calls of the model for one request; a reservation before a call that may fail |
| Routing policy | `policy.py`, `classification.py`, `contracts.py` | none | `decide`, `eligible_models`, costs | many early returns whose order matters |
| Registry | `registry.py`, `api.py:223-244` | snapshot, times, last error | `reload`, `try_reload`, `status` | reload between two uses of a snapshot; a bad file |
| Provider client | `provider.py` | attempts, event buffer, byte counts | `complete`, `stream`, `collect_stream`, `close` | one retry of a 429; truncated streams; limits |
| Sandbox | `sandbox.py`, `sandbox_worker.py` | pool of two processes | `execute` | checkout timeout against two deadlines |
| CI selection | `ci_changes.py`, `.github/workflows/ci.yml` | none | `changed_paths`, `classify`, `requires_review` | rules that overlap; Git's output cut short; the old name of a rename |
| Model artifact | `scripts/download_model.py`, `materialize_model.py`, `check_model_artifact.py` | the files and their temporaries; the bundle and its manifest | download, materialize, check | kills between two calls of the file system; what a killed run leaves; an export under way while the bundle is checked; a file verified once and opened again by name |
| Release promotion | `scripts/promote_release.py`, `release_manifest.py`, `.github/workflows/release.yml` | images, candidate manifests, evidence, stable manifests | dispatch, validate, build, attest, promote | main moves on; a job run again gives another digest; files of earlier runs are at hand |
| Other scripts, evaluation, training, benchmarks | `scripts/`, `evaluation/`, `training/`, `benchmarks/` | files | batch | sequential, mostly I/O |

**Interactions.** `Guard` admits a request and passes it to a route; chat and
route run `Orchestrator` inside `cancellable`. The orchestrator reads the
registry's current snapshot, calls `LlamaModel.count` and `.generate`
(which share one worker process through one lock), `BudgetLedger.reserve`,
`OpenAIProvider` and `MontySandbox`. `lifespan` starts and closes all of them.
`download_model.py` installs the file `lifespan` verifies and the worker opens;
`ci_changes.py` selects the suites of a pull request, and a release, which selects
all of them, builds the images `promote_release.py` takes.
A cancellation travels the other way: client or deadline -> `cancellable` ->
the operation's task -> `_call`, which kills the worker if it owned it.

**What makes each correct.** Inference: an answer belongs to its request; one
worker at most; the queue counter is exact; calls return. Admission: exact slots,
exact window, no operation outliving its request, errors before the first chunk.
Ledger: no lost update, the daily budget, an honest answer. Orchestrator: a
spending never above its reservation; one snapshot a request. Registry: the last
good snapshot survives a bad reload. Provider: no answer from a truncated stream;
no replay of an ambiguous call. Model files: a name leads to the whole pinned file or
to none. Selection: what a suite runs or reads does not change without it. Promotion:
a stable manifest names tested images of one validated commit, each with its own
evidence. `PROJECT.json` lists the hazards at their lines.

## 2. Modules

| Module | Models | Extends / instantiates |
|---|---|---|
| `InferenceRpc` | abstract: a bounded first-come first-served service that answers each call with its own outcome | |
| `Inference` | `LlamaModel`, its worker process, the lifespan that starts and closes it | `Rpc == INSTANCE InferenceRpc` |
| `MCInference` (`.cfg`, `Live.cfg`, `Ready.cfg`) | TLC instances | `Inference` |
| `InferenceProofs` | theorems | `Inference`, `TLAPS` |
| `Gateway` | `Guard`, `cancellable`, `chunks` | |
| `MCGateway` (`.cfg`, `Live.cfg`) | TLC instances | `Gateway` |
| `GatewayProofs` | theorems | `Gateway`, `TLAPS` |
| `Budget` | abstract: reservations charged one after the other, each if it still fits | |
| `LedgerSqlite` | `BudgetLedger.reserve` statement by statement in several processes | `Promise == INSTANCE Budget` |
| `MCLedgerSqlite` | TLC instance | `LedgerSqlite` |
| `LedgerProofs` | theorems | `LedgerSqlite`, `TLAPS` |
| `Upstream` | abstract: at most two posts a call, the second only after a rejection, and one verdict | |
| `Provider` | `OpenAIProvider.complete`, `stream` and `collect_stream` | `Up == INSTANCE Upstream WITH link <- linkOf` |
| `MCProvider` (`.cfg`, `Failures.cfg`) | TLC instances | `Provider` |
| `ProviderProofs` | theorems | `Provider`, `TLAPS` |
| `Routing` | `decide`, `eligible_models`, costs and limits, as operators | |
| `Orchestrator` | `Orchestrator.route` and `chat`, with the registry's reload and the in-memory ledger | `Routing`; `Up == INSTANCE Upstream` |
| `MCOrchestrator` | TLC instance | `Orchestrator` |
| `OrchestratorProofs` | theorems | `Orchestrator`, `FoldLemmas` |
| `ModelFiles` | the three commands on the model's files, the server's verification, the workers' loading | |
| `MCModelFiles` | TLC instance | `ModelFiles` |
| `ModelFilesProofs` | theorems | `ModelFiles`, `TLAPS` |
| `CiSelection` | `ci_changes.py`: reading Git's output, classification, selection, review, as operators | |
| `Release` | a pull request's pushes; a release from its dispatch to the stable manifest | `CiSelection` |
| `MCRelease` (`.cfg`, `Cut.cfg`) | TLC instances | `Release` |
| `ReleaseProofs` | theorems | `Release`, `FoldLemmas` |
| `FoldLemmas` | lemmas about the folds and sums of the community modules, and induction on sets of numbers | `FiniteSetsExt`, `Functions`, `WellFoundedInduction`, `TLAPS` |

Some modules hold a second form of an action next to the action itself, named
for the mistake it makes (`LeaveKeepsPending`, `BeginDeferred`, ...). No
specification uses them; `PROJECT.json` pairs each with the property that fails
when the form takes the place of the action. `Consistent` is, in each module that has
a proof of it, the type invariant together with the inductive invariant: the runs check
it on a small instance and the proofs start from it.

### Inference

A coroutine's step runs from one `await` to the next, since the event loop is
single threaded; the worker process, the operating system and asyncio's child
watcher step in between. `pc` says where each coroutine waits: a call for the
lock (`queued`), the process (`spawn`), the ready line (`warmup`), its answer
(`reply`) or the exit of the worker it has killed (`closing`); the lifespan
passes through `verify`, `spawn`, `warmup`, `setup`, `serving`, `draining`,
`closing`. `status` is the operating system's view of a process: a dead worker
is `reaped` when asyncio has set `returncode`, and only then does `_spawn` start
another, so a request may be written to a worker that is already dead. Pipes are
sequences; a line is its kind and the call it answers, which the code cannot see.
`ahead` is the FIFO of `asyncio.Lock`. The content of prompts and answers and
the loading of the weights are left out; the timeouts of 30 s (warmup) and of
the request are failures that may happen at any moment of the wait they bound.

### Gateway

`at` is a request's place: reading the body, waiting in `cancellable` (`work`),
waiting there for what it cancelled (`unwind`), streaming. `op` is the task of
the operation. `now` is the clock of the admission window only. `Prune` pops the
head of `recent` while it is older than the window, exactly as the loop does,
and only on an arrival. Authentication and the content-encoding check are a free
choice (`Reject`). A task's cancellation within `cancellable`'s cleanup reaches
the operation through `asyncio.gather`, which still waits for it. What a server
does with a second response start, and whether a delivery timeout reaches Guard
as a `TimeoutError`, depends on the HTTP server and is left out: `StreamEnds`
only says nothing follows what was sent.

### Ledger

Each process runs one `reserve` at a time (its `threading.Lock`): `Call` computes
the day, then `Begin`, `Select` or `SelectTooMuch`, `Upsert`, `Commit`, `Return`.
`Fail` is `sqlite3.Error` at any statement, including the timeout of `BEGIN
IMMEDIATE`. `Crash` kills a process anywhere, which rolls back what it had not
committed; `Restart` brings it back; `Midnight` comes at any time. Amounts are
integers: the rounding of floating point sums is not modelled. The two early
returns without a database access (a negative or non-finite amount, a caller
without a daily budget) change nothing and are left out.

### Provider

`at` is the await a call is at: the pool's connection (`pool`), the status line
(`posted`), the body (`reading`), the sleep before the retry (`backoff`). `Attempt`
is the head of the loop and resets what the loop resets; `parts` and `seen`, which
`collect_stream` keeps outside `stream`, survive it. `Chunk` and `BodyEnds` are
`complete`; `Line` and `StreamEnds` are `stream`, with what `collect_stream` does
with each event it yields. `held` is the line that `aiter_lines` has not seen the end of:
`Piece` lets it grow, and no bound is compared with it. `Line` is its end: it counts the line
and its newline (`LineBytes`), then is a blank line that ends an event (`Event`), a data line
(`DataArrives`), or of no use. `eventBytes` is what `event_data` would be joined to, a newline
between two lines included. Bytes are counted in units, and `Chunk` brings one of them; a data
line's unit stands for its text, its `data:` is left out of it. Where the stream breaks off
within a line, httpx hands over what is left as a line, so `StreamEnds` finds `held` empty. What
JSON says is a choice among what the parser tells apart. An empty body of a plain answer is
no JSON, so it ends as `invalid` only. `served` and `whole`
are what the upstream has really sent, so that `WholeAnswer` compares the result
with it. A call looks to the orchestrator as in `Upstream`: the pool and the
backoff are not visible there.

### Routing and Orchestrator

A request is a record of what routing looks at; its conversation is a calc
command, a question of the local envelope, or something else. `DecideAlone` is
`decide` without a proposal, `DecideOn` with one; the order of their guards is the
order of the early returns. The snapshot of the registry is a set of entries,
taken at `Arrive` and kept to the end; `Reload` comes between any two awaits.
`Arrive`, `Counted` and `Classified` end in `Execute`, which runs through `chat`
to its next await without a step in between: the reservation is made in the step
of the decision. `Post` looks the entry up again by its id. `Up` is used as the
provider, an assumption `ProviderProofs` discharges (`Promise`); what the embedded
model answers to one call is left to `Inference`. In-memory reservations are the
function `reserved`; a charge forgets every other day, as the dictionary does.
The ledger's clock only goes forward, and a post costs at most its estimate:
the code computes the estimate from an upper bound of the tokens.

### ModelFiles

A file is an inode with its chunks, a name leads to an inode or to nothing, and a
command holds an inode open. A step is one call of the file system: the open that
truncates, the write of a chunk, the close, the comparison, `os.replace`, the unlink
of the `finally` clause. `Rerun` kills a command anywhere, or lets one that has ended
be started again. A download finds the `.part` of the one before. A materialization has a
temporary of its own (`NamedTemporaryFile` with `delete=False`): when it is killed the file stays
on disk, and the next run takes another name. In the model the run keeps its name and the file that stays
gets one of `Litter`, a set that bounds how many such files there are. A chunk is good or bad, and a digest tells them apart. `Verify`
is `LlamaModel._verify`, `Load` a worker that opens the file later by its
name. In the bundle a file is the number of the export it is of; the exporter writes
the four files and then the manifest, and the check reads the manifest and then the
files. What the check requires besides is the set of things an export lacks, `Early`
or `Late` by where `validate` looks at it. Once an export is enabled the bundle does
not change: the configuration names an immutable revision.

### CiSelection and Release

A path is the sequence of its parts, a directory of the lists ends with the empty part.
`Fields` is what Git prints, a status and its paths, each up to a NUL; `ParseNameStatus`
folds over it as the loop does. The lists are copied whole. `Classify` takes the answers of all paths
at once: the loop of the code only unites them, and stops where the answer is everything. Paths are
any sequences of parts; what is assumed of them is that there is a part, and that none of the
bare names that decide something ends with `.md` (`MarkdownAssumption`). `Push` adds a change to
the pull request and makes both selections, for every way the workflow can call the
script and every way Git's output can reach it (`Event`, `Output`): whole, without its last path
(`cut`), ending right after a status (`cut_status`), or not at all. An output that ends within a path is a
shorter path and not modelled. A pull request changes a path once in one way. A pull request is followed until the first merge or release. A
release takes the head of main when it is dispatched; `Build` pushes an image for one platform, whether
or not it passes its test, again if the job is run again; its digest is its index in
`built`. `Attest` is the external verifier, `Record` what anyone can put into an evidence
file afterwards: records of any image. `Promote` is `promote_release.build` over any
two candidates at hand. `Tree` gives each commit the model, dataset, evaluation and
policy it pins. The environment's approval, the strict scan and the audit
are passed or not (`Validated`, `End`).

## 3. Runs

| Run | Bounds | Shows |
|---|---|---|
| `inference_safety` | 3 calls (one of `count`), 3 worker processes, queue of 2 | inductive invariant, answers, one worker, counter, readiness, refinement of `InferenceRpc` |
| `inference_liveness` | 2 calls, 3 worker processes, `FairSpec` | every admitted call returns; a begun shutdown ends |
| `inference_ready_flag` | the same | **violation**: `ready` outlives an idle worker that died |
| `gateway_safety` | 3 requests, 2 slots, 2 admissions a window of 2 ticks, 4 instants, 2 events | slots, window, refusals, nothing left behind, errors before chunks |
| `gateway_liveness` | 2 requests, 1 slot, `FairSpec` | slots come back |
| `ledger_sqlite` | 2 processes, 4 requests of 2 callers, 2 days | budget, honest answers, nothing refunded, refinement of `Budget` |
| `provider_calls` | a streamed and a plain call, bodies of 6 units, texts of 1, events of 3, lines of up to 7 | whole answers, what the parser keeps is bounded, refinement of `Upstream` |
| `provider_failures` | one plain call | **violation**: a malformed message escapes as an exception without a provider code |
| `orchestrator` | 2 requests of 4 kinds, 2 callers, 3 registries, 2 days; or 1 request of every kind, 5 registries, every proposal | nothing leaves unless the arrival's snapshot permits it, limits and the daily budget hold, the first permitted entry is taken, overrides are kept, while reloads, midnight and cancellations come between the awaits |
| `model_files` | a download, 2 materializations, one file a killed one leaves, files of one chunk, 2 exports, one of them not reviewed | no name leads to an unfinished model, workers load what was verified, no leftovers, only a whole bundle is approved |
| `release` | 13 paths, one of each kind the lists tell apart; 2 changes; 2 commits, 2 versions, 3 builds | changes select the suites they can break and their review; stable manifests are sound and validated |
| `release_cut` | pull requests of 2 paths and up to 2 changes | **violation**: a list that ends right after a status selects nothing and asks for no review |

**Why the bounds are enough.** Three calls over a queue of two give a holder, a
waiter and a refusal; with three worker processes the lifespan's worker can be
lost and replaced twice, so a lost worker's lines could meet its successor's. (When `Pid` is used up,
only `SpawnFail` remains, which the code must handle anyway.) Three requests on
two slots give a refusal by slots and one by the window, and four instants hold
a window of two and the tick after it. Two processes suffice for a lost update;
alice's three requests do not fit her budget together, so the last is granted or
refused depending on the order; the second day lets midnight fall into any gap.
A body of six units holds two events of one line each, an event of two lines that is longer than
an event may be, and the line past the limit; a line of seven is longer than a whole body may be, so
that it is met while it is held and refused at its end. A text of two is one too
long; every way an attempt ends is met in the first and in the second.

The registries hold
entries that differ in one respect each (host, retention, price, availability, context, capability),
so that every guard of `eligible_models` decides somewhere; alice's daily budget admits one of her
requests and not two. `MCOrchestrator` explores two families in one run: two requests of
few kinds for the interleavings, and one request of any kind, with the other never
arriving, for the decisions; the constraint `Considered` keeps the second family to
one day and, once the request has come, to its snapshot, because reloads and midnights
are what the first family is for.

In `ModelFiles` one chunk is a file that is missing, empty, right or wrong; two would
add a file that is partly right, which a digest treats as wrong. The two
materializations race for one destination; a second download is left out because it
breaks the property (see below). The second export lets the exporter be anywhere in
the bundle while the first is checked; how far it had come when the first was approved makes no difference
to the files, which are followed for one of the cases (the constraint `OneApproval`). One name in
`Litter` lets a materialization be killed at every point where it has a file, and run again beside
what it left.
In `Release` two changes give a path before and after another; the third build is a job run
again, so that evidence of two images of one commit and platform is at hand.

Symmetry is used in safety runs only, over values that no constant tells apart.

**Findings.**

* `GET /health/ready` reports `LlamaModel.ready`, which only `_spawn` and `close`
  reset. An idle worker that dies leaves it at 200, where `docs/API.md:8` says "200
  after pinned model warmup; 503 while unavailable". The next call notices and
  replaces the worker.
* A plain answer whose `message` is no object makes `.get` raise `AttributeError`
  (`provider.py:110`), which `complete` does not map; `docs/API.md:40` says provider
  codes distinguish a malformed response. The trace has a chunk first: an empty body is
  mapped.
* Output of `git diff --name-status -z` that ends right after a status is accepted without that
  change (`ci_changes.py:195`: the last field is never looked at unless a path is owed). With
  `docs/CI.md` before it, a change of `src/api.py` then skips both suites and the review, where
  `docs/CI.md:24-25` says that malformed change sets select both suites.

**Met and not run**, since no property of the runs needs them or the wording leaves room:

* An entry with prices of zero passes `cost * 2 > budget` under a budget of zero
  (`policy.py:85`), where `docs/API.md:22` requires "an explicit positive request budget".
* `adr/001-baseline.md:35` says helper arguments are "not executed automatically",
  while `decide` returns the helper the model proposes (`policy.py:149`) and `chat`
  executes it.
* The docstring of `stream` says that it "bounds both the response and each event"
  (`provider.py:162`); `aiter_lines` keeps a line that has no newline, however long, before
  `total_bytes` is looked at. The line is in the model (`held`), no bound on it is claimed.
* A stream of `[DONE]` alone ends as `provider_empty_response` with 0 `provider_attempts`
  (`provider.py:240`: the attempts are those of the last event), after one or two posts;
  `docs/API.md:40` has responses include provider attempts.
* A killed materialization leaves its temporary file beside the model for good
  (`materialize_model.py:55`); a killed download's `.part` goes with the next download.
* `scripts/download_model.py`, which `Dockerfile:40-41` runs, selects the model suite and not the container
  suite; `LICENSE` and `NOTICE`, which the image carries, select nothing (`LeftOut`).
* Markdown anywhere is spared the review, under `src/` and `.github/workflows/` too, where the
  docstring of `requires_review` (`ci_changes.py:162-164`) has any workflow or source path remain
  reviewable. `UnreviewedIsProse` therefore says of what is executed that only prose is spared.
* The record of the security audit is bound to no image, unlike the other evidence
  (`docs/CI.md:57-62`, `promote_release.py:55`).
* A stable manifest may be made for a version with `-rc`.
* `dependency_lock` is not among the fields the two candidates must share.
* Two downloads at once share one `.part` file: with two members in `Downloader`, TLC
  finds `NeverHalfInstalled` violated. Nothing says the script may be run twice at once.

## 4. Fairness

`Inference!FairSpec`: every coroutine that can step does (the event loop is
fair), every wait of a coroutine ends because it is bounded by a timeout
(`WarmupFail`, `ReplyFail` are always enabled in their wait), a task cancelled
at shutdown receives its cancellation, and the exit of a killed process is
collected. No fairness on clients, on worker answers, on crashes or on the
decision to stop.

`Gateway!FairSpec`: weak fairness of each request's own steps, which the three
timeouts keep enabled; a cancelled operation ends. That last part is
what `Inference` shows of `_call`. An operation that is not cancelled need not
end.

`LedgerSqlite` states no liveness: `BEGIN IMMEDIATE` may lose against other
processes and give up, which the code answers with False.

`ModelFiles` and `Release` state none: commands are run by people. `Provider` and `Orchestrator`
state none either: a provider that sends a line now and
then keeps `stream` reading up to its byte limit, and only the deadline of
`cancellable`, shown in `Gateway`, ends such a request in time.

## 5. Proofs

All constants are arbitrary (finite sets of calls and requests, any limits,
any number of processes), under the named assumptions of each module.

* **`InferenceProofs`**: `Inductive` proves `IInv` from `Init` and `Next`. The
  argument has one centre: *a pipe is used by its owner only*. `HolderInv`
  makes the lock's holder unique, `OwnerInv` ties a waiting owner to the process
  in `self.process`, `LoadingInv` and `PipeInv` say that this process's pipes hold
  the owner's own request or answer, or nothing when there is no owner. Every error
  path forgets and kills the process, so a line nobody waits for is never read.
  `AnswersMatch`, `OneWorkerAlways`, `RecoveryNotReady` and
  `PendingIsExact` follow; `ImplementsRpc` maps every step to a step of
  `InferenceRpc` or a stutter.
* **`GatewayProofs`**: `Inductive` proves `OpInv` (where an operation can be, by
  the place of its request, and the converse), `SlotsExact`, `RecentInv` and
  `RateLimited`. `SlotsExact` rests
  on `StepKinds`: a step takes one free slot, gives one back, or keeps both.
  For the window, `RecentInv` says that `self.recent` holds, in order, the times of
  requests of its own and of every request admitted in the window that ends now.
  `PruneIsWindow` shows that popping the old head leaves exactly that window
  (`InitialSegment`: what is popped is an initial segment, since the times are in
  order), so `Busy` counts what the limit is about (`WindowExact`), and
  `RateLimited` holds of every window when an admission ends it. `SlotsAreExact`,
  `WindowHolds`, `RefusalsAreJustified`, `NothingLeftBehind` and
  `WholeBeforeChunks` follow. The clock is monotonic by assumption
  (`time.monotonic`).
* **`LedgerProofs`**: `WriterInv` (the process in a transaction is the one with
  the write lock) gives `ReservedInv` (what `SELECT` returned is still the row at
  `COMMIT`), which gives `WithinBudget`; `TaskInv` (each process works for a request
  of its own, charged exactly when it is about to return) gives
  `AnswersAreHonest`. `NoRefund` and `ImplementsBudget` follow.
* **`ProviderProofs`**: an action touches one call, which `Frame` says once; each
  action is left with the row of its own call. `CallInv` ties `posted` and `billable` to
  the place of a call (before a post nothing is billable: a retry follows a rejection), and
  what was collected to what this attempt has served. It gives `NotReplayed`,
  `WholeAnswer` and `Bounded`, which holds for lines of any length: a line is counted whole before
  any of it joins the event, and what joins is less than what was counted. That an attempt starts with nothing collected is the
  part of it that makes an answer whole: only an attempt that never reached its body is
  repeated. `Promise` maps every step to one of `Upstream` or a stutter.

* **`OrchestratorProofs`**: a step touches one request (`OthersKept`), whose row is
  `Routed` and `PostedTo`. The centre is `Chosen`: a request that was routed to an external model
  did not say itself what becomes of it (`DecideAlone` is `AnalysisNeeded`), and the
  entry its decision names is in the snapshot of its arrival, is allowed by some proposal and has none
  before it. That an id names one entry (`EntryById`) is the assumption on registries
  which `RegistryStore` enforces; that there is a first entry at all
  (`FirstComesFirst`) rests on the least number of a set, from the library's
  `NatLessThanWellFounded` (`LeastNatural`). `ExecuteSound` follows `chat` to its next await once for all three places
  that route, `RoutedOn` and `MovedOn` are the steps before a post, `ProviderMoves` those after.
  Then `NothingLeaves` is what `Chosen` says of the request, `SentAsPermitted` what it
  says of the entry, `PaidWithinLimit` that the entry was affordable twice and is
  posted to at most twice, and `BestSent` that a permitted entry which can do as much at no
  higher cost is allowed by the same proposal. `ConsistentAlways` also has
  that no reservation exceeds a daily budget.
  `DailyBudgetHoldsAlways` needs more, since the ledger forgets: `Covered` says that two attempts
  of every request charged to a caller's day cost together at most what is *reserved* of
  today, and at most the *budget* of an earlier day, whose row may be gone by now. A charge adds to the sum
  what it adds to the row (`SumRemove`); every other step leaves the charges alone (`SumEqual`); midnight
  turns the row into the budget it never exceeded; nothing is charged to a day to come. A post costs at most
  its estimate, so the posts are below the sum (`SumMonotone`). However many
  requests there are, finitely many have been charged at any time.
* **`ReleaseProofs`**: `ReleaseInvariant`: every image is of the commit its run was
  dispatched for, which was validated before the first build; candidates describe images that
  passed; stable manifests are made of two candidates whose digests have all the
  evidence. Evidence is only added, so `Kept` carries manifests over every step.
  `StableIsSoundAlways` and `StableIsValidatedAlways` follow. Everything is forced when a release
  selects its suites (`Forced`), which needs nothing of the lists.
  `ChangesAreValidatedAlways` does, and rests on two halves. *The reader loses nothing*
  (`NothingLost`): Git's output is the changes one after the other (`FieldsUnfold`); between two
  changes `_parse_name_status` is owed nothing, and right before the last path of a change it is owed one
  (`ReadChange`, `ChunksRead`), so an output cut there is bad, and a whole one gives every path of
  every change, both names of a rename included. An output that ends after a status is left out: there the
  claim is false (`release_cut`). *Every input is on a list, or on none*
  (`ModelInputAnswers`, `RuntimeInputAnswers`): part by part, a path that a suite reads answers with
  this suite, or with everything, or is unknown, which is everything too, but for the three of `LeftOut`; the rules that come first in
  `_classify_path` and the documentation rule that comes last take none of them away. Then
  `SelectedForOne` and `SparedForAll` say the same of a whole change list. `ConsistentAlways` adds the types and
  `SelectionIsRead`: between two pushes nothing touches what was selected.
* **`ModelFilesProofs`**: the centre is that *whoever writes has its own file open*. An open file descriptor is
  that of a command that copies (`OpenFiles`); a materialization's is the file under its own name, with
  exactly what it was sent (`OwnFile`); no two names lead to one file (`NamesDistinct`), and no
  download writes what a materialization has or left (`Apart`). So what was compared with the pinned digest is what is
  renamed. `TunedNeverHalfInstalled` follows for any number of downloads and materializations, and
  `ApprovedWholeHolds` from `Checking`: while a bundle is checked nothing is approved, and what has been
  read is of the export of its manifest. The embedded model's file is different, since all downloads share
  one `.part` (`PartFile`): `ConsistentHolds`, `NeverHalfInstalledHolds`, `LoadsPinnedHolds` and
  `NoLeftoversHolds` (a command that ended by itself left nothing, and nobody opens again what a killed
  materialization left) assume `OneDownloader`, that there is one, run again any number of times. It is no
  fact of the code: the image's build and the operator run the script once at a time, and
  with two at once the properties fail (section 3). `TypeOKHolds` does not need it.
* **`FoldLemmas`**: the community modules define a fold by a recursive function that is chosen by its
  equation. `SetFoldExists` and `ChainExists` show that the equation has a solution, `SumUnfolds` and what
  follows it is what a sum over a finite set does when an element is added, taken away or replaced.
  Induction is over a set of numbers in place of a predicate (`NatSetInduction`, from the
  least number of a set), and what an operator does to a value is a function, because a lemma with an operator for
  a parameter cannot be instantiated.

`GatewayProofs`, `InferenceProofs`, `LedgerProofs`, `OrchestratorProofs`, `ReleaseProofs`
(`ConsistentAlways`) and `ModelFilesProofs` (`ConsistentHolds`) each prove the invariant their runs check.

Every invariant and every action property of the passing runs is a theorem. **Only model-checked** is
liveness (`AdmittedCallsFinish`, `ShutdownCompletes`, `SlotsComeBack`), since TLAPS does not
reason about fairness and ENABLED here.

## 6. Not modelled, and the plan

Not modelled, and why:

* **Sandbox**: `execute` is one await on a library and a table from its exceptions to a
  status; the pool and its deadlines are the library's. `Orchestrator` has the await.
* **Decimal helper**: a pure function of the decimal library.
* **Settings and command line**: validation at start; the bounds it enforces are the assumptions on constants.
* **Contract checks, evaluation, training, benchmarks**: sequential batch programs on
  files, without state that outlives a run.
* The counters of the routes, the look-up of a key, the age of a registry's snapshot:
  one step each, with nothing to interleave with.

Hazards without a property: the order of 30 s and `deadline_seconds`
(`inference.py:74`), since `Inference` has no clock and lets each wait end at any moment; a
delivery timeout after the response has begun (`api.py:115`), which depends on the HTTP
server; a clock that is set back (`access.py:145`); two downloads at once
(`download_model.py:37`, above); a line without an end (`provider.py:185`, above); a registry file
that fails to load (`registry.py:96`), which changes nothing in the model; a `provider.close` that raises (`api.py:181`), after which `model.close` is
never called; a queue that is full for the second of a request's two calls
(`service.py:74`), which `Orchestrator` has as a failure of the model.

Left for later, in this order:

1. `Orchestrator` with `InferenceRpc` in place of its choices: two calls of the model for
   one request, and `model_busy` between them.
2. A timed warmup: one longer than the deadline is cancelled by every request that starts it.
3. `lifespan` with the provider, the sandbox and the ledger, each of whose `close` may raise.
4. The validation and the age of a registry.

The number of runs is kept small: new properties go into the existing runs where their
instances fit.
