------------------------------ MODULE Inference ------------------------------
(***************************************************************************)
(* LlamaModel (src/src/omo/inference.py) and its worker process            *)
(* (src/src/omo/inference_worker.py): one-line requests and one-line       *)
(* answers over a pair of pipes, a bounded queue in front of one           *)
(* asyncio.Lock, a worker that is killed whenever its pipe may hold an     *)
(* answer nobody waits for, and the application lifespan that starts and   *)
(* stops it.                                                               *)
(*                                                                         *)
(* A step runs from one await of a coroutine to the next: the event loop   *)
(* is single threaded.  The worker is another process and steps freely.    *)
(***************************************************************************)
EXTENDS Integers, Sequences, FiniteSets

CONSTANTS
  Call,        \* calls of generate or count; each is made at most once
  CountCall,   \* the calls of count, answered by a number of tokens
  Lifespan,    \* the coroutine of create_app that starts and closes the model
  Pid,         \* worker processes the run may create
  NoPid,       \* self.process is None
  NoCall,      \* nobody: the lock is free, a line answers no call
  QueueLimit   \* settings.inference_queue

ASSUME CallAssumption ==
  /\ IsFiniteSet(Call)
  /\ CountCall \subseteq Call
  /\ Lifespan \notin Call
  /\ NoCall \notin Call \cup {Lifespan}
ASSUME PidAssumption == NoPid \notin Pid
ASSUME QueueAssumption == QueueLimit \in Nat \ {0}

Actor == Call \cup {Lifespan}

VARIABLES
  pc,       \* where each coroutine waits
  result,   \* what each call returned or raised
  mine,     \* the process whose pipe or exit a coroutine waits for
  pending,  \* self.pending
  holder,   \* the call that holds self.lock
  ahead,    \* the waiters a queued call is behind in the lock's FIFO
  ready,    \* self.ready
  proc,     \* self.process
  status,   \* the operating system's view of each process
  stdin,    \* requests written and not yet read by a worker
  stdout    \* lines a worker wrote that nobody has read

queueVars == <<pending, holder, ahead>>
pipeVars == <<stdin, stdout>>
modelVars == <<ready, proc>>
vars == <<pc, result, mine, queueVars, modelVars, status, pipeVars>>

CallPc == {"idle", "queued", "spawn", "warmup", "reply", "closing", "done"}
LifespanPc ==
  {"verify", "spawn", "warmup", "setup", "serving", "draining", "closing", "done"}
ResultKind ==
  {"none", "busy", "tokens", "completion", "error", "unavailable", "cancelled"}
LineKind == {"ready", "tokens", "completion", "error"}
Line == [kind : LineKind, of : Call \cup {NoCall}]
ReadyLine == [kind |-> "ready", of |-> NoCall]

\* The pcs between the lock's acquisition and its release.
Holding == {"spawn", "warmup", "reply", "closing"}
\* A process that runs: not yet killed, crashed or collected.
Live == {"loading", "up"}

Init ==
  /\ pc = [a \in Actor |-> IF a = Lifespan THEN "verify" ELSE "idle"]
  /\ result = [c \in Call |-> [kind |-> "none", of |-> NoCall]]
  /\ mine = [a \in Actor |-> NoPid]
  /\ pending = 0
  /\ holder = NoCall
  /\ ahead = [c \in Call |-> {}]
  /\ ready = FALSE
  /\ proc = NoPid
  /\ status = [p \in Pid |-> "unborn"]
  /\ stdin = [p \in Pid |-> <<>>]
  /\ stdout = [p \in Pid |-> <<>>]

-----------------------------------------------------------------------------
(* Pieces of the handlers *)

Queued == {c \in Call : pc[c] = "queued"}

\* returncode is None: asyncio has not collected the exit of self.process.
SpawnReturnsEarly == proc # NoPid /\ status[proc] # "reaped"

\* Calls run until the server cancels the requests it is serving.
Running(a) == a \in Call => pc[Lifespan] = "serving"

\* The form of Leave whose finally clause forgets self.pending.
LeaveKeepsPending(c, kind, of) ==
  /\ pc' = [pc EXCEPT ![c] = "done"]
  /\ result' = [result EXCEPT ![c] = [kind |-> kind, of |-> of]]
  /\ mine' = [mine EXCEPT ![c] = NoPid]
  /\ pending' = pending
  /\ holder' = IF holder = c THEN NoCall ELSE holder
  /\ ahead' = [d \in Call |-> IF d = c THEN {} ELSE ahead[d] \ {c}]

\* The form of Leave that keeps the lock when the call raises.
LeaveKeepsLock(c, kind, of) ==
  /\ pc' = [pc EXCEPT ![c] = "done"]
  /\ result' = [result EXCEPT ![c] = [kind |-> kind, of |-> of]]
  /\ mine' = [mine EXCEPT ![c] = NoPid]
  /\ pending' = pending - 1
  /\ holder' = IF holder = c /\ of = c THEN NoCall ELSE holder
  /\ ahead' = [d \in Call |-> IF d = c THEN {} ELSE ahead[d] \ {c}]

\* Leaving _call: the lock is released, then the finally clause runs.
Leave(c, kind, of) ==
  /\ pc' = [pc EXCEPT ![c] = "done"]
  /\ result' = [result EXCEPT ![c] = [kind |-> kind, of |-> of]]
  /\ mine' = [mine EXCEPT ![c] = NoPid]
  /\ pending' = pending - 1
  /\ holder' = IF holder = c THEN NoCall ELSE holder
  /\ ahead' = [d \in Call |-> IF d = c THEN {} ELSE ahead[d] \ {c}]

\* The form of Kill that forgets the worker without sending the signal.
KillWithoutSignal ==
  /\ ready' = FALSE
  /\ proc' = NoPid
  /\ status' = status

\* close up to its await: self.process is forgotten, then killed.
Kill ==
  /\ ready' = FALSE
  /\ proc' = NoPid
  /\ status' = IF proc # NoPid /\ status[proc] \in Live
               THEN [status EXCEPT ![proc] = "dead"] ELSE status

\* The form of BeginClose that raises without closing.
BeginCloseKeepsWorker(a, kind) ==
  /\ UNCHANGED <<ready, proc, status, queueVars, pipeVars>>
  /\ pc' = [pc EXCEPT ![a] = "closing"]
  /\ mine' = [mine EXCEPT ![a] = NoPid]
  /\ result' = IF a \in Call
               THEN [result EXCEPT ![a] = [kind |-> kind, of |-> NoCall]] ELSE result

\* An error path of the actor that owns the worker: close, and once the
\* worker's exit has been collected raise an error of this kind.
BeginClose(a, kind) ==
  /\ Kill
  /\ pc' = [pc EXCEPT ![a] = "closing"]
  /\ mine' = [mine EXCEPT ![a] = proc]
  /\ result' = IF a \in Call
               THEN [result EXCEPT ![a] = [kind |-> kind, of |-> NoCall]] ELSE result
  /\ UNCHANGED <<queueVars, pipeVars>>

\* A live worker gets the request; the call waits for one line.
SendRequest(c) ==
  /\ pc' = [pc EXCEPT ![c] = "reply"]
  /\ mine' = [mine EXCEPT ![c] = proc]
  /\ stdin' = [stdin EXCEPT ![proc] = Append(@, c)]

\* readline has something to return.
HasLine(a) == mine[a] \in Pid /\ stdout[mine[a]] # <<>>

-----------------------------------------------------------------------------
(* _call up to the lock *)

Refuse(c) ==
  /\ pc[c] = "idle" /\ Running(c)
  /\ pending >= QueueLimit
  /\ pc' = [pc EXCEPT ![c] = "done"]
  /\ result' = [result EXCEPT ![c] = [kind |-> "busy", of |-> NoCall]]
  /\ UNCHANGED <<mine, queueVars, modelVars, status, pipeVars>>

\* The form of Admit that lets one call too many in.
AdmitOneMore(c) ==
  /\ pc[c] = "idle" /\ Running(c)
  /\ pending <= QueueLimit
  /\ pc' = [pc EXCEPT ![c] = "queued"]
  /\ pending' = pending + 1
  /\ ahead' = [ahead EXCEPT ![c] = Queued]
  /\ UNCHANGED <<result, mine, holder, modelVars, status, pipeVars>>

Admit(c) ==
  /\ pc[c] = "idle" /\ Running(c)
  /\ pending < QueueLimit
  /\ pc' = [pc EXCEPT ![c] = "queued"]
  /\ pending' = pending + 1
  /\ ahead' = [ahead EXCEPT ![c] = Queued]
  /\ UNCHANGED <<result, mine, holder, modelVars, status, pipeVars>>

\* asyncio.Lock wakes its waiters in the order they arrived.
TakeLock(c) ==
  /\ pc[c] = "queued" /\ Running(c)
  /\ holder = NoCall /\ ahead[c] = {}
  /\ holder' = c
  /\ ahead' = [d \in Call |-> ahead[d] \ {c}]
  /\ UNCHANGED pending

\* The lock is taken and _spawn returns at once: the worker runs, or has
\* died and asyncio does not know it yet.
AcquireAlive(c) ==
  /\ TakeLock(c)
  /\ SpawnReturnsEarly
  /\ SendRequest(c)
  /\ UNCHANGED <<result, modelVars, status, stdout>>

\* The form of AcquireSpawn that keeps the readiness of a collected worker.
AcquireSpawnStaysReady(c) ==
  /\ TakeLock(c)
  /\ ~SpawnReturnsEarly
  /\ pc' = [pc EXCEPT ![c] = "spawn"]
  /\ UNCHANGED <<result, mine, ready, proc, status, pipeVars>>

\* The lock is taken and there is no worker: _spawn starts one.
AcquireSpawn(c) ==
  /\ TakeLock(c)
  /\ ~SpawnReturnsEarly
  /\ ready' = FALSE
  /\ pc' = [pc EXCEPT ![c] = "spawn"]
  /\ UNCHANGED <<result, mine, proc, status, pipeVars>>

-----------------------------------------------------------------------------
(* _spawn, for a call or for the lifespan *)

SpawnOk(a) ==
  /\ pc[a] = "spawn" /\ Running(a)
  /\ \E p \in Pid :
       /\ status[p] = "unborn"
       /\ proc' = p
       /\ status' = [status EXCEPT ![p] = "loading"]
       /\ mine' = [mine EXCEPT ![a] = p]
  /\ pc' = [pc EXCEPT ![a] = "warmup"]
  /\ UNCHANGED <<result, queueVars, ready, pipeVars>>

\* create_subprocess_exec raises: self.process keeps its old value.
SpawnFail(a) ==
  /\ pc[a] = "spawn" /\ Running(a)
  /\ BeginClose(a, "unavailable")

\* The ready line arrives: _spawn returns, and a call writes its request.
WarmupOk(a) ==
  /\ pc[a] = "warmup" /\ Running(a)
  /\ HasLine(a) /\ Head(stdout[mine[a]]) = ReadyLine
  /\ stdout' = [stdout EXCEPT ![mine[a]] = Tail(@)]
  /\ ready' = TRUE
  /\ \/ a \in Call /\ SendRequest(a)
     \/ /\ a = Lifespan
        /\ pc' = [pc EXCEPT ![a] = "setup"]
        /\ UNCHANGED <<mine, stdin>>
  /\ UNCHANGED <<result, queueVars, proc, status>>

\* Thirty seconds, the end of the pipe or another line: close and raise.
WarmupFail(a) ==
  /\ pc[a] = "warmup" /\ Running(a)
  /\ BeginClose(a, "unavailable")

-----------------------------------------------------------------------------
(* the end of _call *)

\* One line arrives: an answer, or an error that leaves the worker running.
Reply(c) ==
  /\ pc[c] = "reply" /\ Running(c)
  /\ HasLine(c)
  /\ stdout' = [stdout EXCEPT ![mine[c]] = Tail(@)]
  /\ LET line == Head(stdout[mine[c]]) IN Leave(c, line.kind, line.of)
  /\ UNCHANGED <<modelVars, status, stdin>>

\* The deadline, the end of the pipe or a line that is not JSON.
ReplyFail(c) ==
  /\ pc[c] = "reply" /\ Running(c)
  /\ BeginClose(c, "unavailable")

\* close returns: self.process was None, or its exit has been collected.
CloseDone(c) ==
  /\ pc[c] = "closing"
  /\ mine[c] \in Pid => status[mine[c]] = "reaped"
  /\ Leave(c, result[c].kind, NoCall)
  /\ UNCHANGED <<modelVars, status, pipeVars>>

\* The request's task is cancelled: while it waits for the lock nothing is
\* closed; while it owns the worker the worker is closed; inside close the
\* wait for the worker's exit is given up.
CancelWaiting(c) ==
  /\ pc[c] \in {"queued", "closing"}
  /\ Leave(c, "cancelled", NoCall)
  /\ UNCHANGED <<modelVars, status, pipeVars>>

CancelOwner(c) ==
  /\ pc[c] \in {"spawn", "warmup", "reply"}
  /\ BeginClose(c, "cancelled")

Cancel(c) == CancelWaiting(c) \/ CancelOwner(c)

-----------------------------------------------------------------------------
(* the worker process *)

\* The model is loaded and warmed up.
WorkerLoad(p) ==
  /\ status[p] = "loading"
  /\ status' = [status EXCEPT ![p] = "up"]
  /\ stdout' = [stdout EXCEPT ![p] = Append(@, ReadyLine)]
  /\ UNCHANGED <<pc, result, mine, queueVars, modelVars, stdin>>

\* One line in, one line out: an error, a count or a completion.
WorkerServe(p) ==
  /\ status[p] = "up" /\ stdin[p] # <<>>
  /\ stdin' = [stdin EXCEPT ![p] = Tail(@)]
  /\ LET c == Head(stdin[p]) IN
       \E kind \in {"error", IF c \in CountCall THEN "tokens" ELSE "completion"} :
         stdout' = [stdout EXCEPT ![p] = Append(@, [kind |-> kind, of |-> c])]
  /\ UNCHANGED <<pc, result, mine, queueVars, modelVars, status>>

\* The worker dies by itself; what it wrote stays in the pipe.
Crash(p) ==
  /\ status[p] \in Live
  /\ status' = [status EXCEPT ![p] = "dead"]
  /\ UNCHANGED <<pc, result, mine, queueVars, modelVars, pipeVars>>

\* asyncio collects the exit of a dead worker: returncode is known.
Reap(p) ==
  /\ status[p] = "dead"
  /\ status' = [status EXCEPT ![p] = "reaped"]
  /\ UNCHANGED <<pc, result, mine, queueVars, modelVars, pipeVars>>

-----------------------------------------------------------------------------
(* start, close and the lifespan of create_app *)

LifespanTo(next) ==
  /\ pc' = [pc EXCEPT ![Lifespan] = next]
  /\ UNCHANGED <<result, mine, queueVars, modelVars, status, pipeVars>>

\* The artifact matches its manifest; _spawn finds no process.
VerifyOk == pc[Lifespan] = "verify" /\ LifespanTo("spawn")

\* It does not, or the registry or the sandbox fail after the warmup: the
\* application does not start, and the model is closed.
StartupFail ==
  /\ pc[Lifespan] \in {"verify", "setup"}
  /\ BeginClose(Lifespan, "unavailable")

SetupOk == pc[Lifespan] = "setup" /\ LifespanTo("serving")

\* The grace period of the server has passed: it cancels what still runs.
StopServing == pc[Lifespan] = "serving" /\ LifespanTo("draining")

\* The finally clause of lifespan closes the model without the lock.
LifespanClose == pc[Lifespan] = "draining" /\ BeginClose(Lifespan, "unavailable")

LifespanDone ==
  /\ pc[Lifespan] = "closing"
  /\ mine[Lifespan] \in Pid => status[mine[Lifespan]] = "reaped"
  /\ LifespanTo("done")

\* Everything has returned: the only state in which nothing more happens.
Terminating ==
  /\ pc[Lifespan] = "done"
  /\ \A c \in Call : pc[c] \in {"idle", "done"}
  /\ UNCHANGED vars

-----------------------------------------------------------------------------
Progress(a) ==
  \/ SpawnOk(a) \/ SpawnFail(a) \/ WarmupOk(a) \/ WarmupFail(a)
  \/ a \in Call /\ ( \/ AcquireAlive(a) \/ AcquireSpawn(a)
                     \/ Reply(a) \/ ReplyFail(a) \/ CloseDone(a) )

LifespanStep ==
  VerifyOk \/ StartupFail \/ SetupOk \/ StopServing \/ LifespanClose \/ LifespanDone

WorkerStep(p) == WorkerLoad(p) \/ WorkerServe(p) \/ Crash(p) \/ Reap(p)

Next ==
  \/ \E a \in Actor : Progress(a)
  \/ \E c \in Call : Refuse(c) \/ Admit(c) \/ Cancel(c)
  \/ \E p \in Pid : WorkerStep(p)
  \/ LifespanStep
  \/ Terminating

Spec == Init /\ [][Next]_vars

\* Coroutines that can run are run, every wait of theirs is bounded by a
\* timeout, a cancelled task receives its cancellation, and the exit of a
\* killed process is collected.  Nothing makes a client call, a worker
\* answer, a worker crash or the server stop.
Fairness ==
  /\ \A a \in Actor : WF_vars(Progress(a))
  /\ \A c \in Call : WF_vars(pc[Lifespan] # "serving" /\ Cancel(c))
  /\ \A p \in Pid : WF_vars(Reap(p))
  /\ WF_vars(LifespanClose) /\ WF_vars(LifespanDone)

FairSpec == Spec /\ Fairness
-----------------------------------------------------------------------------
(* Properties *)

Typed ==
  /\ pc \in [Actor -> CallPc \cup LifespanPc]
  /\ \A c \in Call : pc[c] \in CallPc
  /\ pc[Lifespan] \in LifespanPc
  /\ result \in [Call -> [kind : ResultKind \cup LineKind, of : Call \cup {NoCall}]]
  /\ mine \in [Actor -> Pid \cup {NoPid}]
  /\ pending \in Int
  /\ holder \in Call \cup {NoCall}
  /\ ahead \in [Call -> SUBSET Call]
  /\ ready \in BOOLEAN
  /\ proc \in Pid \cup {NoPid}
  /\ status \in [Pid -> Live \cup {"unborn", "dead", "reaped"}]
  /\ stdin \in [Pid -> Seq(Call)]
  /\ stdout \in [Pid -> Seq(Line)]

\* Every variable has its type; the queue never grows past inference_queue.
TypeOK == Typed /\ pending \in 0..QueueLimit

\* Calls share one pair of pipes and their lines carry no request id.  A
\* call that returns a line of the worker returns the line written for it,
\* of the kind it asked for, whatever earlier calls timed out, were
\* cancelled or lost their worker.
AnswerMatchesRequest ==
  \A c \in Call :
    /\ result[c].kind \in LineKind => result[c].of = c
    /\ result[c].kind \notin {"ready", IF c \in CountCall THEN "completion" ELSE "tokens"}

\* At most one worker holds the model in memory: the one self.process
\* names.  A worker given up by any error path has been killed.
NoOrphanWorker == \A p \in Pid : status[p] \in Live => proc = p

\* self.pending counts the calls between admission and return exactly, so
\* no sequence of failures and cancellations wears the queue down.
Inside == {c \in Call : pc[c] \notin {"idle", "done"}}
PendingExact == pending = Cardinality(Inside)

\* A worker that is being started or taken down is never announced ready.
RecoveryIsNotReady ==
  \A a \in Actor : pc[a] \in {"spawn", "warmup", "closing"} => ~ready

\* When lifespan has returned no worker runs, although its close takes no
\* lock and calls may be in the middle of starting one.
StoppedMeansNoWorker ==
  pc[Lifespan] = "done" => /\ proc = NoPid
                           /\ \A p \in Pid : status[p] \notin Live

\* There is one worker at most, and none once lifespan has returned.
OneWorker == NoOrphanWorker /\ StoppedMeansNoWorker

\* /health/ready answers 200 only while the warmed up worker is there, as
\* far as asyncio knows.
ReadyMeansWorker == ready => SpawnReturnsEarly

\* Every admitted call returns, though workers may crash at any time and
\* the worker may never answer.
AdmittedCallsFinish == \A c \in Call : pc[c] = "queued" ~> pc[c] = "done"

\* A shutdown that has begun ends, with every call returned.
ShutdownCompletes ==
  pc[Lifespan] = "draining" ~> /\ pc[Lifespan] = "done"
                               /\ Inside = {}

-----------------------------------------------------------------------------
(* The promise to the callers, and how the state above means it *)

RpcState == [c \in Call |-> IF c \in Inside THEN "pending" ELSE pc[c]]
RpcOutcome == [c \in Call |-> IF pc[c] = "done" THEN result[c].kind ELSE "none"]
RpcBefore == [c \in Call |-> IF pc[c] = "queued" /\ holder # NoCall
                             THEN ahead[c] \cup {holder} ELSE ahead[c]]

Rpc == INSTANCE InferenceRpc
       WITH state <- RpcState, outcome <- RpcOutcome, before <- RpcBefore

\* Worker, pipes, lock, crashes and restarts are invisible to the callers:
\* at most inference_queue calls inside, a refusal only when that many are,
\* answers and failures in the order of admission, and to each call its own.
ServesInOrder == Rpc!RpcSpec

-----------------------------------------------------------------------------
(* The inductive invariant *)

\* The lock is held by exactly the call between its acquisition and release.
HolderInv == \A c \in Call : holder = c <=> pc[c] \in Holding

\* A waiter is behind other waiters only, never behind itself, and of two
\* waiters one is behind the other.
QueueInv ==
  \A c \in Call : /\ c \notin ahead[c]
                  /\ \A d \in ahead[c] : pc[d] = "queued"
                  /\ pc[c] # "queued" => ahead[c] = {}
                  /\ \A d \in Queued \ {c} : pc[c] = "queued" =>
                       c \in ahead[d] \/ d \in ahead[c]

\* No call before the model serves; no worker is named once it was closed.
LifespanInv ==
  /\ pc[Lifespan] \notin {"serving", "draining", "closing", "done"} =>
       /\ \A c \in Call : pc[c] \in {"idle", "done"}
  /\ pc[Lifespan] = "verify" => proc = NoPid /\ ~ready
  /\ pc[Lifespan] \in {"closing", "done"} => proc = NoPid

\* What a coroutine that starts, uses or has closed the worker knows of it.
OwnerInv ==
  /\ \A c \in Call : pc[c] = "closing" => result[c].kind \in {"unavailable", "cancelled"}
  /\ \A a \in Actor :
    /\ pc[a] = "spawn" => ~SpawnReturnsEarly
    /\ pc[a] \in {"warmup", "reply"} =>
         \/ proc # NoPid /\ mine[a] = proc
         \/ proc = NoPid /\ a # Lifespan /\ pc[Lifespan] \in {"closing", "done"}

\* A loading worker has written nothing, and is being waited for.
LoadingInv ==
  \A p \in Pid : status[p] = "loading" =>
    stdout[p] = <<>> /\ \E a \in Actor : pc[a] = "warmup"

\* The pipes of the current worker hold what its one user put there or
\* waits for, and nothing when it has no user.
PipeInv ==
  /\ \A p \in Pid : status[p] = "unborn" => stdin[p] = <<>> /\ stdout[p] = <<>>
  /\ proc # NoPid =>
       /\ status[proc] # "unborn"
       /\ \A a \in Actor : pc[a] = "warmup" =>
            stdin[proc] = <<>> /\ stdout[proc] \in {<<>>, <<ReadyLine>>}
       /\ \A c \in Call : pc[c] = "reply" =>
            \/ stdin[proc] = <<c>> /\ stdout[proc] = <<>>
            \/ /\ stdin[proc] = <<>>
               /\ \E kind \in {"error", IF c \in CountCall THEN "tokens" ELSE "completion"} :
                    stdout[proc] = <<[kind |-> kind, of |-> c]>>
       /\ (\A a \in Actor : pc[a] \notin {"warmup", "reply"}) =>
            stdin[proc] = <<>> /\ stdout[proc] = <<>>

IInv ==
  /\ HolderInv /\ QueueInv /\ LifespanInv /\ OwnerInv /\ LoadingInv /\ PipeInv
  /\ NoOrphanWorker /\ AnswerMatchesRequest /\ RecoveryIsNotReady

\* Every variable has its type, and what the actions keep of each other's
\* state between two steps holds.
Consistent == TypeOK /\ IInv

=============================================================================
