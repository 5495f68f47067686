--------------------------- MODULE InferenceProofs ---------------------------
(* What TLAPS proves about Inference, for any number of calls and workers. *)
EXTENDS Inference, FiniteSetTheorems, SequenceTheorems, TLAPS

\* Every variable keeps its type, whatever happens to the worker.
LEMMA TypedInit == Init => Typed
<1> SUFFICES ASSUME Init PROVE Typed
  OBVIOUS
<1> USE CallAssumption DEF Init
<1>1. /\ pc \in [Actor -> CallPc \cup LifespanPc]
      /\ \A c \in Call : pc[c] \in CallPc
      /\ pc[Lifespan] \in LifespanPc
  BY DEF Actor, CallPc, LifespanPc
<1>2. result \in [Call -> [kind : ResultKind \cup LineKind, of : Call \cup {NoCall}]]
  BY DEF ResultKind
<1>7. ready \in BOOLEAN
  BY Zenon
<1>3. /\ pending \in Int /\ holder \in Call \cup {NoCall}
      /\ proc \in Pid \cup {NoPid} /\ mine \in [Actor -> Pid \cup {NoPid}]
      /\ ahead \in [Call -> SUBSET Call]
  OBVIOUS
<1>4. status \in [Pid -> Live \cup {"unborn", "dead", "reaped"}]
  OBVIOUS
<1>5. stdin \in [Pid -> Seq(Call)]
  OBVIOUS
<1>6. stdout \in [Pid -> Seq(Line)]
  OBVIOUS
<1> QED
  BY <1>1, <1>2, <1>3, <1>4, <1>5, <1>6 DEF Typed

\* Reading one line from a pipe, and writing one, keep every pipe's type.
LEMMA PipeRead ==
  ASSUME NEW S, NEW pipe \in [Pid -> Seq(S)], NEW p \in Pid, pipe[p] # <<>>
  PROVE  /\ Head(pipe[p]) \in S
         /\ [pipe EXCEPT ![p] = Tail(@)] \in [Pid -> Seq(S)]
<1>1. Head(pipe[p]) \in S /\ Tail(pipe[p]) \in Seq(S)
  BY HeadTailProperties
<1> QED
  BY <1>1

LEMMA PipeWrite ==
  ASSUME NEW S, NEW pipe \in [Pid -> Seq(S)], NEW p \in Pid, NEW x \in S
  PROVE  [pipe EXCEPT ![p] = Append(@, x)] \in [Pid -> Seq(S)]
<1>1. Append(pipe[p], x) \in Seq(S)
  BY AppendProperties
<1> QED
  BY <1>1

LEMMA TypedStep == Typed /\ [Next]_vars => Typed'
<1> SUFFICES ASSUME Typed, [Next]_vars PROVE Typed'
  OBVIOUS
<1> USE CallAssumption, PidAssumption, QueueAssumption
<1> USE DEF Typed, Actor, CallPc, LifespanPc, Live, queueVars, modelVars, pipeVars
<1>leave. ASSUME NEW c \in Call, NEW kind \in ResultKind \cup LineKind,
                 NEW of \in Call \cup {NoCall}, Leave(c, kind, of),
                 UNCHANGED <<modelVars, status, stdin>>, stdout' \in [Pid -> Seq(Line)]
          PROVE Typed'
  BY <1>leave DEF Leave
<1>close. ASSUME NEW a \in Actor, NEW kind \in ResultKind, BeginClose(a, kind)
          PROVE Typed'
  BY <1>close DEF BeginClose, Kill
<1>1. ASSUME NEW a \in Actor, SpawnOk(a) PROVE Typed'
  BY <1>1 DEF SpawnOk
<1>2. ASSUME NEW a \in Actor, SpawnFail(a) PROVE Typed'
  BY <1>2, <1>close DEF SpawnFail, ResultKind
<1>3. ASSUME NEW a \in Actor, WarmupOk(a) PROVE Typed'
  <2>1. stdout' \in [Pid -> Seq(Line)]
    BY <1>3, PipeRead DEF WarmupOk, HasLine
  <2>2. stdin' \in [Pid -> Seq(Call)]
    <3>1. CASE a \in Call /\ SendRequest(a)
      <4>1. CASE proc \in Pid
        BY <3>1, <4>1, PipeWrite DEF SendRequest
      <4> QED
        BY <3>1, <4>1 DEF SendRequest
    <3> QED
      BY <1>3, <3>1 DEF WarmupOk
  <2>3. ready' \in BOOLEAN
    BY <1>3, Zenon DEF WarmupOk
  <2>4. pc' \in [Actor -> CallPc \cup LifespanPc] /\ mine' \in [Actor -> Pid \cup {NoPid}]
        /\ (\A c \in Call : pc'[c] \in CallPc) /\ pc'[Lifespan] \in LifespanPc
    <3>1. CASE a \in Call /\ SendRequest(a)
      BY <3>1 DEF SendRequest
    <3>2. CASE a = Lifespan /\ pc' = [pc EXCEPT ![a] = "setup"] /\ mine' = mine
      BY <3>2
    <3> QED
      BY <1>3, <3>1, <3>2 DEF WarmupOk
  <2> QED
    BY <1>3, <2>1, <2>2, <2>3, <2>4 DEF WarmupOk
<1>4. ASSUME NEW a \in Actor, WarmupFail(a) PROVE Typed'
  BY <1>4, <1>close DEF WarmupFail, ResultKind
<1>5. ASSUME NEW c \in Call, AcquireAlive(c) PROVE Typed'
  BY <1>5 DEF AcquireAlive, TakeLock, SendRequest, SpawnReturnsEarly
<1>6. ASSUME NEW c \in Call, AcquireSpawn(c) PROVE Typed'
  BY <1>6 DEF AcquireSpawn, TakeLock
<1>7. ASSUME NEW c \in Call, Reply(c) PROVE Typed'
  <2>2. stdout' \in [Pid -> Seq(Line)]
    BY <1>7, PipeRead DEF Reply, HasLine
  <2>3. Head(stdout[mine[c]]) \in Line
    BY <1>7, PipeRead DEF Reply, HasLine
  <2> QED
    BY <1>7, <1>leave, <2>2, <2>3 DEF Reply, Line
<1>8. ASSUME NEW c \in Call, ReplyFail(c) PROVE Typed'
  BY <1>8, <1>close DEF ReplyFail, ResultKind
<1>9. ASSUME NEW c \in Call, CloseDone(c) PROVE Typed'
  BY <1>9, <1>leave DEF CloseDone
<1>10. ASSUME NEW c \in Call, Refuse(c) PROVE Typed'
  BY <1>10 DEF Refuse, ResultKind
<1>11. ASSUME NEW c \in Call, Admit(c) PROVE Typed'
  BY <1>11 DEF Admit, Queued
<1>12. ASSUME NEW c \in Call, Cancel(c) PROVE Typed'
  BY <1>12, <1>leave, <1>close DEF Cancel, CancelWaiting, CancelOwner, ResultKind
<1>13. ASSUME NEW p \in Pid, WorkerLoad(p) PROVE Typed'
  <2>1. ReadyLine \in Line
    BY DEF ReadyLine, Line, LineKind
  <2>2. stdout' \in [Pid -> Seq(Line)]
    BY <1>13, <2>1, PipeWrite DEF WorkerLoad
  <2> QED
    BY <1>13, <2>2 DEF WorkerLoad
<1>14. ASSUME NEW p \in Pid, WorkerServe(p) PROVE Typed'
  <2>1. Head(stdin[p]) \in Call /\ stdin' \in [Pid -> Seq(Call)]
    BY <1>14, PipeRead DEF WorkerServe
  <2>2. \A kind \in LineKind : [kind |-> kind, of |-> Head(stdin[p])] \in Line
    BY <2>1 DEF Line
  <2>3. stdout' \in [Pid -> Seq(Line)]
    BY <1>14, <2>2, PipeWrite DEF WorkerServe, LineKind
  <2> QED
    BY <1>14, <2>1, <2>3 DEF WorkerServe
<1>15. ASSUME NEW p \in Pid, Crash(p) PROVE Typed'
  BY <1>15 DEF Crash
<1>16. ASSUME NEW p \in Pid, Reap(p) PROVE Typed'
  BY <1>16 DEF Reap
<1>17. CASE LifespanStep
  <2>1. ASSUME NEW to \in LifespanPc, LifespanTo(to) PROVE Typed'
    BY <2>1 DEF LifespanTo
  <2> QED
    BY <1>17, <2>1, <1>close
    DEF LifespanStep, VerifyOk, StartupFail, SetupOk, StopServing, LifespanClose,
        LifespanDone, ResultKind
<1>18. CASE UNCHANGED vars
  BY <1>18 DEF vars
<1> QED
  BY <1>1, <1>2, <1>3, <1>4, <1>5, <1>6, <1>7, <1>8, <1>9, <1>10, <1>11, <1>12,
     <1>13, <1>14, <1>15, <1>16, <1>17, <1>18
  DEF Next, Progress, WorkerStep, Terminating

-----------------------------------------------------------------------------
(* Kinds of steps *)

LEMMA OneLine ==
  ASSUME NEW x
  PROVE  Head(<<x>>) = x /\ Tail(<<x>>) = <<>> /\ Append(<<>>, x) = <<x>>
OBVIOUS

\* An actor that owns the worker, or the lifespan outside of it, closes.
Closes ==
  \E a \in Actor, kind \in {"unavailable", "cancelled"} :
    /\ a \in Call => pc[a] \in {"spawn", "warmup", "reply"}
    /\ a = Lifespan => pc[a] \in {"verify", "spawn", "warmup", "setup", "draining"}
    /\ BeginClose(a, kind)

\* A call returns without an answer, from the queue or from close.
GivesUp ==
  \E c \in Call, kind \in {"unavailable", "cancelled"} :
    /\ pc[c] \in {"queued", "closing"}
    /\ pc[c] = "queued" => kind = "cancelled"
    /\ Leave(c, kind, NoCall)
    /\ UNCHANGED <<modelVars, status, pipeVars>>

LifespanMoves == VerifyOk \/ SetupOk \/ StopServing \/ LifespanDone

\* Every step is of one of these kinds.
LEMMA StepKinds ==
  ASSUME Typed, OwnerInv, [Next]_vars
  PROVE  \/ Closes \/ GivesUp \/ LifespanMoves \/ UNCHANGED vars
         \/ \E c \in Call : Refuse(c) \/ Admit(c) \/ AcquireAlive(c) \/ AcquireSpawn(c) \/ Reply(c)
         \/ \E a \in Actor : SpawnOk(a) \/ WarmupOk(a)
         \/ \E p \in Pid : WorkerLoad(p) \/ WorkerServe(p) \/ Crash(p) \/ Reap(p)
<1> USE CallAssumption DEF Actor
<1>1. ASSUME NEW a \in Actor, SpawnFail(a) \/ WarmupFail(a) PROVE Closes
  BY <1>1 DEF SpawnFail, WarmupFail, Closes
<1>2. ASSUME NEW c \in Call, ReplyFail(c) \/ CancelOwner(c) PROVE Closes
  BY <1>2 DEF ReplyFail, CancelOwner, Closes
<1>3. ASSUME StartupFail \/ LifespanClose PROVE Closes
  BY <1>3 DEF StartupFail, LifespanClose, Closes
<1>4. ASSUME NEW c \in Call, CloseDone(c) PROVE GivesUp
  <2> DEFINE kind == result[c].kind
  <2>1. kind \in {"unavailable", "cancelled"}
    BY <1>4 DEF CloseDone, OwnerInv
  <2>2. /\ pc[c] = "closing" /\ Leave(c, kind, NoCall)
        /\ UNCHANGED <<modelVars, status, pipeVars>>
    BY <1>4 DEF CloseDone
  <2> HIDE DEF kind
  <2> QED
    BY <2>1, <2>2 DEF GivesUp
<1>5. ASSUME NEW c \in Call, CancelWaiting(c) PROVE GivesUp
  BY <1>5 DEF CancelWaiting, GivesUp
<1> QED
  BY <1>1, <1>2, <1>3, <1>4, <1>5
  DEF Next, Progress, WorkerStep, LifespanStep, LifespanMoves, Cancel, Terminating

-----------------------------------------------------------------------------
(* The queue and its lock *)

\* The lock is held by exactly the call between its acquisition and release.
LEMMA HolderStep ==
  ASSUME Typed, OwnerInv, HolderInv, [Next]_vars
  PROVE  HolderInv'
<1> USE CallAssumption DEF Typed, HolderInv, Holding, Actor, CallPc, LifespanPc, queueVars, modelVars, pipeVars
<1>1. CASE Closes
  BY <1>1 DEF Closes, BeginClose, Kill
<1>2. CASE GivesUp
  BY <1>2 DEF GivesUp, Leave
<1>3. ASSUME NEW c \in Call, Refuse(c) PROVE HolderInv'
  BY <1>3 DEF Refuse
<1>4. ASSUME NEW c \in Call, Admit(c) PROVE HolderInv'
  BY <1>4 DEF Admit, Queued
<1>5. ASSUME NEW c \in Call, AcquireAlive(c) PROVE HolderInv'
  BY <1>5 DEF AcquireAlive, TakeLock, SendRequest
<1>6. ASSUME NEW c \in Call, AcquireSpawn(c) PROVE HolderInv'
  BY <1>6 DEF AcquireSpawn, TakeLock
<1>7. ASSUME NEW c \in Call, Reply(c) PROVE HolderInv'
  BY <1>7 DEF Reply, Leave
<1>8. ASSUME NEW a \in Actor, SpawnOk(a) PROVE HolderInv'
  BY <1>8 DEF SpawnOk
<1>9. ASSUME NEW a \in Actor, WarmupOk(a) PROVE HolderInv'
  BY <1>9 DEF WarmupOk, SendRequest
<1>10. ASSUME NEW p \in Pid, WorkerLoad(p) PROVE HolderInv'
  BY <1>10 DEF WorkerLoad
<1>11. ASSUME NEW p \in Pid, WorkerServe(p) PROVE HolderInv'
  BY <1>11 DEF WorkerServe
<1>12. ASSUME NEW p \in Pid, Crash(p) PROVE HolderInv'
  BY <1>12 DEF Crash
<1>13. ASSUME NEW p \in Pid, Reap(p) PROVE HolderInv'
  BY <1>13 DEF Reap
<1>14. CASE LifespanMoves
  BY <1>14 DEF LifespanMoves, VerifyOk, SetupOk, StopServing, LifespanDone, LifespanTo
<1>15. CASE UNCHANGED vars
  BY <1>15 DEF vars
<1> QED
  BY StepKinds, <1>1, <1>2, <1>3, <1>4, <1>5, <1>6, <1>7, <1>8, <1>9, <1>10, <1>11, <1>12, <1>13, <1>14, <1>15

\* A waiter stays behind waiters only.
LEMMA QueueStep ==
  ASSUME Typed, OwnerInv, QueueInv, [Next]_vars
  PROVE  QueueInv'
<1> USE CallAssumption DEF Typed, QueueInv, Queued, Actor, CallPc, LifespanPc, queueVars, modelVars, pipeVars
<1>1. CASE Closes
  BY <1>1 DEF Closes, BeginClose, Kill
<1>2. CASE GivesUp
  BY <1>2 DEF GivesUp, Leave
<1>3. ASSUME NEW c \in Call, Refuse(c) PROVE QueueInv'
  BY <1>3 DEF Refuse
<1>4. ASSUME NEW c \in Call, Admit(c) PROVE QueueInv'
  BY <1>4 DEF Admit, Queued
<1>5. ASSUME NEW c \in Call, AcquireAlive(c) PROVE QueueInv'
  BY <1>5 DEF AcquireAlive, TakeLock, SendRequest
<1>6. ASSUME NEW c \in Call, AcquireSpawn(c) PROVE QueueInv'
  BY <1>6 DEF AcquireSpawn, TakeLock
<1>7. ASSUME NEW c \in Call, Reply(c) PROVE QueueInv'
  BY <1>7 DEF Reply, Leave
<1>8. ASSUME NEW a \in Actor, SpawnOk(a) PROVE QueueInv'
  BY <1>8 DEF SpawnOk
<1>9. ASSUME NEW a \in Actor, WarmupOk(a) PROVE QueueInv'
  <2>1. ahead' = ahead /\ \A c \in Call : pc'[c] = "queued" <=> pc[c] = "queued"
    BY <1>9 DEF WarmupOk, SendRequest
  <2> QED
    BY <2>1
<1>10. ASSUME NEW p \in Pid, WorkerLoad(p) PROVE QueueInv'
  BY <1>10 DEF WorkerLoad
<1>11. ASSUME NEW p \in Pid, WorkerServe(p) PROVE QueueInv'
  BY <1>11 DEF WorkerServe
<1>12. ASSUME NEW p \in Pid, Crash(p) PROVE QueueInv'
  BY <1>12 DEF Crash
<1>13. ASSUME NEW p \in Pid, Reap(p) PROVE QueueInv'
  BY <1>13 DEF Reap
<1>14. CASE LifespanMoves
  <2>1. ahead' = ahead /\ \A c \in Call : pc'[c] = pc[c]
    BY <1>14 DEF LifespanMoves, VerifyOk, SetupOk, StopServing, LifespanDone, LifespanTo
  <2>2. ASSUME NEW c \in Call PROVE ahead[c] \subseteq Call
    OBVIOUS
  <2> QED
    BY <2>1, <2>2
<1>15. CASE UNCHANGED vars
  <2>1. pc' = pc /\ ahead' = ahead
    BY <1>15 DEF vars
  <2> QED
    BY <2>1
<1> QED
  BY StepKinds, <1>1, <1>2, <1>3, <1>4, <1>5, <1>6, <1>7, <1>8, <1>9, <1>10, <1>11, <1>12, <1>13, <1>14, <1>15

\* Calls run only while the model serves, and a closed model has no process.
LEMMA LifespanInvStep ==
  ASSUME Typed, OwnerInv, LifespanInv, [Next]_vars
  PROVE  LifespanInv'
<1> USE CallAssumption DEF Typed, LifespanInv, Running, Actor, CallPc, LifespanPc, queueVars, modelVars, pipeVars
<1>1. CASE Closes
  BY <1>1 DEF Closes, BeginClose, Kill
<1>2. CASE GivesUp
  BY <1>2 DEF GivesUp, Leave
<1>3. ASSUME NEW c \in Call, Refuse(c) PROVE LifespanInv'
  BY <1>3 DEF Refuse
<1>4. ASSUME NEW c \in Call, Admit(c) PROVE LifespanInv'
  BY <1>4 DEF Admit, Queued
<1>5. ASSUME NEW c \in Call, AcquireAlive(c) PROVE LifespanInv'
  BY <1>5 DEF AcquireAlive, TakeLock, SendRequest
<1>6. ASSUME NEW c \in Call, AcquireSpawn(c) PROVE LifespanInv'
  BY <1>6 DEF AcquireSpawn, TakeLock
<1>7. ASSUME NEW c \in Call, Reply(c) PROVE LifespanInv'
  BY <1>7 DEF Reply, Leave
<1>8. ASSUME NEW a \in Actor, SpawnOk(a) PROVE LifespanInv'
  BY <1>8 DEF SpawnOk
<1>9. ASSUME NEW a \in Actor, WarmupOk(a) PROVE LifespanInv'
  BY <1>9 DEF WarmupOk, SendRequest
<1>10. ASSUME NEW p \in Pid, WorkerLoad(p) PROVE LifespanInv'
  BY <1>10 DEF WorkerLoad
<1>11. ASSUME NEW p \in Pid, WorkerServe(p) PROVE LifespanInv'
  BY <1>11 DEF WorkerServe
<1>12. ASSUME NEW p \in Pid, Crash(p) PROVE LifespanInv'
  BY <1>12 DEF Crash
<1>13. ASSUME NEW p \in Pid, Reap(p) PROVE LifespanInv'
  BY <1>13 DEF Reap
<1>14. CASE LifespanMoves
  BY <1>14 DEF LifespanMoves, VerifyOk, SetupOk, StopServing, LifespanDone, LifespanTo
<1>15. CASE UNCHANGED vars
  BY <1>15 DEF vars
<1> QED
  BY StepKinds, <1>1, <1>2, <1>3, <1>4, <1>5, <1>6, <1>7, <1>8, <1>9, <1>10, <1>11, <1>12, <1>13, <1>14, <1>15

-----------------------------------------------------------------------------
(* The worker and its pipes *)

\* At most one coroutine at a time is between _spawn and the answer.
Owner(a) == pc[a] \in {"spawn", "warmup", "reply"}

LEMMA OneOwner ==
  ASSUME Typed, HolderInv, LifespanInv, NEW a \in Actor, NEW b \in Actor,
         Owner(a), Owner(b) \/ (pc[b] = "closing" /\ b \in Call)
  PROVE  a = b
BY CallAssumption
DEF Typed, HolderInv, LifespanInv, Owner, Holding, Actor, CallPc, LifespanPc

\* The only live process is the one self.process names.
LEMMA NoOrphanStep ==
  ASSUME Typed, OwnerInv, NoOrphanWorker, [Next]_vars
  PROVE  NoOrphanWorker'
<1> USE CallAssumption, PidAssumption DEF Typed, NoOrphanWorker, Live, Actor, CallPc, LifespanPc, queueVars, modelVars, pipeVars
<1>1. CASE Closes
  BY <1>1 DEF Closes, BeginClose, Kill
<1>2. CASE GivesUp
  BY <1>2 DEF GivesUp, Leave
<1>3. ASSUME NEW c \in Call, Refuse(c) PROVE NoOrphanWorker'
  BY <1>3 DEF Refuse
<1>4. ASSUME NEW c \in Call, Admit(c) PROVE NoOrphanWorker'
  BY <1>4 DEF Admit, Queued
<1>5. ASSUME NEW c \in Call, AcquireAlive(c) PROVE NoOrphanWorker'
  BY <1>5 DEF AcquireAlive, TakeLock, SendRequest
<1>6. ASSUME NEW c \in Call, AcquireSpawn(c) PROVE NoOrphanWorker'
  BY <1>6 DEF AcquireSpawn, TakeLock
<1>7. ASSUME NEW c \in Call, Reply(c) PROVE NoOrphanWorker'
  BY <1>7 DEF Reply, Leave
<1>8. ASSUME NEW a \in Actor, SpawnOk(a) PROVE NoOrphanWorker'
  BY <1>8 DEF SpawnOk, OwnerInv, SpawnReturnsEarly
<1>9. ASSUME NEW a \in Actor, WarmupOk(a) PROVE NoOrphanWorker'
  BY <1>9 DEF WarmupOk, SendRequest
<1>10. ASSUME NEW p \in Pid, WorkerLoad(p) PROVE NoOrphanWorker'
  BY <1>10 DEF WorkerLoad
<1>11. ASSUME NEW p \in Pid, WorkerServe(p) PROVE NoOrphanWorker'
  BY <1>11 DEF WorkerServe
<1>12. ASSUME NEW p \in Pid, Crash(p) PROVE NoOrphanWorker'
  BY <1>12 DEF Crash
<1>13. ASSUME NEW p \in Pid, Reap(p) PROVE NoOrphanWorker'
  BY <1>13 DEF Reap
<1>14. CASE LifespanMoves
  BY <1>14 DEF LifespanMoves, VerifyOk, SetupOk, StopServing, LifespanDone, LifespanTo
<1>15. CASE UNCHANGED vars
  BY <1>15 DEF vars
<1> QED
  BY StepKinds, <1>1, <1>2, <1>3, <1>4, <1>5, <1>6, <1>7, <1>8, <1>9, <1>10, <1>11, <1>12, <1>13, <1>14, <1>15

\* What a coroutine knows of the worker stays true.
LEMMA OwnerStep ==
  ASSUME Typed, HolderInv, LifespanInv, OwnerInv, [Next]_vars
  PROVE  OwnerInv'
<1> USE CallAssumption, PidAssumption DEF Typed, OwnerInv, SpawnReturnsEarly, Live, Actor, CallPc, LifespanPc, queueVars, modelVars, pipeVars
<1>1. CASE Closes
  <2> PICK a \in Actor, kind \in {"unavailable", "cancelled"} :
         /\ a \in Call => Owner(a)
         /\ a = Lifespan => pc[a] \in {"verify", "spawn", "warmup", "setup", "draining"}
         /\ BeginClose(a, kind)
    BY <1>1 DEF Closes, Owner
  <2>1. /\ pc' = [pc EXCEPT ![a] = "closing"] /\ mine' = [mine EXCEPT ![a] = proc]
        /\ proc' = NoPid
        /\ \A c \in Call : c # a => result'[c] = result[c]
        /\ a \in Call => result'[a].kind = kind
    BY DEF BeginClose, Kill
  <2>2. ASSUME NEW b \in Actor, b # a, pc[b] \in {"warmup", "reply"}
        PROVE  b # Lifespan /\ pc'[Lifespan] \in {"closing", "done"}
    BY <2>1, <2>2, OneOwner DEF Owner, LifespanInv
  <2> QED
    BY <2>1, <2>2
<1>2. CASE GivesUp
  BY <1>2 DEF GivesUp, Leave
<1>3. ASSUME NEW c \in Call, Refuse(c) PROVE OwnerInv'
  BY <1>3 DEF Refuse
<1>4. ASSUME NEW c \in Call, Admit(c) PROVE OwnerInv'
  BY <1>4 DEF Admit, Queued
<1>5. ASSUME NEW c \in Call, AcquireAlive(c) PROVE OwnerInv'
  BY <1>5 DEF AcquireAlive, TakeLock, SendRequest
<1>6. ASSUME NEW c \in Call, AcquireSpawn(c) PROVE OwnerInv'
  BY <1>6 DEF AcquireSpawn, TakeLock
<1>7. ASSUME NEW c \in Call, Reply(c) PROVE OwnerInv'
  BY <1>7 DEF Reply, Leave
<1>8. ASSUME NEW a \in Actor, SpawnOk(a) PROVE OwnerInv'
  <2>1. \A b \in Actor : Owner(b) => b = a
    BY <1>8, OneOwner DEF SpawnOk, Owner
  <2> QED
    BY <1>8, <2>1 DEF SpawnOk, Owner
<1>9. ASSUME NEW a \in Actor, WarmupOk(a) PROVE OwnerInv'
  BY <1>9 DEF WarmupOk, SendRequest
<1>10. ASSUME NEW p \in Pid, WorkerLoad(p) PROVE OwnerInv'
  BY <1>10 DEF WorkerLoad
<1>11. ASSUME NEW p \in Pid, WorkerServe(p) PROVE OwnerInv'
  BY <1>11 DEF WorkerServe
<1>12. ASSUME NEW p \in Pid, Crash(p) PROVE OwnerInv'
  BY <1>12 DEF Crash
<1>13. ASSUME NEW p \in Pid, Reap(p) PROVE OwnerInv'
  BY <1>13 DEF Reap
<1>14. CASE LifespanMoves
  <2>1. CASE VerifyOk
    BY <2>1 DEF VerifyOk, LifespanTo, LifespanInv
  <2>2. CASE SetupOk
    BY <2>2 DEF SetupOk, LifespanTo, LifespanInv
  <2>3. CASE StopServing
    BY <2>3 DEF StopServing, LifespanTo
  <2>4. CASE LifespanDone
    BY <2>4 DEF LifespanDone, LifespanTo
  <2> QED
    BY <1>14, <2>1, <2>2, <2>3, <2>4 DEF LifespanMoves
<1>15. CASE UNCHANGED vars
  BY <1>15 DEF vars
<1> QED
  BY StepKinds, <1>1, <1>2, <1>3, <1>4, <1>5, <1>6, <1>7, <1>8, <1>9, <1>10, <1>11, <1>12, <1>13, <1>14, <1>15

\* Nobody announces a worker that is being started or closed.
LEMMA RecoveryStep ==
  ASSUME Typed, HolderInv, LifespanInv, OwnerInv, RecoveryIsNotReady, [Next]_vars
  PROVE  RecoveryIsNotReady'
<1> USE CallAssumption, PidAssumption DEF Typed, RecoveryIsNotReady, Running, Actor, CallPc, LifespanPc, queueVars, modelVars, pipeVars
<1>1. CASE Closes
  BY <1>1 DEF Closes, BeginClose, Kill
<1>2. CASE GivesUp
  BY <1>2 DEF GivesUp, Leave
<1>3. ASSUME NEW c \in Call, Refuse(c) PROVE RecoveryIsNotReady'
  BY <1>3 DEF Refuse
<1>4. ASSUME NEW c \in Call, Admit(c) PROVE RecoveryIsNotReady'
  BY <1>4 DEF Admit, Queued
<1>5. ASSUME NEW c \in Call, AcquireAlive(c) PROVE RecoveryIsNotReady'
  BY <1>5 DEF AcquireAlive, TakeLock, SendRequest
<1>6. ASSUME NEW c \in Call, AcquireSpawn(c) PROVE RecoveryIsNotReady'
  BY <1>6 DEF AcquireSpawn, TakeLock
<1>7. ASSUME NEW c \in Call, Reply(c) PROVE RecoveryIsNotReady'
  BY <1>7 DEF Reply, Leave
<1>8. ASSUME NEW a \in Actor, SpawnOk(a) PROVE RecoveryIsNotReady'
  BY <1>8 DEF SpawnOk
<1>9. ASSUME NEW a \in Actor, WarmupOk(a) PROVE RecoveryIsNotReady'
  <2>1. \A b \in Actor : Owner(b) \/ (pc[b] = "closing" /\ b \in Call) => b = a
    BY <1>9, OneOwner DEF WarmupOk, Owner
  <2>2. pc[Lifespan] # "closing"
    BY <1>9 DEF WarmupOk
  <2>3. \A b \in Actor : b # a => pc'[b] = pc[b]
    BY <1>9 DEF WarmupOk, SendRequest
  <2>4. pc'[a] \in {"reply", "setup"}
    BY <1>9 DEF WarmupOk, SendRequest
  <2> QED
    BY <2>1, <2>2, <2>3, <2>4 DEF Owner
<1>10. ASSUME NEW p \in Pid, WorkerLoad(p) PROVE RecoveryIsNotReady'
  BY <1>10 DEF WorkerLoad
<1>11. ASSUME NEW p \in Pid, WorkerServe(p) PROVE RecoveryIsNotReady'
  BY <1>11 DEF WorkerServe
<1>12. ASSUME NEW p \in Pid, Crash(p) PROVE RecoveryIsNotReady'
  BY <1>12 DEF Crash
<1>13. ASSUME NEW p \in Pid, Reap(p) PROVE RecoveryIsNotReady'
  BY <1>13 DEF Reap
<1>14. CASE LifespanMoves
  <2>1. CASE VerifyOk
    BY <2>1 DEF VerifyOk, LifespanTo, LifespanInv
  <2>2. CASE SetupOk \/ StopServing \/ LifespanDone
    BY <2>2 DEF SetupOk, StopServing, LifespanDone, LifespanTo
  <2> QED
    BY <1>14, <2>1, <2>2 DEF LifespanMoves
<1>15. CASE UNCHANGED vars
  BY <1>15 DEF vars
<1> QED
  BY StepKinds, <1>1, <1>2, <1>3, <1>4, <1>5, <1>6, <1>7, <1>8, <1>9, <1>10, <1>11, <1>12, <1>13, <1>14, <1>15

\* A loading worker is being waited for.
LEMMA LoadingStep ==
  ASSUME Typed, HolderInv, LifespanInv, OwnerInv, NoOrphanWorker, LoadingInv, PipeInv, [Next]_vars
  PROVE  LoadingInv'
<1> USE CallAssumption, PidAssumption DEF Typed, LoadingInv, NoOrphanWorker, Live, Actor, CallPc, LifespanPc, queueVars, modelVars, pipeVars
<1>1. CASE Closes
  BY <1>1 DEF Closes, BeginClose, Kill
<1>2. CASE GivesUp
  BY <1>2 DEF GivesUp, Leave
<1>3. ASSUME NEW c \in Call, Refuse(c) PROVE LoadingInv'
  BY <1>3 DEF Refuse
<1>4. ASSUME NEW c \in Call, Admit(c) PROVE LoadingInv'
  BY <1>4 DEF Admit, Queued
<1>5. ASSUME NEW c \in Call, AcquireAlive(c) PROVE LoadingInv'
  BY <1>5 DEF AcquireAlive, TakeLock, SendRequest
<1>6. ASSUME NEW c \in Call, AcquireSpawn(c) PROVE LoadingInv'
  BY <1>6 DEF AcquireSpawn, TakeLock
<1>7. ASSUME NEW c \in Call, Reply(c) PROVE LoadingInv'
  BY <1>7 DEF Reply, Leave
<1>8. ASSUME NEW a \in Actor, SpawnOk(a) PROVE LoadingInv'
  <2>1. \A p \in Pid : status[p] # "loading"
    BY <1>8, OneOwner DEF SpawnOk, Owner
  <2>2. PICK p \in Pid : /\ status[p] = "unborn"
                        /\ status' = [status EXCEPT ![p] = "loading"]
    BY <1>8 DEF SpawnOk
  <2>3. pc'[a] = "warmup" /\ stdout' = stdout
    BY <1>8 DEF SpawnOk
  <2> QED
    BY <2>1, <2>2, <2>3 DEF PipeInv
<1>9. ASSUME NEW a \in Actor, WarmupOk(a) PROVE LoadingInv'
  <2>1. mine[a] = proc
    BY <1>9 DEF WarmupOk, OwnerInv, Running
  <2> QED
    BY <1>9, <2>1 DEF WarmupOk, HasLine
<1>10. ASSUME NEW p \in Pid, WorkerLoad(p) PROVE LoadingInv'
  BY <1>10 DEF WorkerLoad
<1>11. ASSUME NEW p \in Pid, WorkerServe(p) PROVE LoadingInv'
  BY <1>11 DEF WorkerServe
<1>12. ASSUME NEW p \in Pid, Crash(p) PROVE LoadingInv'
  BY <1>12 DEF Crash
<1>13. ASSUME NEW p \in Pid, Reap(p) PROVE LoadingInv'
  BY <1>13 DEF Reap
<1>14. CASE LifespanMoves
  BY <1>14 DEF LifespanMoves, VerifyOk, SetupOk, StopServing, LifespanDone, LifespanTo
<1>15. CASE UNCHANGED vars
  BY <1>15 DEF vars
<1> QED
  BY StepKinds, <1>1, <1>2, <1>3, <1>4, <1>5, <1>6, <1>7, <1>8, <1>9, <1>10, <1>11, <1>12, <1>13, <1>14, <1>15

\* The pipes hold only what their one user wrote or waits for.
LEMMA PipeStep ==
  ASSUME Typed, HolderInv, LifespanInv, OwnerInv, NoOrphanWorker, LoadingInv, PipeInv, [Next]_vars
  PROVE  PipeInv'
<1> USE CallAssumption, PidAssumption DEF Typed, PipeInv, Actor, CallPc, LifespanPc, queueVars, modelVars, pipeVars
<1>1. CASE Closes
  BY <1>1 DEF Closes, BeginClose, Kill
<1>2. CASE GivesUp
  BY <1>2 DEF GivesUp, Leave
<1>3. ASSUME NEW c \in Call, Refuse(c) PROVE PipeInv'
  BY <1>3 DEF Refuse
<1>4. ASSUME NEW c \in Call, Admit(c) PROVE PipeInv'
  BY <1>4 DEF Admit, Queued
<1>5. ASSUME NEW c \in Call, AcquireAlive(c) PROVE PipeInv'
  <2>1. \A a \in Actor : pc[a] \notin {"warmup", "reply"}
    BY <1>5 DEF AcquireAlive, TakeLock, HolderInv, Holding, Running
  <2>2. proc \in Pid /\ stdin[proc] = <<>> /\ stdout[proc] = <<>> /\ status[proc] # "unborn"
    BY <1>5, <2>1 DEF AcquireAlive, SpawnReturnsEarly
  <2>3. /\ stdin' = [stdin EXCEPT ![proc] = <<c>>] /\ pc' = [pc EXCEPT ![c] = "reply"]
        /\ UNCHANGED <<proc, status, stdout>>
    BY <1>5, <2>2 DEF AcquireAlive, SendRequest
  <2> QED
    BY <2>1, <2>2, <2>3
<1>6. ASSUME NEW c \in Call, AcquireSpawn(c) PROVE PipeInv'
  BY <1>6 DEF AcquireSpawn, TakeLock
<1>7. ASSUME NEW c \in Call, Reply(c) PROVE PipeInv'
  <2>1. \A a \in Actor : pc'[a] \notin {"warmup", "reply"}
    BY <1>7, OneOwner DEF Reply, Leave, Owner
  <2>2. mine[c] = proc /\ proc \in Pid
    BY <1>7 DEF Reply, OwnerInv, Running, HasLine
  <2>3. stdin[proc] = <<>> /\ Tail(stdout[proc]) = <<>>
    <3>1. pc[c] = "reply" /\ stdout[proc] # <<>>
      BY <1>7, <2>2 DEF Reply, HasLine
    <3>2. PICK kind \in LineKind : stdout[proc] = <<[kind |-> kind, of |-> c]>>
      BY <3>1, <2>2 DEF LineKind
    <3>3. stdin[proc] = <<>>
      BY <3>1, <2>2
    <3> QED
      BY <3>2, <3>3, OneLine
  <2>4. /\ stdout' = [stdout EXCEPT ![proc] = <<>>]
        /\ UNCHANGED <<proc, status, stdin>>
    BY <1>7, <2>2, <2>3 DEF Reply
  <2> QED
    BY <2>1, <2>2, <2>3, <2>4
<1>8. ASSUME NEW a \in Actor, SpawnOk(a) PROVE PipeInv'
  <2>1. \A b \in Actor : pc[b] \notin {"warmup", "reply"}
    BY <1>8, OneOwner DEF SpawnOk, Owner
  <2>2. PICK p \in Pid : /\ status[p] = "unborn" /\ proc' = p
                        /\ status' = [status EXCEPT ![p] = "loading"]
    BY <1>8 DEF SpawnOk
  <2>3. pc' = [pc EXCEPT ![a] = "warmup"] /\ UNCHANGED <<stdin, stdout>>
    BY <1>8 DEF SpawnOk
  <2> QED
    BY <2>1, <2>2, <2>3
<1>9. ASSUME NEW a \in Actor, WarmupOk(a) PROVE PipeInv'
  <2>1. \A b \in Actor : b # a => pc[b] \notin {"warmup", "reply"}
    BY <1>9, OneOwner DEF WarmupOk, Owner
  <2>2. mine[a] = proc /\ proc \in Pid
    BY <1>9 DEF WarmupOk, OwnerInv, Running, HasLine
  <2>3. stdin[proc] = <<>> /\ Tail(stdout[proc]) = <<>> /\ status[proc] # "unborn"
    BY <1>9, <2>2, OneLine DEF WarmupOk, HasLine
  <2>4. stdout' = [stdout EXCEPT ![proc] = <<>>] /\ UNCHANGED <<proc, status>>
    BY <1>9, <2>2, <2>3 DEF WarmupOk
  <2>5. CASE a \in Call /\ SendRequest(a)
    <3>1. stdin' = [stdin EXCEPT ![proc] = <<a>>] /\ pc' = [pc EXCEPT ![a] = "reply"]
      BY <2>3, <2>5 DEF SendRequest
    <3> QED
      BY <2>1, <2>2, <2>3, <2>4, <2>5, <3>1
  <2>6. CASE a = Lifespan /\ pc' = [pc EXCEPT ![a] = "setup"] /\ stdin' = stdin
    BY <2>1, <2>2, <2>3, <2>4, <2>6
  <2> QED
    BY <1>9, <2>5, <2>6 DEF WarmupOk
<1>10. ASSUME NEW p \in Pid, WorkerLoad(p) PROVE PipeInv'
  <2>1. p = proc /\ stdout[p] = <<>>
    BY <1>10 DEF WorkerLoad, NoOrphanWorker, LoadingInv, Live
  <2>2. PICK a \in Actor : pc[a] = "warmup"
    BY <1>10 DEF WorkerLoad, LoadingInv
  <2>3. \A b \in Actor : b # a => pc[b] \notin {"warmup", "reply"}
    BY <2>2, OneOwner DEF Owner
  <2>4. stdout' = [stdout EXCEPT ![p] = <<ReadyLine>>]
    BY <1>10, <2>1 DEF WorkerLoad
  <2>5. status' = [status EXCEPT ![p] = "up"] /\ UNCHANGED <<pc, proc, stdin>>
    BY <1>10 DEF WorkerLoad
  <2> QED
    BY <2>1, <2>2, <2>3, <2>4, <2>5
<1>11. ASSUME NEW p \in Pid, WorkerServe(p) PROVE PipeInv'
  <2>1. p = proc /\ stdin[p] # <<>> /\ UNCHANGED <<pc, proc, status>>
    BY <1>11 DEF WorkerServe, NoOrphanWorker, Live
  <2>2. PICK c \in Call : pc[c] = "reply" /\ stdin[p] = <<c>> /\ stdout[p] = <<>>
    BY <2>1
  <2>3. \A b \in Actor : b # c => pc[b] \notin {"warmup", "reply"}
    BY <2>2, OneOwner DEF Owner
  <2>4. stdin' = [stdin EXCEPT ![p] = <<>>]
    BY <1>11, <2>2, OneLine DEF WorkerServe
  <2>5. \E kind \in {"error", IF c \in CountCall THEN "tokens" ELSE "completion"} :
          stdout' = [stdout EXCEPT ![p] = <<[kind |-> kind, of |-> c]>>]
    <3>1. Head(stdin[p]) = c
      BY <2>2, OneLine
    <3>2. PICK kind \in {"error", IF c \in CountCall THEN "tokens" ELSE "completion"} :
            stdout' = [stdout EXCEPT ![p] = Append(@, [kind |-> kind, of |-> c])]
      BY <1>11, <3>1 DEF WorkerServe
    <3>3. Append(stdout[p], [kind |-> kind, of |-> c]) = <<[kind |-> kind, of |-> c]>>
      BY <2>2, OneLine
    <3> QED
      BY <3>2, <3>3
  <2> QED
    BY <2>1, <2>2, <2>3, <2>4, <2>5
<1>12. ASSUME NEW p \in Pid, Crash(p) PROVE PipeInv'
  BY <1>12 DEF Crash
<1>13. ASSUME NEW p \in Pid, Reap(p) PROVE PipeInv'
  BY <1>13 DEF Reap
<1>14. CASE LifespanMoves
  <2>1. \A a \in Actor : pc'[a] \in {"warmup", "reply"} \/ pc[a] \in {"warmup", "reply"}
                           => pc'[a] = pc[a]
    BY <1>14 DEF LifespanMoves, VerifyOk, SetupOk, StopServing, LifespanDone, LifespanTo
  <2>2. UNCHANGED <<proc, status, stdin, stdout>>
    BY <1>14 DEF LifespanMoves, VerifyOk, SetupOk, StopServing, LifespanDone, LifespanTo
  <2> QED
    BY <2>1, <2>2
<1>15. CASE UNCHANGED vars
  BY <1>15 DEF vars
<1> QED
  BY StepKinds, <1>1, <1>2, <1>3, <1>4, <1>5, <1>6, <1>7, <1>8, <1>9, <1>10, <1>11, <1>12, <1>13, <1>14, <1>15

\* A line is returned to the call it was written for.
LEMMA AnswerStep ==
  ASSUME Typed, OwnerInv, PipeInv, AnswerMatchesRequest, [Next]_vars
  PROVE  AnswerMatchesRequest'
<1> USE CallAssumption, PidAssumption DEF Typed, AnswerMatchesRequest, LineKind, Line, Actor, CallPc, LifespanPc, queueVars, modelVars, pipeVars
<1>1. CASE Closes
  BY <1>1 DEF Closes, BeginClose, Kill
<1>2. CASE GivesUp
  BY <1>2 DEF GivesUp, Leave
<1>3. ASSUME NEW c \in Call, Refuse(c) PROVE AnswerMatchesRequest'
  BY <1>3 DEF Refuse
<1>4. ASSUME NEW c \in Call, Admit(c) PROVE AnswerMatchesRequest'
  BY <1>4 DEF Admit, Queued
<1>5. ASSUME NEW c \in Call, AcquireAlive(c) PROVE AnswerMatchesRequest'
  BY <1>5 DEF AcquireAlive, TakeLock, SendRequest
<1>6. ASSUME NEW c \in Call, AcquireSpawn(c) PROVE AnswerMatchesRequest'
  BY <1>6 DEF AcquireSpawn, TakeLock
<1>7. ASSUME NEW c \in Call, Reply(c) PROVE AnswerMatchesRequest'
  <2>1. mine[c] = proc /\ proc \in Pid
    BY <1>7 DEF Reply, OwnerInv, Running, HasLine
  <2>2. PICK kind \in {"error", IF c \in CountCall THEN "tokens" ELSE "completion"} :
          stdout[proc] = <<[kind |-> kind, of |-> c]>>
    BY <1>7, <2>1 DEF Reply, HasLine, PipeInv
  <2>3. Head(stdout[mine[c]]) = [kind |-> kind, of |-> c]
    BY <2>1, <2>2, OneLine
  <2>4. Leave(c, kind, c)
    BY <1>7, <2>3 DEF Reply
  <2>5. result' = [result EXCEPT ![c] = [kind |-> kind, of |-> c]]
    BY <2>4 DEF Leave
  <2> QED
    BY <2>5
<1>8. ASSUME NEW a \in Actor, SpawnOk(a) PROVE AnswerMatchesRequest'
  BY <1>8 DEF SpawnOk
<1>9. ASSUME NEW a \in Actor, WarmupOk(a) PROVE AnswerMatchesRequest'
  BY <1>9 DEF WarmupOk, SendRequest
<1>10. ASSUME NEW p \in Pid, WorkerLoad(p) PROVE AnswerMatchesRequest'
  BY <1>10 DEF WorkerLoad
<1>11. ASSUME NEW p \in Pid, WorkerServe(p) PROVE AnswerMatchesRequest'
  BY <1>11 DEF WorkerServe
<1>12. ASSUME NEW p \in Pid, Crash(p) PROVE AnswerMatchesRequest'
  BY <1>12 DEF Crash
<1>13. ASSUME NEW p \in Pid, Reap(p) PROVE AnswerMatchesRequest'
  BY <1>13 DEF Reap
<1>14. CASE LifespanMoves
  BY <1>14 DEF LifespanMoves, VerifyOk, SetupOk, StopServing, LifespanDone, LifespanTo
<1>15. CASE UNCHANGED vars
  BY <1>15 DEF vars
<1> QED
  BY StepKinds, <1>1, <1>2, <1>3, <1>4, <1>5, <1>6, <1>7, <1>8, <1>9, <1>10, <1>11, <1>12, <1>13, <1>14, <1>15

-----------------------------------------------------------------------------
(* The invariant, and what follows from it *)

LEMMA IInvInit == Init => IInv
<1> SUFFICES ASSUME Init PROVE IInv
  OBVIOUS
<1> USE CallAssumption DEF Init, Actor
<1>1. HolderInv /\ QueueInv /\ LifespanInv
  BY DEF HolderInv, QueueInv, LifespanInv, Holding
<1>2. OwnerInv /\ LoadingInv /\ PipeInv /\ NoOrphanWorker
  BY DEF OwnerInv, LoadingInv, PipeInv, NoOrphanWorker, Live
<1>3. AnswerMatchesRequest /\ RecoveryIsNotReady
  BY DEF AnswerMatchesRequest, RecoveryIsNotReady, LineKind
<1> QED
  BY <1>1, <1>2, <1>3 DEF IInv

LEMMA IInvStep == Typed /\ IInv /\ [Next]_vars => IInv'
BY HolderStep, QueueStep, LifespanInvStep, NoOrphanStep, OwnerStep, RecoveryStep,
   LoadingStep, PipeStep, AnswerStep
DEF IInv

THEOREM Inductive == Spec => [](Typed /\ IInv)
<1>1. Init => Typed /\ IInv
  BY TypedInit, IInvInit
<1>2. Typed /\ IInv /\ [Next]_vars => (Typed /\ IInv)'
  BY TypedStep, IInvStep
<1> QED
  BY <1>1, <1>2, PTL DEF Spec

\* A call that gets a line of the worker gets its own: no crash, timeout,
\* cancellation or restart lets it read the answer to another call.
THEOREM AnswersMatch == Spec => []AnswerMatchesRequest
BY Inductive, PTL DEF IInv

\* One copy of the model at most is alive, the one self.process names.
THEOREM NoOrphans == Spec => []NoOrphanWorker
BY Inductive, PTL DEF IInv

\* A worker being started or taken down is never announced ready.
THEOREM RecoveryNotReady == Spec => []RecoveryIsNotReady
BY Inductive, PTL DEF IInv

\* Once the lifespan has returned nothing of the worker is left running.
THEOREM StoppedWithoutWorker == Spec => []StoppedMeansNoWorker
<1>1. Typed /\ IInv => StoppedMeansNoWorker
  BY PidAssumption DEF Typed, IInv, LifespanInv, NoOrphanWorker, StoppedMeansNoWorker
<1> QED
  BY Inductive, <1>1, PTL

\* One worker while the server runs, none afterwards.
THEOREM OneWorkerAlways == Spec => []OneWorker
<1>1. NoOrphanWorker /\ StoppedMeansNoWorker => OneWorker
  BY DEF OneWorker
<1> QED
  BY <1>1, NoOrphans, StoppedWithoutWorker, PTL

-----------------------------------------------------------------------------
(* self.pending *)

PendingInv == PendingExact /\ pending <= QueueLimit

LEMMA PendingInit == Init => PendingInv
<1> SUFFICES ASSUME Init PROVE PendingInv
  OBVIOUS
<1>1. Inside = {}
  BY CallAssumption DEF Init, Inside, Actor
<1> QED
  BY <1>1, FS_EmptySet, QueueAssumption DEF Init, PendingInv, PendingExact

LEMMA PendingStep ==
  ASSUME Typed, OwnerInv, PendingInv, [Next]_vars
  PROVE  PendingInv'
<1> USE CallAssumption, QueueAssumption DEF Typed, Actor, queueVars, modelVars, pipeVars
<1> DEFINE in(c) == pc[c] \notin {"idle", "done"}
<1>fin. IsFiniteSet(Inside) /\ Cardinality(Inside) \in Nat
  BY FS_Subset, FS_CardinalityType DEF Inside
<1>same. ASSUME pending' = pending, \A c \in Call : in(c)' = in(c) PROVE PendingInv'
  <2>1. Inside' = Inside
    BY <1>same DEF Inside
  <2> QED
    BY <1>same, <2>1 DEF PendingInv, PendingExact
<1>leave. ASSUME NEW c \in Call, NEW kind, NEW of, in(c), Leave(c, kind, of)
          PROVE PendingInv'
  <2>1. c \in Inside /\ Inside' = Inside \ {c}
    BY <1>leave DEF Inside, Leave
  <2>2. Cardinality(Inside') = Cardinality(Inside) - 1
    BY <1>fin, <2>1, FS_RemoveElement
  <2> QED
    BY <1>leave, <1>fin, <2>2 DEF Leave, PendingInv, PendingExact
<1>1. CASE Closes
  BY <1>1, <1>same DEF Closes, BeginClose, LifespanPc, CallPc
<1>2. CASE GivesUp
  BY <1>2, <1>leave DEF GivesUp
<1>3. ASSUME NEW c \in Call, Refuse(c) PROVE PendingInv'
  BY <1>3, <1>same DEF Refuse
<1>4. ASSUME NEW c \in Call, Admit(c) PROVE PendingInv'
  <2>1. c \notin Inside /\ Inside' = Inside \cup {c}
    BY <1>4 DEF Inside, Admit
  <2>2. Cardinality(Inside') = Cardinality(Inside) + 1
    BY <1>fin, <2>1, FS_AddElement
  <2> QED
    BY <1>4, <1>fin, <2>2 DEF Admit, PendingInv, PendingExact
<1>5. ASSUME NEW c \in Call, AcquireAlive(c) \/ AcquireSpawn(c) PROVE PendingInv'
  BY <1>5, <1>same DEF AcquireAlive, AcquireSpawn, TakeLock, SendRequest
<1>6. ASSUME NEW c \in Call, Reply(c) PROVE PendingInv'
  BY <1>6, <1>leave DEF Reply
<1>7. ASSUME NEW a \in Actor, SpawnOk(a) \/ WarmupOk(a) PROVE PendingInv'
  BY <1>7, <1>same DEF SpawnOk, WarmupOk, SendRequest
<1>8. ASSUME NEW p \in Pid, WorkerLoad(p) \/ WorkerServe(p) \/ Crash(p) \/ Reap(p)
      PROVE PendingInv'
  BY <1>8, <1>same DEF WorkerLoad, WorkerServe, Crash, Reap
<1>9. CASE LifespanMoves
  BY <1>9, <1>same
  DEF LifespanMoves, VerifyOk, SetupOk, StopServing, LifespanDone, LifespanTo
<1>10. CASE UNCHANGED vars
  BY <1>10, <1>same DEF vars
<1> QED
  BY StepKinds, <1>1, <1>2, <1>3, <1>4, <1>5, <1>6, <1>7, <1>8, <1>9, <1>10

\* self.pending counts the admitted calls exactly, after any sequence of
\* failures, cancellations and restarts, and stays within inference_queue.
THEOREM PendingIsExact == Spec => [](TypeOK /\ PendingExact)
<1>1. Init => PendingInv
  BY PendingInit
<1>2. Typed /\ IInv /\ PendingInv /\ [Next]_vars => PendingInv'
  BY PendingStep DEF IInv
<1>3. Typed /\ PendingInv => TypeOK /\ PendingExact
  <2>1. IsFiniteSet(Inside)
    BY FS_Subset, CallAssumption DEF Inside
  <2> QED
    BY <2>1, FS_CardinalityType, QueueAssumption DEF PendingInv, PendingExact, TypeOK, Typed
<1> QED
  BY Inductive, <1>1, <1>2, <1>3, PTL DEF Spec

-----------------------------------------------------------------------------
(* Inference implements InferenceRpc *)

RpcVars == <<RpcState, RpcOutcome, RpcBefore>>

LEMMA RpcInitHolds == Init => Rpc!RpcInit
BY CallAssumption
DEF Init, Actor, Rpc!RpcInit, RpcState, RpcOutcome, RpcBefore, Inside

\* Cardinality is the same operator in both modules.
LEMMA RpcCardinality == \A S : Rpc!Cardinality(S) = Cardinality(S)
BY DEF Rpc!Cardinality, Cardinality

LEMMA RpcStepHolds ==
  ASSUME Typed, IInv, PendingInv, [Next]_vars
  PROVE  [Rpc!RpcNext]_(Rpc!rpcVars)
<1> USE CallAssumption DEF Typed, Actor, Inside, queueVars, modelVars, pipeVars
<1>pending. Rpc!Pending = Inside
  BY DEF Rpc!Pending, RpcState
\* The steps the callers do not see.
<1>same. ASSUME \A c \in Call : /\ pc'[c] = "queued" <=> pc[c] = "queued"
                                /\ pc'[c] \in {"idle", "done"} \/ pc[c] \in {"idle", "done"}
                                     => pc'[c] = pc[c]
                                /\ pc[c] = "done" => result'[c] = result[c],
                holder' = holder, ahead' = ahead
         PROVE  UNCHANGED Rpc!rpcVars
  <2>1. UNCHANGED RpcState
    BY <1>same DEF RpcState
  <2>2. UNCHANGED RpcOutcome
    BY <1>same DEF RpcOutcome
  <2>3. UNCHANGED RpcBefore
    BY <1>same DEF RpcBefore
  <2> QED
    BY <2>1, <2>2, <2>3 DEF Rpc!rpcVars
\* Leaving the queue or the lock.
<1>leave. ASSUME NEW c \in Call, NEW kind, NEW of, c \in Inside, Leave(c, kind, of)
          PROVE  Rpc!Finish(c, kind)
  <2>1. RpcState' = [RpcState EXCEPT ![c] = "done"]
    BY <1>leave DEF RpcState, Leave
  <2>2. RpcOutcome' = [RpcOutcome EXCEPT ![c] = kind]
    BY <1>leave DEF RpcOutcome, Leave
  <2>3. RpcBefore' = [d \in Call |-> IF d = c THEN {} ELSE RpcBefore[d] \ {c}]
    <3>1. ASSUME NEW d \in Call
          PROVE  RpcBefore'[d] = IF d = c THEN {} ELSE RpcBefore[d] \ {c}
      <4>1. pc'[c] = "done" /\ ahead'[c] = {} /\ (d # c => pc'[d] = pc[d])
        BY <1>leave DEF Leave
      <4>2. d # c => ahead'[d] = ahead[d] \ {c}
        BY <1>leave DEF Leave
      <4>3. holder' = IF holder = c THEN NoCall ELSE holder
        BY <1>leave DEF Leave
      <4>4. RpcBefore'[d] = IF pc'[d] = "queued" /\ holder' # NoCall
                            THEN ahead'[d] \cup {holder'} ELSE ahead'[d]
        BY DEF RpcBefore
      <4>5. RpcBefore[d] = IF pc[d] = "queued" /\ holder # NoCall
                           THEN ahead[d] \cup {holder} ELSE ahead[d]
        BY DEF RpcBefore
      <4> QED
        BY <4>1, <4>2, <4>3, <4>4, <4>5
    <3> QED
      BY <3>1 DEF RpcBefore
  <2> QED
    BY <2>1, <2>2, <2>3 DEF Rpc!Finish
<1>1. CASE Closes
  BY <1>1, <1>same DEF Closes, BeginClose
<1>2. CASE GivesUp
  <2> PICK c \in Call, kind \in {"unavailable", "cancelled"} :
         /\ pc[c] \in {"queued", "closing"}
         /\ pc[c] = "queued" => kind = "cancelled"
         /\ Leave(c, kind, NoCall)
    BY <1>2 DEF GivesUp
  <2>1. Rpc!Finish(c, kind) /\ RpcState[c] = "pending"
    BY <1>leave DEF RpcState
  <2>2. kind = "unavailable" => RpcBefore[c] = {}
    BY DEF RpcBefore, IInv, QueueInv
  <2> QED
    <3>1. CASE kind = "unavailable"
      BY <2>1, <2>2, <3>1 DEF Rpc!RpcNext, Rpc!Unavailable, Rpc!Finish
    <3>2. CASE kind = "cancelled"
      BY <2>1, <3>2 DEF Rpc!RpcNext, Rpc!Cancelled, Rpc!Finish
    <3> QED
      BY <3>1, <3>2
<1>3. ASSUME NEW c \in Call, Refuse(c) PROVE Rpc!Refuse(c)
  <2>1. RpcState[c] = "idle" /\ Cardinality(Inside) >= QueueLimit
    BY <1>3 DEF Refuse, RpcState, PendingInv, PendingExact
  <2>2. RpcState' = [RpcState EXCEPT ![c] = "done"]
    BY <1>3 DEF Refuse, RpcState
  <2>3. RpcOutcome' = [RpcOutcome EXCEPT ![c] = "busy"]
    BY <1>3 DEF Refuse, RpcOutcome
  <2>4. RpcBefore' = RpcBefore
    BY <1>3 DEF Refuse, RpcBefore
  <2>5. RpcBefore[c] = {} /\ \A d \in Call : c \notin RpcBefore[d]
    BY <1>3 DEF Refuse, RpcBefore, IInv, QueueInv, HolderInv, Holding
  <2>6. RpcBefore' = [d \in Call |-> IF d = c THEN {} ELSE RpcBefore[d] \ {c}]
    <3>1. ASSUME NEW d \in Call
          PROVE  RpcBefore[d] = IF d = c THEN {} ELSE RpcBefore[d] \ {c}
      <4>1. RpcBefore[d] \ {c} = RpcBefore[d]
        BY <2>5
      <4> QED
        BY <2>5, <4>1
    <3> QED
      BY <2>4, <3>1 DEF RpcBefore
  <2> QED
    BY <1>pending, RpcCardinality, <2>1, <2>2, <2>3, <2>6 DEF Rpc!Refuse, Rpc!Finish
<1>4. ASSUME NEW c \in Call, Admit(c) PROVE Rpc!Admit(c)
  <2>1. RpcState[c] = "idle" /\ Cardinality(Inside) < QueueLimit
    BY <1>4 DEF Admit, RpcState, PendingInv, PendingExact
  <2>2. RpcState' = [RpcState EXCEPT ![c] = "pending"]
    BY <1>4 DEF Admit, RpcState
  <2>3. RpcOutcome' = RpcOutcome
    BY <1>4 DEF Admit, RpcOutcome
  <2>4. Inside = IF holder = NoCall THEN Queued ELSE Queued \cup {holder}
    BY DEF Queued, IInv, HolderInv, Holding, CallPc
  <2>5. RpcBefore' = [RpcBefore EXCEPT ![c] = Inside]
    BY <1>4, <2>4 DEF Admit, RpcBefore
  <2> QED
    BY <1>pending, RpcCardinality, <2>1, <2>2, <2>3, <2>5 DEF Rpc!Admit
<1>5. ASSUME NEW c \in Call, AcquireAlive(c) \/ AcquireSpawn(c) PROVE UNCHANGED Rpc!rpcVars
  <2>1. /\ pc[c] = "queued" /\ pc'[c] \in {"reply", "spawn"}
        /\ \A d \in Call \ {c} : pc'[d] = pc[d]
        /\ holder = NoCall /\ holder' = c /\ ahead[c] = {}
        /\ ahead' = [d \in Call |-> ahead[d] \ {c}] /\ result' = result
    BY <1>5 DEF AcquireAlive, AcquireSpawn, TakeLock, SendRequest
  <2>2. UNCHANGED <<RpcState, RpcOutcome>>
    BY <2>1 DEF RpcState, RpcOutcome
  <2>3. \A d \in Call : pc[d] = "queued" /\ d # c => c \in ahead[d]
    BY <2>1 DEF IInv, QueueInv, Queued
  <2>4. \A d \in Call : pc[d] # "queued" => ahead[d] = {}
    BY DEF IInv, QueueInv
  <2>5. UNCHANGED RpcBefore
    <3>1. \A d \in Call : (IF pc'[d] = "queued" /\ holder' # NoCall
                            THEN ahead'[d] \cup {holder'} ELSE ahead'[d])
                         = (IF pc[d] = "queued" /\ holder # NoCall
                            THEN ahead[d] \cup {holder} ELSE ahead[d])
      <4> SUFFICES ASSUME NEW d \in Call
                   PROVE (IF pc'[d] = "queued" /\ holder' # NoCall
                            THEN ahead'[d] \cup {holder'} ELSE ahead'[d])
                         = (IF pc[d] = "queued" /\ holder # NoCall
                            THEN ahead[d] \cup {holder} ELSE ahead[d])
        OBVIOUS
      <4>1. CASE d = c
        BY <2>1, <4>1
      <4>2. CASE d # c /\ pc[d] = "queued"
        BY <2>1, <2>3, <4>2
      <4>3. CASE d # c /\ pc[d] # "queued"
        BY <2>1, <2>4, <4>3
      <4> QED
        BY <4>1, <4>2, <4>3
    <3> QED
      BY <3>1 DEF RpcBefore
  <2> QED
    BY <2>2, <2>5 DEF Rpc!rpcVars
<1>6. ASSUME NEW c \in Call, Reply(c) PROVE Rpc!Answer(c)
  <2>1. mine[c] = proc /\ proc \in Pid /\ pc[c] = "reply"
    BY <1>6 DEF Reply, IInv, OwnerInv, Running, HasLine
  <2>2. PICK kind \in {"error", IF c \in CountCall THEN "tokens" ELSE "completion"} :
          stdout[proc] = <<[kind |-> kind, of |-> c]>>
    <3>1. PipeInv /\ proc # NoPid /\ stdout[proc] # <<>>
      BY <1>6, <2>1, PidAssumption DEF Reply, HasLine, IInv
    <3> QED
      BY <2>1, <3>1 DEF PipeInv
  <2>3. Head(stdout[mine[c]]) = [kind |-> kind, of |-> c]
    BY <2>1, <2>2, OneLine
  <2>4. Leave(c, kind, c)
    BY <1>6, <2>3 DEF Reply
  <2>5. Rpc!Finish(c, kind)
    BY <2>1, <2>4, <1>leave
  <2>6. RpcState[c] = "pending" /\ RpcBefore[c] = {}
    BY <2>1 DEF RpcState, RpcBefore, IInv, QueueInv
  <2> QED
    BY <2>5, <2>6 DEF Rpc!Answer
<1>7. ASSUME NEW a \in Actor, SpawnOk(a) \/ WarmupOk(a) PROVE UNCHANGED Rpc!rpcVars
  BY <1>7, <1>same DEF SpawnOk, WarmupOk, SendRequest
<1>8. ASSUME NEW p \in Pid, WorkerLoad(p) \/ WorkerServe(p) \/ Crash(p) \/ Reap(p)
      PROVE UNCHANGED Rpc!rpcVars
  BY <1>8, <1>same DEF WorkerLoad, WorkerServe, Crash, Reap
<1>9. CASE LifespanMoves
  BY <1>9, <1>same
  DEF LifespanMoves, VerifyOk, SetupOk, StopServing, LifespanDone, LifespanTo
<1>10. CASE UNCHANGED vars
  BY <1>10, <1>same DEF vars
<1> QED
  BY StepKinds, <1>1, <1>2, <1>3, <1>4, <1>5, <1>6, <1>7, <1>8, <1>9, <1>10
  DEF Rpc!RpcNext, IInv

\* Crashes, restarts, timeouts and cancellations implement a bounded queue
\* served in the order of admission, each call getting its own answer.
THEOREM ImplementsRpc == Spec => ServesInOrder
<1>1. Init => Rpc!RpcInit
  BY RpcInitHolds
<1>2. Typed /\ IInv /\ PendingInv /\ [Next]_vars => [Rpc!RpcNext]_(Rpc!rpcVars)
  BY RpcStepHolds
<1>3. Init => PendingInv
  BY PendingInit
<1>4. Typed /\ IInv /\ PendingInv /\ [Next]_vars => PendingInv'
  BY PendingStep DEF IInv
<1> QED
  BY Inductive, <1>1, <1>2, <1>3, <1>4, PTL DEF Spec, ServesInOrder, Rpc!RpcSpec

\* Types, and the state of one actor against that of the others, hold at every
\* step.
THEOREM ConsistentAlways == Spec => []Consistent
<1>1. TypeOK /\ IInv => Consistent
  BY DEF Consistent
<1> QED
  BY <1>1, PendingIsExact, Inductive, PTL

=============================================================================
