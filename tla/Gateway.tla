------------------------------ MODULE Gateway ------------------------------
(***************************************************************************)
(* The way of a request through src/src/omo/api.py: the Guard middleware   *)
(* (at most MaxInflight requests inside, at most PerMinute admitted in any *)
(* Window), cancellable, which runs the operation in a task of its own     *)
(* against a watcher of the connection and a deadline, and the chunks of a *)
(* streamed answer.                                                        *)
(*                                                                         *)
(* A step runs from one await to the next.  The clock is the one of the    *)
(* admission window; the bounds of 5 s on the body, deadline_seconds on    *)
(* the operation and 5 s on the delivery are steps that may happen at any  *)
(* moment of the wait they bound.                                          *)
(***************************************************************************)
EXTENDS Integers, Sequences, FiniteSets

CONSTANTS
  Req,          \* HTTP requests, the health checks excepted
  MaxInflight,  \* settings.max_inflight
  PerMinute,    \* settings.requests_per_minute
  Window,       \* the 60 seconds of the admission window
  LastTick,     \* the clock stops there, a bound of the model
  Events        \* events of a streamed answer, [DONE] is the last

ASSUME ReqAssumption == IsFiniteSet(Req)
ASSUME LimitAssumption ==
  /\ MaxInflight \in Nat \ {0} /\ PerMinute \in Nat \ {0}
  /\ Window \in Nat /\ LastTick \in Nat /\ Events \in Nat \ {0}

VARIABLES
  now,       \* time.monotonic()
  active,    \* self.active
  recent,    \* self.recent
  at,        \* where each request is
  op,        \* the task of its operation
  reply,     \* the answer its client was sent, or the start of it
  sent,      \* events of a streamed answer handed to the server
  gone,      \* the clients that have disconnected
  stopping,  \* the server's grace period has passed
  admitted   \* history: when Guard let each request in

guardVars == <<active, recent, admitted>>
vars == <<now, guardVars, at, op, reply, sent, gone, stopping>>

Place == {"new", "body", "work", "unwind", "stream", "done"}
Task == {"none", "running", "ok", "failed", "stopping", "stopped"}
ReplyKind ==
  {"none", "rejected", "busy", "too_large", "body_timeout", "immediate", "json",
   "stream", "error", "disconnected", "deadline", "cancelled"}
Never == 0 - Window - 1  \* before every window

Init ==
  /\ now = 0 /\ active = 0 /\ recent = <<>>
  /\ at = [r \in Req |-> "new"]
  /\ op = [r \in Req |-> "none"]
  /\ reply = [r \in Req |-> "none"]
  /\ sent = [r \in Req |-> 0]
  /\ gone = {} /\ stopping = FALSE
  /\ admitted = [r \in Req |-> Never]

-----------------------------------------------------------------------------
(* Guard: admission *)

\* The form of Prune that forgets a request one tick too early.
PruneEarly ==
  LET old == {i \in 1..Len(recent) : \A j \in 1..i : recent[j] <= now - Window}
  IN  SubSeq(recent, Cardinality(old) + 1, Len(recent))

\* What is left of self.recent once its old head has been popped.
Prune ==
  LET old == {i \in 1..Len(recent) : \A j \in 1..i : recent[j] < now - Window}
  IN  SubSeq(recent, Cardinality(old) + 1, Len(recent))

\* The form of Busy that prunes after it has looked.
BusyBeforePruning == active >= MaxInflight \/ Len(recent) >= PerMinute

Busy == active >= MaxInflight \/ Len(Prune) >= PerMinute

Goto(r, place) == at' = [at EXCEPT ![r] = place]
Send(r, kind) == reply' = [reply EXCEPT ![r] = kind]

\* 401 or 415, before anything is counted.
Reject(r) ==
  /\ at[r] = "new" /\ ~stopping
  /\ Goto(r, "done") /\ Send(r, "rejected")
  /\ UNCHANGED <<now, guardVars, op, sent, gone, stopping>>

\* 429
Refuse(r) ==
  /\ at[r] = "new" /\ ~stopping
  /\ Busy
  /\ recent' = Prune
  /\ Goto(r, "done") /\ Send(r, "busy")
  /\ UNCHANGED <<now, active, admitted, op, sent, gone, stopping>>

\* The form of Admit that does not count the request before its body is read.
AdmitUncounted(r) ==
  /\ at[r] = "new" /\ ~stopping
  /\ ~Busy
  /\ recent' = Append(Prune, now)
  /\ active' = active
  /\ admitted' = [admitted EXCEPT ![r] = now]
  /\ Goto(r, "body")
  /\ UNCHANGED <<now, op, reply, sent, gone, stopping>>

Admit(r) ==
  /\ at[r] = "new" /\ ~stopping
  /\ ~Busy
  /\ active' = active + 1
  /\ recent' = Append(Prune, now)
  /\ admitted' = [admitted EXCEPT ![r] = now]
  /\ Goto(r, "body")
  /\ UNCHANGED <<now, op, reply, sent, gone, stopping>>

\* The finally clause of Guard.
Leave(r) ==
  /\ Goto(r, "done")
  /\ active' = active - 1
  /\ UNCHANGED <<now, recent, admitted, gone, stopping>>

\* The form of BodyEnds that keeps the slot of a client that has gone.
BodyEndsKeepsSlot(r) ==
  /\ at[r] = "body"
  /\ \/ (Send(r, "too_large") \/ Send(r, "body_timeout") \/ Send(r, "immediate")) /\ Leave(r)
     \/ /\ r \in gone /\ UNCHANGED reply
        /\ Goto(r, "done")
        /\ UNCHANGED <<now, active, recent, admitted, gone, stopping>>
  /\ UNCHANGED <<op, sent>>

\* 413, 408, or nobody is left to answer; or the routes that answer at once
\* and the bodies that do not validate.
BodyEnds(r) ==
  /\ at[r] = "body"
  /\ \/ Send(r, "too_large") \/ Send(r, "body_timeout") \/ Send(r, "immediate")
     \/ r \in gone /\ UNCHANGED reply
  /\ Leave(r)
  /\ UNCHANGED <<op, sent>>

-----------------------------------------------------------------------------
(* cancellable *)

\* The body is whole and valid: the operation gets a task.
Begin(r) ==
  /\ at[r] = "body"
  /\ Goto(r, "work")
  /\ op' = [op EXCEPT ![r] = "running"]
  /\ UNCHANGED <<now, guardVars, reply, sent, gone, stopping>>

OpEnds(r) ==
  /\ op[r] = "running"
  /\ \E end \in {"ok", "failed"} : op' = [op EXCEPT ![r] = end]
  /\ UNCHANGED <<now, guardVars, at, reply, sent, gone, stopping>>

\* A cancelled operation ends, whatever it makes of the cancellation.
OpStops(r) ==
  /\ op[r] = "stopping"
  /\ op' = [op EXCEPT ![r] = "stopped"]
  /\ UNCHANGED <<now, guardVars, at, reply, sent, gone, stopping>>

\* The form of Unwind that leaves the operation alone.
UnwindKeepsTask(r, reason) ==
  /\ Goto(r, "unwind")
  /\ Send(r, reason)
  /\ op' = op
  /\ UNCHANGED <<now, guardVars, sent, gone, stopping>>

\* The finally clause of cancellable: a task that is not done is cancelled
\* and waited for; then the error is answered.
Unwind(r, reason) ==
  /\ Goto(r, "unwind")
  /\ Send(r, reason)
  /\ op' = IF op[r] = "running" THEN [op EXCEPT ![r] = "stopping"] ELSE op
  /\ UNCHANGED <<now, guardVars, sent, gone, stopping>>

\* The watcher sees the disconnection before the operation is done.
WatcherFires(r) == at[r] = "work" /\ r \in gone /\ op[r] = "running" /\ Unwind(r, "disconnected")

\* deadline_seconds, even when the operation has just ended.
Deadline(r) == at[r] = "work" /\ Unwind(r, "deadline")

\* The form of Unwound that answers before the operation has stopped.
UnwoundEarly(r) ==
  /\ at[r] = "unwind"
  /\ Leave(r)
  /\ UNCHANGED <<op, reply, sent>>

Unwound(r) ==
  /\ at[r] = "unwind" /\ op[r] \notin {"running", "stopping"}
  /\ Leave(r)
  /\ UNCHANGED <<op, reply, sent>>

\* The operation's result or error is answered in one piece; an operation
\* that raises TimeoutError itself is taken for the deadline.
Answer(r) ==
  /\ at[r] = "work"
  /\ \/ op[r] = "ok" /\ Send(r, "json")
     \/ op[r] = "failed" /\ (Send(r, "error") \/ Send(r, "deadline"))
  /\ Leave(r)
  /\ UNCHANGED <<op, sent>>

-----------------------------------------------------------------------------
(* chunks *)

\* The form of StartStream that does not wait for the whole result.
StartStreamEarly(r) ==
  /\ at[r] = "work" /\ op[r] \in {"running", "ok"}
  /\ Goto(r, "stream") /\ Send(r, "stream")
  /\ UNCHANGED <<now, guardVars, op, sent, gone, stopping>>

StartStream(r) ==
  /\ at[r] = "work" /\ op[r] = "ok"
  /\ Goto(r, "stream") /\ Send(r, "stream")
  /\ UNCHANGED <<now, guardVars, op, sent, gone, stopping>>

SendEvent(r) ==
  /\ at[r] = "stream" /\ sent[r] < Events
  /\ sent' = [sent EXCEPT ![r] = @ + 1]
  /\ UNCHANGED <<now, guardVars, at, op, reply, gone, stopping>>

\* [DONE] was sent, the client is gone, or the 5 s have passed: what was
\* sent stays sent, and nothing follows it.
StreamEnds(r) ==
  /\ at[r] = "stream"
  /\ Leave(r)
  /\ UNCHANGED <<op, reply, sent>>

-----------------------------------------------------------------------------
(* the clients, the clock and the server *)

Disconnect(r) ==
  /\ at[r] \in {"body", "work", "unwind", "stream"} /\ r \notin gone
  /\ gone' = gone \cup {r}
  /\ UNCHANGED <<now, guardVars, at, op, reply, sent, stopping>>

Tick ==
  /\ now < LastTick
  /\ now' = now + 1
  /\ UNCHANGED <<guardVars, at, op, reply, sent, gone, stopping>>

\* The server takes no more requests and cancels those it serves.
Stop ==
  /\ ~stopping /\ stopping' = TRUE
  /\ UNCHANGED <<now, guardVars, at, op, reply, sent, gone>>

\* The cancellation of a request's own task.  In the finally clause of
\* cancellable it reaches the operation, which is still waited for.
Cancel(r) ==
  /\ stopping
  /\ \/ /\ at[r] \in {"body", "stream"}
        /\ Leave(r)
        /\ UNCHANGED <<op, reply, sent>>
     \/ at[r] = "work" /\ Unwind(r, "cancelled")
     \/ /\ at[r] = "unwind" /\ reply[r] # "cancelled"
        /\ Send(r, "cancelled")
        /\ UNCHANGED <<now, guardVars, at, op, sent, gone, stopping>>

\* The server has stopped and every request has left.
Terminating == stopping /\ (\A r \in Req : at[r] \in {"new", "done"}) /\ UNCHANGED vars

\* Steps a request's own coroutines take.
Progress(r) ==
  \/ BodyEnds(r) \/ Begin(r) \/ OpStops(r) \/ WatcherFires(r) \/ Deadline(r)
  \/ Unwound(r) \/ Answer(r) \/ StartStream(r) \/ SendEvent(r) \/ StreamEnds(r)

Next ==
  \/ \E r \in Req : \/ Reject(r) \/ Refuse(r) \/ Admit(r) \/ Progress(r)
                    \/ OpEnds(r) \/ Disconnect(r) \/ Cancel(r)
  \/ Tick \/ Stop \/ Terminating

Spec == Init /\ [][Next]_vars

\* Every wait of a request is bounded by a timeout, and a cancelled
\* operation ends.  An operation need not end by itself.
FairSpec == Spec /\ \A r \in Req : WF_vars(Progress(r))

-----------------------------------------------------------------------------
(* Properties *)

Typed ==
  /\ now \in 0..LastTick
  /\ active \in Int
  /\ recent \in Seq(0..LastTick)
  /\ at \in [Req -> Place]
  /\ op \in [Req -> Task]
  /\ reply \in [Req -> ReplyKind]
  /\ sent \in [Req -> 0..Events]
  /\ gone \in SUBSET Req
  /\ stopping \in BOOLEAN
  /\ admitted \in [Req -> 0..LastTick \cup {Never}]

\* Every variable has its type.
TypeOK == Typed /\ active \in 0..MaxInflight

Inside == {r \in Req : at[r] \notin {"new", "done"}}

\* self.active counts the requests inside, on every way out: a timeout, an
\* oversized body, a disconnection, an error or a cancellation gives the
\* slot back once, and never more than max_inflight are taken.
SlotsExact == active = Cardinality(Inside) /\ active <= MaxInflight

\* No window of that length, wherever it begins, sees more admissions than
\* requests_per_minute, although self.recent is pruned only by arrivals.
RateLimited ==
  \A t \in 0..LastTick :
    Cardinality({r \in Req : admitted[r] \in t..t + Window}) <= PerMinute

\* The requests admitted in the window that ends now.
InWindow == {r \in Req : admitted[r] \in now - Window..now}

\* A client is refused only when the slots are taken or the last Window saw
\* the full number of admissions: refused requests do not count.
RefusedWhenBusy ==
  [][\A r \in Req : reply[r] = "none" /\ reply'[r] = "busy" =>
       \/ Cardinality(Inside) = MaxInflight
       \/ Cardinality(InWindow) >= PerMinute]_vars

\* When a request has left, its operation has ended: neither the deadline,
\* a disconnection nor a cancellation within cancellable's own cleanup
\* leaves a task behind that still holds the model or a provider.
NoWorkLeftBehind == \A r \in Req : at[r] = "done" => op[r] \notin {"running", "stopping"}

\* The first chunk follows the whole result: a stream is never begun for an
\* operation that can still fail, be cancelled or miss its deadline.
ErrorsBeforeFirstChunk ==
  \A r \in Req : reply[r] = "stream" \/ sent[r] > 0 => reply[r] = "stream" /\ op[r] = "ok"

\* Every admitted request gives its slot back, though its client may never
\* finish the body and its operation may never end by itself.
SlotsComeBack == \A r \in Req : at[r] = "body" ~> at[r] = "done"

-----------------------------------------------------------------------------
(* The inductive invariant *)

\* Where an operation can be, by the place of its request, and the converse.
OpInv ==
  \A r \in Req :
    /\ at[r] \in {"new", "body"} => op[r] = "none"
    /\ at[r] = "work" => op[r] \in {"running", "ok", "failed"}
    /\ at[r] = "stream" => reply[r] = "stream"
    /\ op[r] = "running" => at[r] = "work"
    /\ op[r] = "stopping" => at[r] = "unwind"
    /\ reply[r] = "stream" => op[r] = "ok" /\ at[r] \in {"stream", "done"}
    /\ sent[r] > 0 => reply[r] = "stream"

\* self.recent holds the admission times of requests of its own, in order,
\* and of every request that was admitted in the window that ends now.
RecentInv ==
  /\ \A r \in Req : at[r] = "new" => admitted[r] = Never
  /\ \A r \in Req : admitted[r] <= now
  /\ \A i, j \in 1..Len(recent) : i <= j => recent[i] <= recent[j]
  /\ \A i \in 1..Len(recent) : recent[i] <= now
  /\ \E f \in [1..Len(recent) -> Req] :
       /\ \A i, j \in 1..Len(recent) : f[i] = f[j] => i = j
       /\ \A i \in 1..Len(recent) : admitted[f[i]] = recent[i]
       /\ \A r \in InWindow : \E i \in 1..Len(recent) : f[i] = r

IInv == OpInv /\ SlotsExact /\ RecentInv /\ RateLimited

\* Every variable has its type, and what the actions keep of each other's
\* state between two steps holds.
Consistent == TypeOK /\ IInv

=============================================================================
