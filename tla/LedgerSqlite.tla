---------------------------- MODULE LedgerSqlite ----------------------------
(***************************************************************************)
(* BudgetLedger.reserve of src/src/omo/access.py with a database file:     *)
(* several server processes of one node share the file, each runs one      *)
(* reserve at a time under its own lock, any of them may be killed between *)
(* two statements and start again, and midnight may pass in between.       *)
(*                                                                         *)
(* SQLite is external: BEGIN IMMEDIATE takes the only write lock or fails  *)
(* after the connection's timeout, a statement may fail, a commit is atomic*)
(* and durable, and what is not committed vanishes with its process.       *)
(***************************************************************************)
EXTENDS Integers, Functions

CONSTANTS
  Server,    \* processes that share the database file
  NoServer,  \* nobody holds the write lock
  Request,   \* calls of reserve, each made at most once
  NoRequest,
  CallerId,
  LastDay,   \* days are 0..LastDay, a bound of the model
  NoDay,
  CallerOf,  \* the caller of each request
  AmountOf,  \* the amount each request reserves
  BudgetOf   \* daily_budget_usd of each caller

Day == 0..LastDay

ASSUME LedgerNames ==
  NoServer \notin Server /\ NoRequest \notin Request /\ NoDay \notin Day
ASSUME LedgerData ==
  /\ LastDay \in Nat
  /\ CallerOf \in [Request -> CallerId]
  /\ AmountOf \in [Request -> Nat]
  /\ BudgetOf \in [CallerId -> Nat]

VARIABLES
  today,     \* the date of datetime.now(UTC)
  pc,        \* the next statement of each process
  task,      \* the request it is reserving for
  day,       \* the date it computed for it
  reserved,  \* the amount its SELECT returned
  writer,    \* the process in a transaction
  rows,      \* committed rows of budget_reservations, 0 for a missing row
  answer,    \* what became of each request
  charged    \* history: the day a request was committed on

vars == <<today, pc, task, day, reserved, writer, rows, answer, charged>>

Pc == {"idle", "begin", "select", "upsert", "commit", "return", "down"}

Init ==
  /\ today = 0
  /\ pc = [s \in Server |-> "idle"]
  /\ task = [s \in Server |-> NoRequest]
  /\ day = [s \in Server |-> 0]
  /\ reserved = [s \in Server |-> 0]
  /\ writer = NoServer
  /\ rows = [c \in CallerId |-> [d \in Day |-> 0]]
  /\ answer = [r \in Request |-> "open"]
  /\ charged = [r \in Request |-> NoDay]

-----------------------------------------------------------------------------
Amount(s) == AmountOf[task[s]]
Caller(s) == CallerOf[task[s]]

Goto(s, label) == pc' = [pc EXCEPT ![s] = label]

\* Leaving reserve with this answer.
Finish(s, kind) ==
  /\ Goto(s, "idle")
  /\ answer' = [answer EXCEPT ![task[s]] = kind]
  /\ task' = [task EXCEPT ![s] = NoRequest]

\* reserve is called: the date is computed, then the process's lock taken.
Call(s, r) ==
  /\ pc[s] = "idle" /\ answer[r] = "open" /\ \A t \in Server : task[t] # r
  /\ task' = [task EXCEPT ![s] = r]
  /\ day' = [day EXCEPT ![s] = today]
  /\ Goto(s, "begin")
  /\ UNCHANGED <<today, reserved, writer, rows, answer, charged>>

\* The form of Begin that opens a deferred transaction.
BeginDeferred(s) ==
  /\ pc[s] = "begin"
  /\ Goto(s, "select")
  /\ UNCHANGED <<today, task, day, reserved, writer, rows, answer, charged>>

\* BEGIN IMMEDIATE
Begin(s) ==
  /\ pc[s] = "begin"
  /\ writer = NoServer
  /\ writer' = s
  /\ Goto(s, "select")
  /\ UNCHANGED <<today, task, day, reserved, rows, answer, charged>>

\* The form of Select that compares the row alone with the budget.
SelectIgnoringAmount(s) ==
  /\ pc[s] = "select"
  /\ rows[Caller(s)][day[s]] <= BudgetOf[Caller(s)]
  /\ reserved' = [reserved EXCEPT ![s] = rows[Caller(s)][day[s]]]
  /\ Goto(s, "upsert")
  /\ UNCHANGED <<today, task, day, writer, rows, answer, charged>>

\* SELECT: the reservation still fits.
Select(s) ==
  /\ pc[s] = "select"
  /\ rows[Caller(s)][day[s]] + Amount(s) <= BudgetOf[Caller(s)]
  /\ reserved' = [reserved EXCEPT ![s] = rows[Caller(s)][day[s]]]
  /\ Goto(s, "upsert")
  /\ UNCHANGED <<today, task, day, writer, rows, answer, charged>>

\* SELECT: it does not; roll back and answer False.
SelectTooMuch(s) ==
  /\ pc[s] = "select"
  /\ rows[Caller(s)][day[s]] + Amount(s) > BudgetOf[Caller(s)]
  /\ writer' = NoServer
  /\ Finish(s, "refused")
  /\ UNCHANGED <<today, day, reserved, rows, charged>>

\* INSERT ... ON CONFLICT DO UPDATE: seen by nobody until the commit.
Upsert(s) ==
  /\ pc[s] = "upsert"
  /\ Goto(s, "commit")
  /\ UNCHANGED <<today, task, day, reserved, writer, rows, answer, charged>>

\* The form of Commit that writes under the date of the commit.
CommitUnderToday(s) ==
  /\ pc[s] = "commit"
  /\ rows' = [rows EXCEPT ![Caller(s)][today] = reserved[s] + Amount(s)]
  /\ charged' = [charged EXCEPT ![task[s]] = today]
  /\ writer' = NoServer
  /\ Goto(s, "return")
  /\ UNCHANGED <<today, task, day, reserved, answer>>

\* COMMIT: the row becomes reserved + amount.
Commit(s) ==
  /\ pc[s] = "commit"
  /\ rows' = [rows EXCEPT ![Caller(s)][day[s]] = reserved[s] + Amount(s)]
  /\ charged' = [charged EXCEPT ![task[s]] = day[s]]
  /\ writer' = NoServer
  /\ Goto(s, "return")
  /\ UNCHANGED <<today, task, day, reserved, answer>>

Return(s) ==
  /\ pc[s] = "return"
  /\ Finish(s, "granted")
  /\ UNCHANGED <<today, day, reserved, writer, rows, charged>>

\* The form of Fail that answers True when the database is in trouble.
FailOpen(s) ==
  /\ pc[s] \in {"begin", "select", "upsert", "commit"}
  /\ writer' = IF writer = s THEN NoServer ELSE writer
  /\ Finish(s, "granted")
  /\ UNCHANGED <<today, day, reserved, rows, charged>>

\* The form of Fail that does not roll back.
FailKeepsTransaction(s) ==
  /\ pc[s] \in {"begin", "select", "upsert", "commit"}
  /\ Finish(s, "refused")
  /\ UNCHANGED <<today, day, reserved, writer, rows, charged>>

\* sqlite3.Error: the write lock was not free in time, or a statement or
\* the commit failed; roll back and answer False.
Fail(s) ==
  /\ pc[s] \in {"begin", "select", "upsert", "commit"}
  /\ writer' = IF writer = s THEN NoServer ELSE writer
  /\ Finish(s, "refused")
  /\ UNCHANGED <<today, day, reserved, rows, charged>>

\* A process is killed, with or without a request.
Crash(s) ==
  /\ pc[s] # "down"
  /\ Goto(s, "down")
  /\ writer' = IF writer = s THEN NoServer ELSE writer
  /\ answer' = IF task[s] = NoRequest THEN answer ELSE [answer EXCEPT ![task[s]] = "lost"]
  /\ task' = [task EXCEPT ![s] = NoRequest]
  /\ UNCHANGED <<today, day, reserved, rows, charged>>

Restart(s) ==
  /\ pc[s] = "down"
  /\ Goto(s, "idle")
  /\ UNCHANGED <<today, task, day, reserved, writer, rows, answer, charged>>

Midnight ==
  /\ today < LastDay
  /\ today' = today + 1
  /\ UNCHANGED <<pc, task, day, reserved, writer, rows, answer, charged>>

Statement(s) ==
  \/ Begin(s) \/ Select(s) \/ SelectTooMuch(s) \/ Upsert(s) \/ Commit(s)
  \/ Return(s) \/ Fail(s)

Next ==
  \/ \E s \in Server : Statement(s) \/ Crash(s) \/ Restart(s)
  \/ \E s \in Server, r \in Request : Call(s, r)
  \/ Midnight

Spec == Init /\ [][Next]_vars

-----------------------------------------------------------------------------
(* Properties *)

\* Every variable has its type.
TypeOK ==
  /\ today \in Day
  /\ pc \in [Server -> Pc]
  /\ task \in [Server -> Request \cup {NoRequest}]
  /\ day \in [Server -> Day]
  /\ reserved \in [Server -> Nat]
  /\ writer \in Server \cup {NoServer}
  /\ rows \in [CallerId -> [Day -> Nat]]
  /\ answer \in [Request -> {"open", "granted", "refused", "lost"}]
  /\ charged \in [Request -> Day \cup {NoDay}]

\* The daily budget holds across processes, restarts and midnight.
WithinBudget == \A c \in CallerId, d \in Day : rows[c][d] <= BudgetOf[c]

\* True is answered for a committed reservation only, False for one that
\* costs nothing.
AnswersAreHonest ==
  \A r \in Request : /\ answer[r] = "granted" => charged[r] # NoDay
                     /\ answer[r] = "refused" => charged[r] = NoDay

\* A reservation is charged to the day on which reserve was called, even
\* when midnight passes before the commit; yesterday's rows never shrink.
NothingRefunded ==
  [][\A c \in CallerId, d \in Day :
       /\ rows'[c][d] >= rows[c][d]
       /\ rows'[c][d] # rows[c][d] => \E s \in Server : pc[s] = "commit" /\ day[s] = d]_vars

-----------------------------------------------------------------------------
(* The promise of reserve, and the inductive invariant behind it *)

BudgetAnswer ==
  [r \in Request |-> IF answer[r] = "open" /\ charged[r] # NoDay
                     THEN "charged" ELSE answer[r]]

Promise == INSTANCE Budget WITH spent <- rows, answer <- BudgetAnswer

\* Transactions, failures and crashes implement one charge after the other.
KeepsPromise == Promise!BudgetSpec

InTransaction == {"select", "upsert", "commit"}

\* One process is in a transaction, and it is the one with the write lock.
WriterInv == \A s \in Server : pc[s] \in InTransaction <=> writer = s

\* A process in reserve has a request of its own, charged once committed.
TaskInv ==
  /\ \A s \in Server : task[s] = NoRequest <=> pc[s] \in {"idle", "down"}
  /\ \A s \in Server : task[s] # NoRequest =>
       /\ answer[task[s]] = "open"
       /\ charged[task[s]] # NoDay <=> pc[s] = "return"
       /\ \A t \in Server \ {s} : task[t] # task[s]
  /\ \A r \in Request : answer[r] = "open" /\ charged[r] # NoDay =>
       \E s \in Server : task[s] = r

\* What SELECT returned is still the row, and the sum still fits.
ReservedInv ==
  \A s \in Server : pc[s] \in {"upsert", "commit"} =>
    /\ reserved[s] = rows[Caller(s)][day[s]]
    /\ reserved[s] + Amount(s) <= BudgetOf[Caller(s)]

IInv == WriterInv /\ TaskInv /\ ReservedInv /\ WithinBudget /\ AnswersAreHonest

\* Every variable has its type, and what the actions keep of each other's
\* state between two steps holds.
Consistent == TypeOK /\ IInv

=============================================================================
