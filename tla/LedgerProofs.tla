---------------------------- MODULE LedgerProofs ----------------------------
(* What TLAPS proves about LedgerSqlite, for any processes and requests. *)
EXTENDS LedgerSqlite, TLAPS

\* Every variable keeps its type.
LEMMA TypedInit == Init => TypeOK
BY LedgerData DEF Init, TypeOK, Day, Pc

\* A process in reserve has a request, which it has not answered.
LEMMA InReserve ==
  ASSUME TypeOK, TaskInv, NEW s \in Server, pc[s] \notin {"idle", "down"}
  PROVE  /\ task[s] \in Request
         /\ answer[task[s]] = "open"
         /\ charged[task[s]] # NoDay <=> pc[s] = "return"
         /\ Caller(s) \in CallerId /\ Amount(s) \in Nat
<1>1. task[s] # NoRequest
  BY DEF TaskInv
<1>2. task[s] \in Request
  BY <1>1 DEF TypeOK
<1>3. Caller(s) \in CallerId /\ Amount(s) \in Nat
  BY <1>2, LedgerData DEF Caller, Amount
<1>4. /\ answer[task[s]] = "open"
      /\ charged[task[s]] # NoDay <=> pc[s] = "return"
  BY <1>1 DEF TaskInv
<1> QED
  BY <1>2, <1>3, <1>4

LEMMA TypedStep == TypeOK /\ TaskInv /\ [Next]_vars => TypeOK'
<1> SUFFICES ASSUME TypeOK, TaskInv, [Next]_vars PROVE TypeOK'
  OBVIOUS
<1> USE LedgerData DEF TypeOK, Day, Pc, Goto, Finish, Amount, Caller
<1>1. ASSUME NEW s \in Server, NEW r \in Request, Call(s, r) PROVE TypeOK'
  BY <1>1 DEF Call
<1>2. ASSUME NEW s \in Server, Begin(s) PROVE TypeOK'
  BY <1>2 DEF Begin
<1>task. ASSUME NEW s \in Server, pc[s] \in InTransaction
         PROVE  task[s] \in Request /\ Caller(s) \in CallerId /\ Amount(s) \in Nat
  BY <1>task, InReserve DEF InTransaction
<1>3. ASSUME NEW s \in Server, Select(s) PROVE TypeOK'
  BY <1>3, <1>task DEF Select, InTransaction
<1>4. ASSUME NEW s \in Server, SelectTooMuch(s) PROVE TypeOK'
  BY <1>4 DEF SelectTooMuch
<1>5. ASSUME NEW s \in Server, Upsert(s) PROVE TypeOK'
  BY <1>5 DEF Upsert
<1>6. ASSUME NEW s \in Server, Commit(s) PROVE TypeOK'
  <2>1. /\ task[s] \in Request /\ Caller(s) \in CallerId
        /\ reserved[s] + Amount(s) \in Nat
    BY <1>6, <1>task DEF Commit, InTransaction
  <2>2. rows' \in [CallerId -> [Day -> Nat]]
    BY <1>6, <2>1 DEF Commit
  <2> QED
    BY <1>6, <2>1, <2>2 DEF Commit
<1>7. ASSUME NEW s \in Server, Return(s) PROVE TypeOK'
  BY <1>7 DEF Return
<1>8. ASSUME NEW s \in Server, Fail(s) PROVE TypeOK'
  BY <1>8 DEF Fail
<1>9. ASSUME NEW s \in Server, Crash(s) PROVE TypeOK'
  BY <1>9 DEF Crash
<1>10. ASSUME NEW s \in Server, Restart(s) PROVE TypeOK'
  BY <1>10 DEF Restart
<1>11. CASE Midnight
  BY <1>11 DEF Midnight
<1>12. CASE UNCHANGED vars
  BY <1>12 DEF vars
<1> QED
  BY <1>1, <1>2, <1>3, <1>4, <1>5, <1>6, <1>7, <1>8, <1>9, <1>10, <1>11, <1>12
  DEF Next, Statement

\* The write lock is held by the process in a transaction.
LEMMA WriterStep ==
  ASSUME TypeOK, WriterInv, [Next]_vars
  PROVE  WriterInv'
<1> USE LedgerNames, LedgerData DEF TypeOK, Day, Pc, Goto, Finish, InTransaction, WriterInv
<1>1. ASSUME NEW s \in Server, NEW r \in Request, Call(s, r) PROVE WriterInv'
  BY <1>1 DEF Call
<1>2. ASSUME NEW s \in Server, Begin(s) PROVE WriterInv'
  BY <1>2 DEF Begin
<1>3. ASSUME NEW s \in Server, Select(s) PROVE WriterInv'
  BY <1>3 DEF Select
<1>4. ASSUME NEW s \in Server, SelectTooMuch(s) PROVE WriterInv'
  BY <1>4 DEF SelectTooMuch
<1>5. ASSUME NEW s \in Server, Upsert(s) PROVE WriterInv'
  BY <1>5 DEF Upsert
<1>6. ASSUME NEW s \in Server, Commit(s) PROVE WriterInv'
  BY <1>6 DEF Commit
<1>7. ASSUME NEW s \in Server, Return(s) PROVE WriterInv'
  BY <1>7 DEF Return
<1>8. ASSUME NEW s \in Server, Fail(s) PROVE WriterInv'
  BY <1>8 DEF Fail
<1>9. ASSUME NEW s \in Server, Crash(s) PROVE WriterInv'
  BY <1>9 DEF Crash
<1>10. ASSUME NEW s \in Server, Restart(s) PROVE WriterInv'
  BY <1>10 DEF Restart
<1>11. CASE Midnight
  BY <1>11 DEF Midnight
<1>12. CASE UNCHANGED vars
  BY <1>12 DEF vars
<1> QED
  BY <1>1, <1>2, <1>3, <1>4, <1>5, <1>6, <1>7, <1>8, <1>9, <1>10, <1>11, <1>12
  DEF Next, Statement

\* Every process works for a request of its own.
LEMMA TaskStep ==
  ASSUME TypeOK, TaskInv, [Next]_vars
  PROVE  TaskInv'
<1> USE LedgerNames, LedgerData DEF TypeOK, Day, Pc, Goto, Finish, InTransaction, TaskInv
<1>1. ASSUME NEW s \in Server, NEW r \in Request, Call(s, r) PROVE TaskInv'
  BY <1>1 DEF Call
<1>2. ASSUME NEW s \in Server, Begin(s) PROVE TaskInv'
  BY <1>2 DEF Begin
<1>3. ASSUME NEW s \in Server, Select(s) PROVE TaskInv'
  BY <1>3 DEF Select
<1>4. ASSUME NEW s \in Server, SelectTooMuch(s) PROVE TaskInv'
  <2>0. pc[s] = "select"
    BY <1>4 DEF SelectTooMuch
  <2>1. task[s] \in Request /\ answer[task[s]] = "open" /\ charged[task[s]] = NoDay
    BY <2>0, InReserve
  <2>2. /\ pc' = [pc EXCEPT ![s] = "idle"]
        /\ task' = [task EXCEPT ![s] = NoRequest]
        /\ answer' = [answer EXCEPT ![task[s]] = "refused"]
        /\ charged' = charged
    BY <1>4 DEF SelectTooMuch
  <2>3. ASSUME NEW t \in Server
        PROVE  /\ task'[t] = NoRequest <=> pc'[t] \in {"idle", "down"}
               /\ task'[t] # NoRequest =>
                    /\ answer'[task'[t]] = "open"
                    /\ charged'[task'[t]] # NoDay <=> pc'[t] = "return"
                    /\ \A u \in Server \ {t} : task'[u] # task'[t]
    BY <2>0, <2>1, <2>2
  <2>4. ASSUME NEW r \in Request, answer'[r] = "open", charged'[r] # NoDay
        PROVE  \E t \in Server : task'[t] = r
    BY <2>0, <2>1, <2>2, <2>4
  <2> QED
    BY <2>3, <2>4
<1>5. ASSUME NEW s \in Server, Upsert(s) PROVE TaskInv'
  BY <1>5 DEF Upsert
<1>6. ASSUME NEW s \in Server, Commit(s) PROVE TaskInv'
  BY <1>6 DEF Commit
<1>7. ASSUME NEW s \in Server, Return(s) PROVE TaskInv'
  BY <1>7 DEF Return
<1>8. ASSUME NEW s \in Server, Fail(s) PROVE TaskInv'
  BY <1>8 DEF Fail
<1>9. ASSUME NEW s \in Server, Crash(s) PROVE TaskInv'
  BY <1>9 DEF Crash
<1>10. ASSUME NEW s \in Server, Restart(s) PROVE TaskInv'
  BY <1>10 DEF Restart
<1>11. CASE Midnight
  BY <1>11 DEF Midnight
<1>12. CASE UNCHANGED vars
  BY <1>12 DEF vars
<1> QED
  BY <1>1, <1>2, <1>3, <1>4, <1>5, <1>6, <1>7, <1>8, <1>9, <1>10, <1>11, <1>12
  DEF Next, Statement

\* Nobody changes the row between SELECT and COMMIT.
LEMMA ReservedStep ==
  ASSUME TypeOK, WriterInv, TaskInv, ReservedInv, [Next]_vars
  PROVE  ReservedInv'
<1> USE LedgerNames, LedgerData DEF TypeOK, Day, Pc, Goto, Finish, InTransaction, Amount, Caller, WriterInv, ReservedInv
<1>1. ASSUME NEW s \in Server, NEW r \in Request, Call(s, r) PROVE ReservedInv'
  BY <1>1 DEF Call
<1>2. ASSUME NEW s \in Server, Begin(s) PROVE ReservedInv'
  BY <1>2 DEF Begin
<1>3. ASSUME NEW s \in Server, Select(s) PROVE ReservedInv'
  BY <1>3 DEF Select
<1>4. ASSUME NEW s \in Server, SelectTooMuch(s) PROVE ReservedInv'
  BY <1>4 DEF SelectTooMuch
<1>5. ASSUME NEW s \in Server, Upsert(s) PROVE ReservedInv'
  BY <1>5 DEF Upsert
<1>6. ASSUME NEW s \in Server, Commit(s) PROVE ReservedInv'
  BY <1>6 DEF Commit
<1>7. ASSUME NEW s \in Server, Return(s) PROVE ReservedInv'
  BY <1>7 DEF Return
<1>8. ASSUME NEW s \in Server, Fail(s) PROVE ReservedInv'
  BY <1>8 DEF Fail
<1>9. ASSUME NEW s \in Server, Crash(s) PROVE ReservedInv'
  BY <1>9 DEF Crash
<1>10. ASSUME NEW s \in Server, Restart(s) PROVE ReservedInv'
  BY <1>10 DEF Restart
<1>11. CASE Midnight
  BY <1>11 DEF Midnight
<1>12. CASE UNCHANGED vars
  BY <1>12 DEF vars
<1> QED
  BY <1>1, <1>2, <1>3, <1>4, <1>5, <1>6, <1>7, <1>8, <1>9, <1>10, <1>11, <1>12
  DEF Next, Statement

\* A commit leaves the row within the budget.
LEMMA BudgetStep ==
  ASSUME TypeOK, TaskInv, ReservedInv, WithinBudget, [Next]_vars
  PROVE  WithinBudget'
<1> USE LedgerNames, LedgerData DEF TypeOK, Day, Pc, Goto, Finish, InTransaction, Amount, Caller, WithinBudget
<1>1. ASSUME NEW s \in Server, NEW r \in Request, Call(s, r) PROVE WithinBudget'
  BY <1>1 DEF Call
<1>2. ASSUME NEW s \in Server, Begin(s) PROVE WithinBudget'
  BY <1>2 DEF Begin
<1>3. ASSUME NEW s \in Server, Select(s) PROVE WithinBudget'
  BY <1>3 DEF Select
<1>4. ASSUME NEW s \in Server, SelectTooMuch(s) PROVE WithinBudget'
  BY <1>4 DEF SelectTooMuch
<1>5. ASSUME NEW s \in Server, Upsert(s) PROVE WithinBudget'
  BY <1>5 DEF Upsert
<1>6. ASSUME NEW s \in Server, Commit(s) PROVE WithinBudget'
  <2>1. pc[s] = "commit"
    BY <1>6 DEF Commit
  <2>2. Caller(s) \in CallerId /\ Amount(s) \in Nat
    BY <2>1, InReserve
  <2>3. reserved[s] + Amount(s) <= BudgetOf[Caller(s)]
    BY <1>6 DEF Commit, ReservedInv
  <2>4. rows' = [rows EXCEPT ![Caller(s)][day[s]] = reserved[s] + Amount(s)]
    BY <1>6 DEF Commit
  <2> HIDE DEF Caller, Amount
  <2>5. ASSUME NEW c \in CallerId, NEW d \in Day PROVE rows'[c][d] <= BudgetOf[c]
    BY <2>2, <2>3, <2>4
  <2> QED
    BY <2>5
<1>7. ASSUME NEW s \in Server, Return(s) PROVE WithinBudget'
  BY <1>7 DEF Return
<1>8. ASSUME NEW s \in Server, Fail(s) PROVE WithinBudget'
  BY <1>8 DEF Fail
<1>9. ASSUME NEW s \in Server, Crash(s) PROVE WithinBudget'
  BY <1>9 DEF Crash
<1>10. ASSUME NEW s \in Server, Restart(s) PROVE WithinBudget'
  BY <1>10 DEF Restart
<1>11. CASE Midnight
  BY <1>11 DEF Midnight
<1>12. CASE UNCHANGED vars
  BY <1>12 DEF vars
<1> QED
  BY <1>1, <1>2, <1>3, <1>4, <1>5, <1>6, <1>7, <1>8, <1>9, <1>10, <1>11, <1>12
  DEF Next, Statement

\* Only a committed reservation is granted, only a free one refused.
LEMMA HonestStep ==
  ASSUME TypeOK, TaskInv, AnswersAreHonest, [Next]_vars
  PROVE  AnswersAreHonest'
<1> USE LedgerNames, LedgerData DEF TypeOK, Day, Pc, Goto, Finish, InTransaction, AnswersAreHonest
<1>1. ASSUME NEW s \in Server, NEW r \in Request, Call(s, r) PROVE AnswersAreHonest'
  BY <1>1 DEF Call
<1>2. ASSUME NEW s \in Server, Begin(s) PROVE AnswersAreHonest'
  BY <1>2 DEF Begin
<1>3. ASSUME NEW s \in Server, Select(s) PROVE AnswersAreHonest'
  BY <1>3 DEF Select
<1>4. ASSUME NEW s \in Server, SelectTooMuch(s) PROVE AnswersAreHonest'
  <2>0. pc[s] = "select"
    BY <1>4 DEF SelectTooMuch
  <2>1. /\ task[s] \in Request
        /\ charged[task[s]] # NoDay <=> pc[s] = "return"
        /\ answer[task[s]] = "open"
    BY <2>0, InReserve
  <2> QED
    BY <1>4, <2>1 DEF SelectTooMuch
<1>5. ASSUME NEW s \in Server, Upsert(s) PROVE AnswersAreHonest'
  BY <1>5 DEF Upsert
<1>6. ASSUME NEW s \in Server, Commit(s) PROVE AnswersAreHonest'
  <2>0. pc[s] = "commit"
    BY <1>6 DEF Commit
  <2>1. /\ task[s] \in Request
        /\ charged[task[s]] # NoDay <=> pc[s] = "return"
        /\ answer[task[s]] = "open"
    BY <2>0, InReserve
  <2> QED
    BY <1>6, <2>1 DEF Commit
<1>7. ASSUME NEW s \in Server, Return(s) PROVE AnswersAreHonest'
  <2>0. pc[s] = "return"
    BY <1>7 DEF Return
  <2>1. /\ task[s] \in Request
        /\ charged[task[s]] # NoDay <=> pc[s] = "return"
        /\ answer[task[s]] = "open"
    BY <2>0, InReserve
  <2> QED
    BY <1>7, <2>1 DEF Return
<1>8. ASSUME NEW s \in Server, Fail(s) PROVE AnswersAreHonest'
  <2>0. pc[s] \notin {"idle", "down", "return"}
    BY <1>8 DEF Fail
  <2>1. /\ task[s] \in Request
        /\ charged[task[s]] # NoDay <=> pc[s] = "return"
        /\ answer[task[s]] = "open"
    BY <2>0, InReserve
  <2> QED
    BY <1>8, <2>1 DEF Fail
<1>9. ASSUME NEW s \in Server, Crash(s) PROVE AnswersAreHonest'
  BY <1>9 DEF Crash
<1>10. ASSUME NEW s \in Server, Restart(s) PROVE AnswersAreHonest'
  BY <1>10 DEF Restart
<1>11. CASE Midnight
  BY <1>11 DEF Midnight
<1>12. CASE UNCHANGED vars
  BY <1>12 DEF vars
<1> QED
  BY <1>1, <1>2, <1>3, <1>4, <1>5, <1>6, <1>7, <1>8, <1>9, <1>10, <1>11, <1>12
  DEF Next, Statement

\* The whole inductive invariant, from its parts.
LEMMA IInvInit == Init => IInv
BY LedgerNames, LedgerData
DEF Init, IInv, WriterInv, TaskInv, ReservedInv, WithinBudget, AnswersAreHonest,
    InTransaction, Day

LEMMA IInvStep == TypeOK /\ IInv /\ [Next]_vars => TypeOK' /\ IInv'
BY TypedStep, WriterStep, TaskStep, ReservedStep, BudgetStep, HonestStep DEF IInv

-----------------------------------------------------------------------------
(* The theorems about the specification *)

\* The inductive invariant holds in every reachable state.
THEOREM Inductive == Spec => [](TypeOK /\ IInv)
<1>1. Init => TypeOK /\ IInv
  BY TypedInit, IInvInit
<1>2. TypeOK /\ IInv /\ [Next]_vars => (TypeOK /\ IInv)'
  BY IInvStep
<1> QED
  BY <1>1, <1>2, PTL DEF Spec

\* However many processes share the file, and whenever they are killed,
\* no caller is charged more than its budget on a day.
THEOREM BudgetHolds == Spec => []WithinBudget
<1>1. IInv => WithinBudget
  BY DEF IInv
<1> QED
  BY <1>1, Inductive, PTL

\* True is answered for a committed reservation only, False only for a
\* reservation that costs nothing.
THEOREM Honest == Spec => []AnswersAreHonest
<1>1. IInv => AnswersAreHonest
  BY DEF IInv
<1> QED
  BY <1>1, Inductive, PTL

\* A row grows only, and only by a commit of its own day.
THEOREM NoRefund == Spec => NothingRefunded
<1> DEFINE Grows == \A c \in CallerId, d \in Day :
             /\ rows'[c][d] >= rows[c][d]
             /\ rows'[c][d] # rows[c][d] => \E s \in Server : pc[s] = "commit" /\ day[s] = d
<1>1. TypeOK /\ IInv /\ [Next]_vars => [Grows]_vars
  <2> SUFFICES ASSUME TypeOK, IInv, Next PROVE Grows
    BY DEF vars
  <2>0. TypeOK /\ TaskInv /\ ReservedInv
    BY DEF IInv
  <2>1. CASE rows' = rows
    BY <2>0, <2>1 DEF TypeOK
  <2>2. ASSUME NEW s \in Server, Commit(s) PROVE Grows
    <3>1. /\ pc[s] = "commit"
          /\ rows' = [rows EXCEPT ![Caller(s)][day[s]] = reserved[s] + Amount(s)]
      BY <2>2 DEF Commit
    <3>2. Caller(s) \in CallerId /\ Amount(s) \in Nat
      BY <2>0, <3>1, InReserve
    <3>3. reserved[s] = rows[Caller(s)][day[s]]
      BY <2>0, <3>1 DEF ReservedInv
    <3> QED
      BY <3>1, <3>2, <3>3 DEF TypeOK
  <2> QED
    BY <2>1, <2>2
    DEF Next, Statement, Call, Begin, Select, SelectTooMuch, Upsert, Return, Fail, Crash,
        Restart, Midnight
<1> QED
  BY <1>1, Inductive, PTL DEF Spec, NothingRefunded

-----------------------------------------------------------------------------
(* The transactions implement one charge after the other *)

\* A call of reserve that has not committed is open in the promise.
LEMMA OpenInPromise ==
  ASSUME TypeOK, TaskInv, NEW s \in Server, pc[s] \notin {"idle", "down"}
  PROVE  BudgetAnswer[task[s]] = IF pc[s] = "return" THEN "charged" ELSE "open"
BY InReserve DEF BudgetAnswer

\* Reservations are charged one after the other, each if it still fits,
\* and only a charged one is granted.
THEOREM ImplementsBudget == Spec => KeepsPromise
<1>1. Init => Promise!BudgetInit
  BY LedgerNames DEF Init, Promise!BudgetInit, BudgetAnswer
<1>2. TypeOK /\ IInv /\ [Next]_vars => [Promise!BudgetNext]_(Promise!budgetVars)
  <2> SUFFICES ASSUME TypeOK, IInv, [Next]_vars
               PROVE  [Promise!BudgetNext]_(Promise!budgetVars)
    OBVIOUS
  <2>0. TypeOK /\ TaskInv /\ ReservedInv
    BY DEF IInv
  <2>idle. CASE rows' = rows /\ answer' = answer /\ charged' = charged
    BY <2>idle DEF BudgetAnswer, Promise!budgetVars
  <2>1. ASSUME NEW s \in Server, Commit(s) PROVE Promise!BudgetNext
    <3>1. pc[s] = "commit" /\ UNCHANGED answer
      BY <2>1 DEF Commit
    <3>2. /\ task[s] \in Request /\ answer[task[s]] = "open"
          /\ Caller(s) \in CallerId /\ Amount(s) \in Nat
      BY <2>0, <3>1, InReserve
    <3>3. day[s] \in Day /\ day[s] # NoDay
      BY LedgerNames DEF TypeOK
    <3>4. BudgetAnswer[task[s]] = "open"
      BY <2>0, <3>1, OpenInPromise
    <3>5. charged' = [charged EXCEPT ![task[s]] = day[s]]
      BY <2>1 DEF Commit
    <3>6. BudgetAnswer' = [BudgetAnswer EXCEPT ![task[s]] = "charged"]
      BY <3>1, <3>2, <3>3, <3>5 DEF BudgetAnswer, TypeOK
    <3>7. /\ rows[Caller(s)][day[s]] + Amount(s) <= BudgetOf[Caller(s)]
          /\ rows' = [rows EXCEPT ![Caller(s)][day[s]] = @ + Amount(s)]
      BY <2>0, <2>1, <3>1, <3>2, <3>3 DEF Commit, ReservedInv, TypeOK
    <3>8. Promise!Charge(task[s], day[s])
      BY <3>4, <3>6, <3>7 DEF Promise!Charge, Promise!To, Caller, Amount
    <3> QED
      BY <3>2, <3>3, <3>8 DEF Promise!BudgetNext
  <2>2. ASSUME NEW s \in Server, Return(s) PROVE Promise!BudgetNext
    <3>1. /\ pc[s] = "return" /\ UNCHANGED <<rows, charged>>
          /\ answer' = [answer EXCEPT ![task[s]] = "granted"]
      BY <2>2 DEF Return, Finish
    <3>2. task[s] \in Request
      BY <2>0, <3>1, InReserve
    <3>3. BudgetAnswer[task[s]] = "charged"
      BY <2>0, <3>1, OpenInPromise
    <3>4. BudgetAnswer' = [BudgetAnswer EXCEPT ![task[s]] = "granted"]
      BY <3>1, <3>2 DEF BudgetAnswer, TypeOK
    <3> QED
      BY <3>1, <3>2, <3>3, <3>4 DEF Promise!BudgetNext, Promise!Grant, Promise!To
  <2>3. ASSUME NEW s \in Server, SelectTooMuch(s) \/ Fail(s) PROVE Promise!BudgetNext
    <3>1. /\ pc[s] \notin {"idle", "down", "return"} /\ UNCHANGED <<rows, charged>>
          /\ answer' = [answer EXCEPT ![task[s]] = "refused"]
      BY <2>3 DEF SelectTooMuch, Fail, Finish
    <3>2. task[s] \in Request
      BY <2>0, <3>1, InReserve
    <3>3. BudgetAnswer[task[s]] = "open"
      BY <2>0, <3>1, OpenInPromise
    <3>4. BudgetAnswer' = [BudgetAnswer EXCEPT ![task[s]] = "refused"]
      BY <3>1, <3>2 DEF BudgetAnswer, TypeOK
    <3> QED
      BY <3>1, <3>2, <3>3, <3>4 DEF Promise!BudgetNext, Promise!Refuse, Promise!To
  <2>4. ASSUME NEW s \in Server, Crash(s), task[s] # NoRequest PROVE Promise!BudgetNext
    <3>1. /\ pc[s] \notin {"idle", "down"} /\ UNCHANGED <<rows, charged>>
          /\ answer' = [answer EXCEPT ![task[s]] = "lost"]
      BY <2>0, <2>4 DEF Crash, TaskInv
    <3>2. task[s] \in Request
      BY <2>0, <3>1, InReserve
    <3>3. BudgetAnswer[task[s]] \in {"open", "charged"}
      BY <2>0, <3>1, OpenInPromise
    <3>4. BudgetAnswer' = [BudgetAnswer EXCEPT ![task[s]] = "lost"]
      BY <3>1, <3>2 DEF BudgetAnswer, TypeOK
    <3> QED
      BY <3>1, <3>2, <3>3, <3>4 DEF Promise!BudgetNext, Promise!Lose, Promise!To
  <2> QED
    BY <2>idle, <2>1, <2>2, <2>3, <2>4
    DEF Next, Statement, Call, Begin, Select, Upsert, Crash, Restart, Midnight, vars
<1> QED
  BY <1>1, <1>2, Inductive, PTL DEF Spec, KeepsPromise, Promise!BudgetSpec

\* Types, and the state of one actor against that of the others, hold at every
\* step.
THEOREM ConsistentAlways == Spec => []Consistent
<1>1. TypeOK /\ IInv => Consistent
  BY DEF Consistent
<1> QED
  BY <1>1, Inductive, PTL

=============================================================================
