------------------------------- MODULE Budget -------------------------------
(***************************************************************************)
(* What BudgetLedger.reserve (src/src/omo/access.py) promises: reservations*)
(* of a caller on a day are charged one after the other, each only if it   *)
(* still fits the caller's daily budget, and only a charged reservation is *)
(* granted.  Nothing is said of locks, files, processes or clocks.         *)
(***************************************************************************)
EXTENDS Integers

CONSTANTS
  Request,   \* calls of reserve, each made at most once
  CallerId, Day,
  CallerOf,  \* the caller of each request
  AmountOf,  \* the amount each request reserves
  BudgetOf   \* daily_budget_usd of each caller

VARIABLES
  spent,  \* what each caller has been charged on each day
  answer  \* open, charged (not answered yet), granted, refused or lost

budgetVars == <<spent, answer>>

BudgetInit ==
  /\ spent = [c \in CallerId |-> [d \in Day |-> 0]]
  /\ answer = [r \in Request |-> "open"]

To(r, kind) == answer' = [answer EXCEPT ![r] = kind]

Charge(r, d) ==
  /\ answer[r] = "open"
  /\ spent[CallerOf[r]][d] + AmountOf[r] <= BudgetOf[CallerOf[r]]
  /\ spent' = [spent EXCEPT ![CallerOf[r]][d] = @ + AmountOf[r]]
  /\ To(r, "charged")

\* The answer True; a charge that was made is never taken back.
Grant(r) == answer[r] = "charged" /\ To(r, "granted") /\ UNCHANGED spent

\* The answer False: the reservation costs nothing.
Refuse(r) == answer[r] = "open" /\ To(r, "refused") /\ UNCHANGED spent

\* The process that was serving the request is gone.
Lose(r) == answer[r] \in {"open", "charged"} /\ To(r, "lost") /\ UNCHANGED spent

BudgetNext ==
  \E r \in Request : (\E d \in Day : Charge(r, d)) \/ Grant(r) \/ Refuse(r) \/ Lose(r)

BudgetSpec == BudgetInit /\ [][BudgetNext]_budgetVars

=============================================================================
