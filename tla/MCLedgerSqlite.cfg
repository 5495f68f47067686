\* Two processes, four requests of two callers, one midnight.
SPECIFICATION Spec
CONSTANTS
  s1 = s1
  s2 = s2
  r1 = r1
  r2 = r2
  r3 = r3
  r4 = r4
  alice = alice
  bob = bob
  Server = {s1, s2}
  NoServer = NoServer
  Request = {r1, r2, r3, r4}
  NoRequest = NoRequest
  CallerId = {alice, bob}
  LastDay = 1
  NoDay = NoDay
  CallerOf <- MCCallerOf
  AmountOf <- MCAmountOf
  BudgetOf <- MCBudgetOf
SYMMETRY Symmetry
INVARIANTS
  Consistent
  WithinBudget
  AnswersAreHonest
PROPERTIES
  NothingRefunded
  KeepsPromise
