\* Two requests of few kinds, three registries and two days; and one request
\* of every kind, five registries.
SPECIFICATION MCSpec
CONSTANTS
  alice = alice
  bob = bob
  NoCaller = NoCaller
  Unpriced = Unpriced
  Unlimited = Unlimited
  CallerId = {alice, bob}
  Req = {r1, r2}
  Requests <- MCRequests
  Registries <- MCRegistries
  Day = {0, 1}
  ExternalEnabled = TRUE
  SandboxEnabled = TRUE
  Evaluated = TRUE
  ExternalMaxCost = 6
  MaxCostOf <- MCMaxCostOf
  DailyOf <- MCDailyOf
  HostsOf <- MCHostsOf
  RetentionOf <- MCRetentionOf
CONSTRAINT Considered
SYMMETRY Symmetry
INVARIANTS
  Consistent
  NothingLeaves
  SentAsPermitted
  PaidWithinLimit
  DailyBudgetHolds
  BestSent
  OverrideKept
