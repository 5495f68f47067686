\* Three requests for two slots and two admissions a window of two ticks.
SPECIFICATION Spec
CONSTANTS
  Req = {r1, r2, r3}
  MaxInflight = 2
  PerMinute = 2
  Window = 2
  LastTick = 3
  Events = 2
SYMMETRY Symmetry
INVARIANTS
  Consistent
  SlotsExact
  RateLimited
  NoWorkLeftBehind
  ErrorsBeforeFirstChunk
PROPERTIES
  RefusedWhenBusy
