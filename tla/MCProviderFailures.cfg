\* One plain call, for the names of its failures.
SPECIFICATION Spec
CONSTANTS
  Call = {p1}
  Streamed = {}
  MaxBytes = 6
  MaxText = 1
  MaxEvent = 3
  MaxLine = 7
INVARIANTS FailuresNamed
