\* A streamed and a plain call, bodies of six units, one of text, events of
\* one line or two, and lines up to one unit more than a body may have.
SPECIFICATION Spec
CONSTANTS
  Call = {s1, p1}
  Streamed = {s1}
  MaxBytes = 6
  MaxText = 1
  MaxEvent = 3
  MaxLine = 7
INVARIANTS TypeOK WholeAnswer Bounded
PROPERTIES KeepsPromise
