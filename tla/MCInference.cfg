\* Three calls (one count) contend for a queue of two; up to three workers.
SPECIFICATION Spec
CONSTANTS
  c1 = c1
  c2 = c2
  c3 = c3
  p1 = p1
  p2 = p2
  p3 = p3
  Call = {c1, c2, c3}
  CountCall = {c1}
  Lifespan = Lifespan
  Pid = {p1, p2, p3}
  NoPid = NoPid
  NoCall = NoCall
  QueueLimit = 2
SYMMETRY Symmetry
INVARIANTS
  Consistent
  AnswerMatchesRequest
  OneWorker
  PendingExact
  RecoveryIsNotReady
PROPERTIES
  ServesInOrder
