\* Two calls behind one worker; no symmetry, which liveness forbids.
SPECIFICATION FairSpec
CONSTANTS
  c1 = c1
  c3 = c3
  c2 = c2
  p1 = p1
  p2 = p2
  p3 = p3
  Call = {c1, c2}
  CountCall = {c1}
  Lifespan = Lifespan
  Pid = {p1, p2, p3}
  NoPid = NoPid
  NoCall = NoCall
  QueueLimit = 2
PROPERTIES
  AdmittedCallsFinish
  ShutdownCompletes
