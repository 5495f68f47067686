\* A download, two materializations of the same file of which one is killed
\* while it has a file, two exports.
SPECIFICATION Spec
CONSTANTS
  None = None
  Downloader = {d1}
  Materializer = {m1, m2}
  Litter = {l1}
  Size = 1
  Exports = 2
  Gaps <- MCGaps
SYMMETRY Symmetry
CONSTRAINT OneApproval
INVARIANTS Consistent NeverHalfInstalled LoadsPinned NoLeftovers
PROPERTIES ApprovedWhole
