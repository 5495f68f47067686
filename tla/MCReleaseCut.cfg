\* Pull requests of two paths, for a list that ends after a status.
SPECIFICATION Spec
CONSTANTS
  Path <- CutPath
  Markdown <- MCMarkdown
  v1 = v1
  v2 = v2
  Version = {v1, v2}
  NoVersion = NoVersion
  Tree <- MCTree
  MaxChanges = 2
  MaxCommits = 2
  MaxBuilds = 0
INVARIANTS MalformedFailsSafe
