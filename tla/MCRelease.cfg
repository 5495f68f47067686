\* Pull requests of up to two changes; two commits and versions, three builds.
SPECIFICATION Spec
CONSTANTS
  Path <- MCPath
  Markdown <- MCMarkdown
  v1 = v1
  v2 = v2
  Version = {v1, v2}
  NoVersion = NoVersion
  Tree <- MCTree
  MaxChanges = 2
  MaxCommits = 2
  MaxBuilds = 3
SYMMETRY Symmetry
INVARIANTS
  Consistent
  
  StableIsSound
  StableIsValidated
