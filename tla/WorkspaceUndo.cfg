\* Three requests, of every kind, one after the other or at the same time.
SPECIFICATION Spec
CONSTANTS
  m1 = m1
  m2 = m2
  Marks = {m1, m2}
  Absent = Absent
  Dir = Dir
  Workers = {w1, w2, w3}
  Paths <- MCPaths
  Skip <- MCSkip
  Changes <- MCChanges
  Keeps <- MCKeeps
  Trees <- MCTrees
SYMMETRY Symmetry
INVARIANTS
  TypeOK
  UndoLosesNothing
  UndoRestoresEntries
  UndoFailsOnlyAfterReplacing
  PruneKeepsNewest
\* Every request may have been served.
CHECK_DEADLOCK FALSE
