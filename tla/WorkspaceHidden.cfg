\* One change and one restore of its checkpoint.
SPECIFICATION Spec
CONSTANTS
  m1 = m1
  m2 = m2
  Marks = {m1, m2}
  Absent = Absent
  Dir = Dir
  Workers = {w1, w2}
  Paths <- MCPaths
  Skip <- MCSkip
  Changes <- MCChanges
  Keeps <- MCKeeps
  Trees <- MCTrees
INVARIANTS
  UndoBringsBackAllFiles
CHECK_DEADLOCK FALSE
