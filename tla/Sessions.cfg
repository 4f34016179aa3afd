SPECIFICATION Spec
CONSTANTS
  None = None
  r1 = r1  r2 = r2  r3 = r3
  s1 = s1  s2 = s2  s3 = s3
  t1 = t1  t2 = t2  d1 = d1  d2 = d2  k1 = k1
  Workers = {r1, r2, r3}
  Names = {s1, s2, s3}
  OldTurns = {t1, t2}
  TodoIds = {d1, d2}
  ItemIds = {k1}
  Rows <- MCRows
  Stored <- MCStored
  Todos <- MCTodos
  Backups <- MCBackups
  Serves <- MCServes
  CompactAfter = 3
  KeepLast = 1
  KeepLatest = 0
INVARIANTS
  TypeOK
  AnsweredTurnsSurvive
  HistoryIsAppendOnly
  RowSpeaksOfItsTurns
  TodosAreKept
  OneSessionPerTurn
  ExportIsClosed
PROPERTIES
  ImportRestoresBundle
CHECK_DEADLOCK FALSE
