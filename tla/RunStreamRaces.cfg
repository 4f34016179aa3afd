\* One stream of every kind, one Cancel, a channel of one place.
SPECIFICATION FairSpec
CONSTANTS
  Streams = {s1}
  Cancels = {c1}
  Executor = exec
  Buffer = 1
  MaxProgress = 1
  Outcomes <- MCOutcomes
  Afters <- MCAfters
  Filters <- MCFilters
  Limits <- MCLimits
INVARIANTS
  TypeOK
  NothingIsSkipped
  EndedStreamShowsOutcome
  TerminalIsKept
PROPERTIES
  IdsIncrease
  LiveStreamEnds
CHECK_DEADLOCK FALSE
