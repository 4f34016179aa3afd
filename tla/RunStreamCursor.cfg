\* A request that resumes from the last event of the run.
SPECIFICATION Spec
CONSTANTS
  Streams = {s1}
  Cancels = {c1}
  Executor = exec
  Buffer = 1
  MaxProgress = 1
  Outcomes <- MCOutcomes
  Afters <- MCAfters
  Filters <- MCFilters
  Limits <- MCLimits
INVARIANTS
  ReplayStaysAfterCursor
CHECK_DEADLOCK FALSE
