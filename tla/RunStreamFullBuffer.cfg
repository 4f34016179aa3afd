\* A Cancel publishes while the outcome is published to a full channel.
SPECIFICATION Spec
CONSTANTS
  Streams = {s1}
  Cancels = {c1}
  Executor = exec
  Buffer = 1
  MaxProgress = 1
  Outcomes <- MCOutcomes
  Afters <- MCAfters
  Filters <- MCFilters
  Limits <- MCLimits
INVARIANTS
  TerminalSurvivesFullBuffer
CHECK_DEADLOCK FALSE
