\* Expected violation: the late write of Shutdown.
SPECIFICATION Spec
CONSTANTS
  Gateways = {g1}
  Runs = {r1}
  Starts = {s1}
  Cancels = {}
  Keyed = {r1}
  MaxConcurrent = 1
  RecoverLimit = 1
  StoreMayRefuse = FALSE
  MaxExits = 1
INVARIANTS
  ShutdownSavesOutcomes
CHECK_DEADLOCK FALSE
