\* Expected violation: a second gateway starts while the first executes.
SPECIFICATION Spec
CONSTANTS
  Gateways = {g1, g2}
  Runs = {r1}
  Starts = {s1}
  Cancels = {}
  Keyed = {r1}
  MaxConcurrent = 1
  RecoverLimit = 1
  StoreMayRefuse = FALSE
  MaxExits = 1
PROPERTIES
  RecoverySparesOwnedRuns
CHECK_DEADLOCK FALSE
