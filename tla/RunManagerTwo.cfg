\* Two gateways on one database, one run id, three requests, one exit.
SPECIFICATION Spec
CONSTANTS
  Gateways = {g1, g2}
  Runs = {r1}
  Starts = {s1, s2}
  Cancels = {c1}
  Keyed = {r1}
  MaxConcurrent = 1
  RecoverLimit = 1
  StoreMayRefuse = TRUE
  MaxExits = 1
SYMMETRY CallSymmetry
INVARIANTS
  AtMostOnceExecution
  IInv
PROPERTIES
  ImplementsRunPool
CHECK_DEADLOCK FALSE
