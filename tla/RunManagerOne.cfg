\* One gateway, two runs behind one slot, four requests, one exit.
SPECIFICATION Spec
CONSTANTS
  Gateways = {g1}
  Runs = {r1, r2}
  Starts = {s1, s2}
  Cancels = {c1, c2}
  Keyed = {r1, r2}
  MaxConcurrent = 1
  RecoverLimit = 1
  StoreMayRefuse = TRUE
  MaxExits = 1
SYMMETRY RunSymmetry
INVARIANTS
  TypeOK
  SlotAccounting
  ExecutingRunIsTracked
  DurableOutcomeIsReal
PROPERTIES
  TerminalIsFinal
  RecoveryLeavesNoOrphan
CHECK_DEADLOCK FALSE
