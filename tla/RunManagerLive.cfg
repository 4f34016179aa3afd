\* Liveness: two runs behind one slot, one cancel, one exit.
SPECIFICATION FairSpec
CONSTANTS
  Gateways = {g1}
  Runs = {r1, r2}
  Starts = {s1, s2}
  Cancels = {c1}
  Keyed = {}
  MaxConcurrent = 1
  RecoverLimit = 2
  StoreMayRefuse = FALSE
  MaxExits = 1
INVARIANTS
  AnnouncedOutcomeIsDurable
PROPERTIES
  CancelWins
  CancelIsAnswered
  AcceptedRunEnds
  ShutdownEnds
CHECK_DEADLOCK FALSE
