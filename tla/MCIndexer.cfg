SPECIFICATION IndexerSpec
CONSTANTS
  Contributions = {"t1"}
  Defaults = {}
  Providers = {"p1", "p2"}
  MaxFaulty = 1
  Wrong = {"finalized", "missing", "other"}
  Reconcilers = {"r1", "r2"}
  FINALITY_GATE_SLOTS = 1
  ORPHAN_GRACE_SLOTS = 2
  LastLanding = 1
  MaxSlot = 3
  MaxFailures = 1
INVARIANTS
  EventsAreGenuine
  OnlyErrorsCensor
PROPERTIES
  FinalizedIsProjected
CHECK_DEADLOCK FALSE
