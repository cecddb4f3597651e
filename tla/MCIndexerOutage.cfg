SPECIFICATION IndexerSpec
CONSTANTS
  Contributions = {"t1"}
  Defaults = {}
  Providers = {"p1"}
  MaxFaulty = 0
  Wrong = {}
  Reconcilers = {"r1"}
  FINALITY_GATE_SLOTS = 1
  ORPHAN_GRACE_SLOTS = 2
  LastLanding = 1
  MaxSlot = 3
  MaxFailures = 0
INVARIANTS
  FinalizedNeverOrphaned
CHECK_DEADLOCK FALSE
