SPECIFICATION Spec
CONSTANTS
  Node = {0, 1, 2, 3, 4}
  MaxCrash = 2
  MaxRound = 3
INVARIANTS
  ReplicasAgree
CHECK_DEADLOCK FALSE
