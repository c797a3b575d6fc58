SPECIFICATION Spec
CONSTANTS
  Node <- MCNode
  Workload <- MCWorkload
  Plane <- MCPlane
INVARIANTS
  NodeDoesOneThingAtATime
  BothEndsMeet
  EveryPairIsServedOnce
  PairsWaitForTheirNeighbours
  AcceptedTablesRunInOrder
  OnlyIdleNodesAreRefused
CHECK_DEADLOCK FALSE
