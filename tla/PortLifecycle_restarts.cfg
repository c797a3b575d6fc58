SPECIFICATION FairPortSpec
CONSTANTS
  Capacity = 4
  Size = 4
  Weight = 1
  MaxPackets = 6
  None = None
INVARIANTS
  SlotsBelongToNic
  NoReportIsLost
PROPERTIES
  StoppedQueueWakes
  PacketsAreFreed
  RingIsFreedOnce
CHECK_DEADLOCK FALSE
