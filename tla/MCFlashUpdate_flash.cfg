SPECIFICATION Spec
CONSTANTS
  Board <- MCBoard
  Length = {3, 7, 8, 11, 12, 23}
  ChipSize = 16
  Page = 2
  Subsector = 4
  Sector = 8
  Header = 1
  MaxRuns = 2
  MaxFaults = 2
INVARIANT
  SuccessMeansImage
PROPERTIES
  OtherSegmentsAreKept
  OnlyErasedIsProgrammed
CHECK_DEADLOCK FALSE
