SPECIFICATION MCSpec
CONSTANTS
  Context = {0, 1}
  Count = {0, 2}
  Gap = {0, 1}
  Flow = {0, 1}
  Route = {0}
  IdModulus = 2
  Node = {0, 1, 2, 3}
  MaxCrash = 2
  MaxRound = 4
INVARIANTS
  OneBurstPerWindow
  PacketsAreNumberedDown
  PacketsKeepTheirBurst
  ReplicasAgree
  NoFalseSuspicion
  MinorityHaltsNobody
  CrashesAreDetected
CHECK_DEADLOCK FALSE
