SPECIFICATION ReplaySpec
CONSTANTS
  Context = {0, 1}
  Count = {0, 2}
  Gap = {0, 1}
  Flow = {0}
  Route = {0, 1}
  IdModulus = 2
INVARIANT
  BurstIsPinned
