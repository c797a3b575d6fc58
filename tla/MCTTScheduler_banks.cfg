SPECIFICATION Spec
CONSTANTS
  NoApp = NoApp
  a1 = a1
  App = {a1}
  Time <- MCTime
  Channel = {tx, rx}
  EntryCount = 1
  MaxTime = 2
  Advance <- Wrapping
  HostEntry <- OneSlot
  IdModulus = 2
SYMMETRY SwapChannels
INVARIANTS
  ExecutorInv
PROPERTIES
  GateOnlyInsideItsEntry
  WindowsNeverAbut
  ImplementsWindowGate
