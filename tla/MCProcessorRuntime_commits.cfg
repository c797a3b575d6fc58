SPECIFICATION HostSpec
CONSTANTS
  NoApp = NoApp
  a1 = a1
  a2 = a2
  App = {a1, a2}
  Slotted = {a1}
  Time <- MCTime
  TX = tx
  RX = rx
  Channel = {tx, rx}
  EntryCount = 2
  MaxTime = 6
  Advance <- Drifting
  HostEntry = {}
  IdModulus = 2
  Program <- MCProgram
INVARIANT
  CommitReachesApplication
