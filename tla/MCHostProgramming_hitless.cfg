SPECIFICATION HostSpec
CONSTANTS
  NoApp = NoApp
  a1 = a1
  a2 = a2
  App = {a1, a2}
  Time <- MCTime
  TX = tx
  RX = rx
  Channel = {tx, rx}
  EntryCount = 1
  MaxTime = 26
  Advance <- Ticking
  HostEntry = {}
  IdModulus = 1
  Program <- CollidingPrograms
PROPERTY
  WindowsEndWithClose
