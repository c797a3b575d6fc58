SPECIFICATION MCSpec
CONSTANTS
  MaxBeats = 3
  Node = {0, 1, 2}
  Me = 0
  KvBit = {0, 1, 2, 3}
INVARIANT
  CommitsAreUnanimous
PROPERTIES
  TxFramesStayWhole
  RxFramesStayWhole
  HostIsServed
