SPECIFICATION FairSpec
CONSTANTS
  Cq = c
  Other = {o}
  CqSize = 2
  EqSize = 2
  PtrMod = 4
  Budget = 1
  InFlight = 2
INVARIANTS
  OneNotification
  EventsFindRoom
PROPERTY
  ImplementsNotifier
