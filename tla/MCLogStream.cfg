\* Two handlers over a ring of two.
CONSTANTS
  Capacity = 2
  Levels <- MCLevels
  Subscribers = {h1, h2}
  ChanSize = 1
  MaxSSEClients = 1
  Queries <- MCQueries
  MaxEvents = 4
SPECIFICATION FairSpec
CHECK_DEADLOCK FALSE
INVARIANTS
  TypeOK
  RingIsTail
  RegisteredIsOpen
  SlotsBalanced
  InOrderOnce
  OnlyHandoverIsLost
PROPERTIES
  EventsArrive
