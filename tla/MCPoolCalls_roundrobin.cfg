\* The pool under arbitrary calls, drawn round robin.
CONSTANTS
  a = a
  b = b
  c = c
  None = None
  Keys <- MCKeys
  EntryLists <- MCEntryLists
  Strategy = "round_robin"
  BaseBackoff = 1
  MaxBackoff = 3
  MaxTime = 3
  MaxFailures = 3
SPECIFICATION CallsSpec
INVARIANTS
  TypeOK
  IndexAgrees
  HealthAgrees
  PenaltyBounded
  NoStarvation
PROPERTIES
  ImplementsHealth
