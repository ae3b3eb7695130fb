\* A dial that takes longer than the backoff.
CONSTANTS
  a = a
  b = b
  c = c
  s = s
  t = t
  None = None
  Keys <- MCKeys
  Nodes <- MCKeys
  Sessions <- MCSessions
  Score <- MCScore
  Clients = {r1}
  Retries = 1
  Profiles <- ConnectProfiles
  EntryLists <- Both
  BaseBackoff = 1
  MaxBackoff = 2
  MaxTime = 3
SPECIFICATION Spec
PROPERTIES
  FailureDisables
