\* Requests of every kind compete for the pool: drawn round robin, forced, or
\* sticky beside random draws.
CONSTANTS
  a = a
  b = b
  c = c
  s = s
  t = t
  None = None
  Keys <- MCKeys
  Nodes <- MCKeys
  Sessions <- MCSessions
  Score <- MCScore
  Clients = {r1, r2}
  Retries = 1
  Profiles <- AllProfiles
  EntryLists <- AllOrTwo
  BaseBackoff = 1
  MaxBackoff = 2
  MaxTime = 3
SPECIFICATION MixSpec
INVARIANTS
  TypeOK
  TriesBounded
  BlameIsEarned
  SoftNeverRepeats
PROPERTIES
  RefusedOnlyWithoutHealthy
  KeepsPromise
  HealthyTopRankWins
  EveryRequestEnds
