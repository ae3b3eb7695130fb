\* Two configurations, the fallback, every fault.
CONSTANTS
  c1 = c1
  c2 = c2
  m = m
  n = n
  addr = addr
  Configs = {c1, c2}
  NoConfig = NoConfig
  Pids = {p1, p2}
  NoProc = NoProc
  NodesOf <- MCNodesOf
  Addrs = {addr}
  XrayEnabled = TRUE
  FallbackToLegacyOnError = TRUE
  Faults <- AllFaults
SPECIFICATION FairSpec
CHECK_DEADLOCK FALSE
INVARIANTS
  TypeOK
  NoOrphan
  HashNamesProcess
  StoppedForGood
  StatusTellsPool
PROPERTIES
  NeverEmptied
  EveryRunEnds
