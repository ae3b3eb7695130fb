\* The nodes change, and nothing fails.
CONSTANTS
  c1 = c1
  c2 = c2
  m = m
  n = n
  addr = addr
  Configs = {c1, c2}
  NoConfig = NoConfig
  Pids = {p1, p2}
  NoProc = NoProc
  NodesOf <- MCNodesOf
  Addrs = {addr}
  XrayEnabled = TRUE
  FallbackToLegacyOnError = TRUE
  Faults <- NoFaults
SPECIFICATION Spec
CHECK_DEADLOCK FALSE
INVARIANTS
  RoutedEntries
