\* The nodes stay the same, and xray dies.
CONSTANTS
  c1 = c1
  c2 = c2
  m = m
  n = n
  addr = addr
  Configs = {c1}
  NoConfig = NoConfig
  Pids = {p1, p2}
  NoProc = NoProc
  NodesOf <- OneNode
  Addrs = {addr}
  XrayEnabled = TRUE
  FallbackToLegacyOnError = TRUE
  Faults <- OnlyDeath
SPECIFICATION FairSpec
CHECK_DEADLOCK FALSE
PROPERTIES
  DeadXrayIsRestarted
