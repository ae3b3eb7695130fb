\* A session's request finds a connection of another's.
CONSTANTS
  a = a
  b = b
  s = s
  t = t
  Nodes = {a, b}
  Sessions = {s, t}
  Score <- MCScore
  Members <- MCMembers
  Forwards = {f1, f2}
  Targets = {origin}
SPECIFICATION Spec
CHECK_DEADLOCK FALSE
INVARIANTS
  PinnedEgress
