\* One Clash source, which may hold a single SOCKS5 node without credentials.
CONSTANTS
  s = s
  t = t
  LowerCase <- MCLowerCase
  NoPort = {"v6"}
  HashOrder <- MCHashOrder
  Mode = "relaxed"
  MaxNodes = 5
  Written <- OneClash
  SourceOf <- MCSourceOf
  Lists <- MCLists
  Nodes <- MCNodes
  Sessions <- MCSessions
  Score <- MCScore
  MemberLists <- MCMemberLists
SPECIFICATION Spec
INVARIANTS
  OneNodeEach
