\* Loads from overlapping sources, and sessions on what they deliver.
CONSTANTS
  s = s
  t = t
  LowerCase <- MCLowerCase
  NoPort = {"v6"}
  HashOrder <- MCHashOrder
  Mode = "relaxed"
  MaxNodes = 5
  Written <- MCWritten
  SourceOf <- MCSourceOf
  Lists <- MCLists
  Nodes <- MCNodes
  Sessions <- MCSessions
  Score <- MCScore
  MemberLists <- MCMemberLists
SPECIFICATION Spec
INVARIANTS
  TypeOK
PROPERTIES
  CompleteLoad
  OrderIsImmaterial
  MinimalDisruption
  AffinitySpec
  LoadEnds
