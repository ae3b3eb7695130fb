\* One CONNECT with one retry.
CONSTANTS
  Retries = 1
  MaxBytes = 2
  Window = 1
SPECIFICATION Spec
CHECK_DEADLOCK FALSE
INVARIANTS
  TypeOK
  Relayed
  NothingLeftOpen
  Untruncated
PROPERTIES
  TunnelEnds
