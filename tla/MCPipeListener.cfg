CONSTANTS
  a1 = a1
  a2 = a2
  d1 = d1
  d2 = d2
  c1 = c1
  c2 = c2
  c3 = c3
  NoPipe = NoPipe
  Acceptors <- MCAcceptors
  Dialers <- MCDialers
  Pipes <- MCPipes
SPECIFICATION FairSpec
CHECK_DEADLOCK FALSE
INVARIANTS
  TypeOK
  CloseReclaims
  NoOrphan
  Ownership
PROPERTIES
  ImplementsListener
  CloseDrains
  CloseUnblocksAccept
