SPECIFICATION FairSpec
CONSTANTS
  a1 = a1
  a2 = a2
  a3 = a3
  Addr <- MCAddr
  Null = Null
  Pkg <- MCPkg
  MaxPush = 4
INVARIANTS
  TypeOK
  ListWellFormed
  NoDanglingUse
PROPERTIES
  ImplementsPromise
  HandlerComesOut
