SPECIFICATION Spec
CONSTANTS
  Mounts = {home, log}
  Nested = {machines}
  Root = Root
  NotThere = NotThere
  Empty = Empty
  Partial = Partial
  MaxMoves = 2
  MaxStops = 2
INVARIANTS
  TypeOK
  SealedIsWhole
PROPERTY RetriesSeal
