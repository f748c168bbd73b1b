SPECIFICATION FairSpec
CONSTANTS
  Children = {1, 2, 3}
  Transients = {1, 2}
  None = None
  Broken = Broken
INVARIANTS
  TypeOK
  RetryAccepted
  SchemaLast
PROPERTIES
  DeletesOnlyOwned
  RetriesConverge
