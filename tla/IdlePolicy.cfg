SPECIFICATION FairSpec
CONSTANTS
  Sessions = {s1, s2}
  NoSession = NoSession
INVARIANTS
  TypeOK
  PolicyInTime
PROPERTIES
  SupervisionSettles
