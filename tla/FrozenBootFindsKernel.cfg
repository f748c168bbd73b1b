SPECIFICATION Spec
CONSTANTS
  Versions = {v1, v2}
  Absent = Absent
INVARIANTS
  FrozenBootFindsKernel
