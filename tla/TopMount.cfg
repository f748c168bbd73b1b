SPECIFICATION Spec
CONSTANTS
  Lockers = {c1, c2, c3}
  Preflights = {f1, f2}
INVARIANTS
  OwnMountHolds
  BodyMounted
  NothingUnowned
