SPECIFICATION Spec
CONSTANTS
  Versions = {v1, v2}
  Absent = Absent
INVARIANTS
  TypeOK
  BaselinePristine
  PendingOwned
  FrozenHasBaseline
  SwitchRootIsFresh
  FrozenQuiescent
  RemoteOnlyForThawed
  FreezeSucceeds
PROPERTIES
  LiveRootKept
  ContractKept
