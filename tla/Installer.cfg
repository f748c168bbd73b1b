SPECIFICATION Spec
CONSTANTS
  Trees = {python, deployment}
  MaxFailures = 4
INVARIANTS
  TypeOK
  RollbackRestores
  EngineKept
  NoOldEngineBeside
  SuccessIsWhole
PROPERTY MigratesComplete
