SPECIFICATION Spec
CONSTANTS
  Clients = {"manager", "playbook", "boot-health"}
  Outdated = Outdated
  Updated = Updated
  Versions = {Outdated, Updated}
  None = None
INVARIANTS
  ButtonsFitTheMode
  VerifiedShowsTruth
  ConsumedBeforeUpdate
  EndsUpdated
PROPERTY
  AuthorizationLasts
  StepsOfContract
