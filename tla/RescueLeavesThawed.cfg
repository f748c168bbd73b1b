SPECIFICATION Spec
CONSTANTS
  Clients = {"manager", "playbook", "boot-health"}
  Outdated = Outdated
  Updated = Updated
  Versions = {Outdated, Updated}
  None = None
PROPERTY RescueLeavesThawed
