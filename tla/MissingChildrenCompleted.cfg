SPECIFICATION Spec
CONSTANTS
  Children = {1, 2}
  Transients = {1}
  None = None
  Broken = Broken
INVARIANT MissingChildrenCompleted
