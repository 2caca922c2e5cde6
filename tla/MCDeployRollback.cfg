SPECIFICATION Spec
CONSTANTS
  Targets = {prod}
  MaxDeployments = 3
  None = None
PROPERTIES
  RollbackRestoresDisplaced
CHECK_DEADLOCK FALSE
