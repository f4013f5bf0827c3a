SPECIFICATION Spec
CONSTANTS
  Nodes <- MCNodes
  Plans <- MCPlans
  Commands = {"r1"}
  MaxConcurrency = 2
CHECK_DEADLOCK FALSE
PROPERTIES
  CancelStopsAdmission
