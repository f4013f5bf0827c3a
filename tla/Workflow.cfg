SPECIFICATION Spec
CONSTANTS
  Nodes <- MCNodes
  Plans <- MCPlans
  Commands = {"r1", "r2"}
  MaxConcurrency = 2
\* The system rests when the run has ended or waits for a command.
CHECK_DEADLOCK FALSE
INVARIANTS
  TypeOK
  PausedIsQuiet
  PausedCanContinue
  DriverLeavesNothing
  WriterAlone
PROPERTIES
  RunKeepsPromise
  DrainEnds
