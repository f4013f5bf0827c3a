\* Two inputs, one restart, one change of the Provider configuration.
\* The Session stops when all inputs are done.
SPECIFICATION Spec

CONSTANTS
    N = 2
    MaxCrashes = 1
    MaxSwitches = 1

PROPERTIES
    OpenTurnIsKept

CHECK_DEADLOCK FALSE
