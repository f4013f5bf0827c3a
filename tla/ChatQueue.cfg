\* Three inputs, one restart, one change of the Provider configuration.
\* The Session stops when all inputs are done.
SPECIFICATION Spec

CONSTANTS
    N = 3
    MaxCrashes = 1
    MaxSwitches = 1

INVARIANTS
    TypeOK
    NoGhostControl

PROPERTIES
    HeldAdmitsNothing
    QueueKeepsPromise
    QueueMoves

CHECK_DEADLOCK FALSE
