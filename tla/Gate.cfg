\* Four drivers of three workspaces compete for admission.
SPECIFICATION Spec

CONSTANTS
    Tasks = {"chatA", "chatB", "chatSub", "flow"}
    Gates = {"A", "B", "A/sub", "B host"}
    GateOf <- MCGateOf
    Overlap <- MCOverlap
    Classified = {"A", "B", "A/sub"}

INVARIANTS
    TypeOK
    Exclusion
    NobodySleepsFree

PROPERTIES
    ConfinedWhenJoining
    NobodyStarves
