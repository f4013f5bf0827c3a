\* An open report is decided after its Session was quarantined.
SPECIFICATION Spec

CONSTANTS
    Calls = {"shell"}
    DeniedCalls = {}
    ApprovalCalls = {}
    GrantCalls = {}
    ScopeCalls = {}
    Safe = {}
    Unsafe = {"shell"}
    Reconciled = {}
    Policy <- MCPolicy
    MayCorrupt = TRUE

PROPERTIES
    QuarantineKept
