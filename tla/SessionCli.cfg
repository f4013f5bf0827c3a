\* A gated and a denied call, with the command line at work.
SPECIFICATION CliSpec

CONSTANTS
    Calls = {"ask", "rm"}
    DeniedCalls = {"rm"}
    ApprovalCalls = {"ask"}
    GrantCalls = {"ask"}
    ScopeCalls = {}
    Safe = {}
    Unsafe = {"ask", "rm"}
    Reconciled = {}
    Policy <- MCPolicy
    MayCorrupt = TRUE
    Nobody = "nobody"

INVARIANTS
    AtMostOnce
