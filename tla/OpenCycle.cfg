\* A crash between the refusal of a call and its message.
SPECIFICATION Spec

CONSTANTS
    Calls = {"ask", "rm"}
    DeniedCalls = {"rm"}
    ApprovalCalls = {"ask"}
    GrantCalls = {}
    ScopeCalls = {}
    Safe = {}
    Unsafe = {"ask", "rm"}
    Reconciled = {}
    Policy <- MCPolicy
    MayCorrupt = FALSE

PROPERTIES
    OpenCycleGoesToRecovery
