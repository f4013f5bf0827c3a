\* Two calls an approval for the session may cover.
SPECIFICATION Spec

CONSTANTS
    Calls = {"ask", "bid"}
    DeniedCalls = {}
    ApprovalCalls = {"ask", "bid"}
    GrantCalls = {}
    ScopeCalls = {"ask", "bid"}
    Safe = {"ask"}
    Unsafe = {"bid"}
    Reconciled = {}
    Policy <- MCPolicy
    MayCorrupt = TRUE

PROPERTIES
    LostEvidenceStopsEntry
