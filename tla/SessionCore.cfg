\* A reconciled tool and a gated shell command on a grant.
SPECIFICATION Spec

CONSTANTS
    Calls = {"edit", "shell"}
    DeniedCalls = {}
    ApprovalCalls = {"shell"}
    GrantCalls = {"shell"}
    ScopeCalls = {}
    Safe = {}
    Unsafe = {"shell"}
    Reconciled = {"edit"}
    Policy <- MCPolicy
    MayCorrupt = FALSE

INVARIANTS
    TypeOK
    AtMostOnce
    ConsentBeforeEffect
    SuccessIsReal
    CycleClosed
    ResolvedMeansSettled
    ReportHasWayOut

PROPERTIES
    UnknownSticky
    CallsKeepPromise
    DecisionReleasesWaiter
    HandlerSettles
