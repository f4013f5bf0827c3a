\* The loop of a REPL and a one-shot command drain the same queue.
SPECIFICATION Spec

CONSTANTS
    Jobs = {1}
    Loops = {"repl"}
    Callers = {"cli"}
    Ops = {"add"}
    MaxAttempts = 2
    MaxRetries = 1

INVARIANTS
    TypeOK
    OneOwner

PROPERTIES
    OnlyTheOwnerMoves
    JobsKeepPromise
    JobsSettle
