--------------------------- MODULE MCSessionWithCli ---------------------------
(* Instances of SessionWithCli for TLC: which recovery policy each of the    *)
(* calls named in the configurations declares.                                *)
EXTENDS SessionWithCli

CONSTANTS Safe, Unsafe, Reconciled     \* the calls of each declared policy

MCPolicy ==
    [c \in Calls |-> CASE c \in Safe -> "safe_to_retry"
                       [] c \in Reconciled -> "requires_reconciliation"
                       [] c \in Unsafe -> "outcome_unknown"]

===============================================================================
