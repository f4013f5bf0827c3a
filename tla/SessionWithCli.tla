---------------------------- MODULE SessionWithCli ----------------------------
(* A second operating-system process works on the Session while its owner     *)
(* lives: "morrow approval resolve" and "morrow grant revoke" open the same   *)
(* state root, take no writer lock, and know nothing of the futures the       *)
(* owner's driver waits on (interfaces/approval_cli.py, interfaces/cli.py).   *)
EXTENDS SessionRecovery

CONSTANT Nobody         \* the command line is not at work

ASSUME NobodyAssumption == Nobody \notin Calls

VARIABLE cli            \* the call whose approval the command is resolving

cliVars == <<vars, cli>>

CliInit == Init /\ cli = Nobody

(* The command builds a Session application of its own, which restores the    *)
(* Session it resumes: the owner's live executions look interrupted to it.    *)
CliAttach(c, obs) ==
    /\ cli = Nobody /\ appr[c] # "none"
    /\ cli' = c
    /\ RestoreRows(obs)
    /\ UNCHANGED driverVars

(* Then it resolves the approval; no future of the owner is delivered.        *)
CliResolve(d, s) ==
    /\ cli # Nobody
    /\ cli' = Nobody
    /\ ResolveRows(cli, d, s)
    /\ UNCHANGED <<grant, logVars, sessionVars, reportVars, driverVars, worldVars>>

(* The approval is resolved already or its grant is gone: the command fails.  *)
CliFails ==
    /\ cli # Nobody /\ (appr[cli] # "pending" \/ ~Permitted(cli))
    /\ cli' = Nobody
    /\ UNCHANGED vars

CliRevokeGrant ==
    /\ cli = Nobody
    /\ RevokeRows
    /\ UNCHANGED <<sessioned, bound, logVars, sessionVars, reportVars, driverVars,
                   worldVars, cli>>

CliStep ==
    \/ \E c \in Calls, obs \in Observations : CliAttach(c, obs)
    \/ \E d \in {"approve", "reject"}, s \in BOOLEAN : CliResolve(d, s)
    \/ CliFails \/ CliRevokeGrant

CliNext == (Next /\ UNCHANGED cli) \/ CliStep

CliSpec == CliInit /\ [][CliNext]_cliVars /\ WF_vars(DriverStep /\ UNCHANGED cli)

===============================================================================
