------------------------ MODULE SessionWithCli_proofs -------------------------
(* The safety of SessionRecovery with the command line at work next to the    *)
(* Session's owner: its restore, its resolution and its revocation reach the  *)
(* rows while a driver lives, and still no tool runs twice, without consent   *)
(* or on evidence that went away.  Proved of SessionWithCli for any calls.    *)
EXTENDS SessionWithCli, SessionSafety_proofs

BothInv == TypeInv /\ SafeInv

-------------------------------------------------------------------------------
(* Restoring a Session leaves executions, approvals, the log, the handlers    *)
(* and the driver alone: only its report and its health change.               *)
LEMMA AttachKeeps ==
    ASSUME BothInv, NEW c \in Calls, NEW obs \in Observations, CliAttach(c, obs)
    PROVE  BothInv'
<1>0. /\ TypeOK /\ RowsOK /\ SessionOK /\ ReportOK /\ BatchOpen
      /\ UNCHANGED <<rowVars, approvalVars, grant, logVars, corrupt, worldVars, driverVars>>
  BY DEF BothInv, TypeInv, TypeOK, CliAttach, RestoreRows
<1>1. SessionOK'
  BY <1>0 DEF CliAttach, RestoreRows, SessionOK, logVars
<1>2. ReportOK'
  <2>1. class' \in [Calls -> Classes \cup {"none"}]
    <3>1. CASE OpenReport(obs)
      <4>1. \A e \in Candidates :
              Classify(state[e], disp[e], Policy[e], obs[e]) \in Classes
        BY <1>0, ClassifyTypes DEF Candidates, Observations, RowsOK
      <4>2. QED
        BY <1>0, <3>1, <4>1 DEF OpenReport, ReportOK
    <3>2. CASE UNCHANGED <<rstatus, class, resol, handled>>
      BY <1>0, <3>2 DEF ReportOK
    <3>3. QED
      BY <3>1, <3>2 DEF CliAttach, RestoreRows
  <2>2. /\ rstatus' \in {"none", "open", "resolved", "quarantined"}
        /\ resol' \in [Calls -> {"none", "ack", "abort", "quarantine"}]
        /\ handled' \subseteq Calls
    BY <1>0 DEF CliAttach, RestoreRows, OpenReport, ReportOK
  <2>3. quarantinedLater' \in BOOLEAN
    BY <1>0 DEF CliAttach, RestoreRows, ReportOK
  <2>4. QED
    BY <2>1, <2>2, <2>3 DEF ReportOK
<1>3. TypeInv'
  BY <1>0, <1>1, <1>2, Frame DEF TypeInv, TypeOK, BatchOpen, logVars, driverVars
<1>4. SafeInv'
  BY <1>0, SameRows, SamePlace
     DEF BothInv, SafeInv, approvalVars, logVars, worldVars, driverVars
<1>5. QED
  BY <1>3, <1>4 DEF BothInv

-------------------------------------------------------------------------------
(* Resolving an approval over the driver's head: an approval is consumed with *)
(* the row it lets start, a rejection closes a row that did not.              *)
LEMMA ResolveKeeps ==
    ASSUME BothInv, cli \in Calls, NEW d \in {"approve", "reject"}, NEW s \in BOOLEAN,
           CliResolve(d, s)
    PROVE  BothInv'
<1>0. /\ TypeOK /\ RowsOK /\ ApprovalsOK /\ WorldOK /\ BatchOpen /\ RowInv /\ BatchInv
      /\ appr[cli] = "pending" /\ ResolveRows(cli, d, s)
      /\ UNCHANGED <<grant, logVars, sessionVars, reportVars, driverVars, worldVars>>
  BY DEF BothInv, TypeInv, TypeOK, SafeInv, CliResolve, ResolveRows
<1>1. cli \in ApprovalCalls /\ entered[cli] = 0
  BY <1>0 DEF RowInv, OnlyGatedAsked, ConsentBeforeEffect, WorldOK
<1>2. CASE d = "approve" /\ ~lapsed[cli]
  <2>1. ConsumeAndMarkExecuting(cli) /\ UNCHANGED entered
    BY <1>0, <1>2 DEF ResolveRows, worldVars
  <2>2. RowsOK' /\ RowInv'
    BY <1>0, <1>1, <2>1, ConsumeTypes, SafeConsume
  <2>3. QED
    <3>1. ApprovalsOK'
      BY <1>0, <1>2 DEF ResolveRows, ConsumeAndMarkExecuting, ApprovalsOK, Resolutions
    <3>2. TypeInv'
      BY <1>0, <2>2, <3>1, Frame DEF TypeInv, TypeOK, BatchOpen, logVars, driverVars
    <3>3. BatchInv'
      BY <1>0, SamePlace DEF logVars, worldVars, driverVars
    <3>4. QED
      BY <2>2, <3>2, <3>3 DEF BothInv, SafeInv
<1>3. CASE ~(d = "approve" /\ ~lapsed[cli])
  <2>1. /\ MoveRow(cli, "closed", "denied") /\ appr' = [appr EXCEPT ![cli] = Refusal(cli)]
        /\ UNCHANGED <<sessioned, bound, entered>>
    BY <1>0, <1>3 DEF ResolveRows, worldVars
  <2>2. \A e \in Calls : appr'[e] # appr[e] => e \in ApprovalCalls /\ appr[e] # "approved"
    BY <1>0, <1>1, <2>1 DEF ApprovalsOK
  <2>3. RowsOK' /\ RowInv'
    BY <1>0, <1>1, <2>1, <2>2, MoveRowTypes, SafeMove DEF States, Dispositions
  <2>4. ApprovalsOK'
    BY <1>0, <1>3 DEF ResolveRows, ApprovalsOK, Refusal, Resolutions
  <2>5. TypeInv'
    BY <1>0, <2>3, <2>4, Frame DEF TypeInv, TypeOK, BatchOpen, logVars, driverVars
  <2>6. BatchInv'
    BY <1>0, SamePlace DEF logVars, worldVars, driverVars
  <2>7. QED
    BY <2>3, <2>5, <2>6 DEF BothInv, SafeInv
<1>4. QED
  BY <1>2, <1>3

-------------------------------------------------------------------------------
(* Revoking the grant over the driver's head: what did not start is closed    *)
(* as denied, what runs is asked to stop.                                     *)
LEMMA RevocationKeeps ==
    ASSUME BothInv, CliRevokeGrant
    PROVE  BothInv'
<1>0. /\ TypeOK /\ RowsOK /\ ApprovalsOK /\ BatchOpen /\ RowInv /\ BatchInv
      /\ RevokeRows
      /\ UNCHANGED <<sessioned, bound, logVars, sessionVars, reportVars, driverVars, worldVars>>
  BY DEF BothInv, TypeInv, TypeOK, SafeInv, CliRevokeGrant
<1>1. \A c \in Calls :
        \/ state'[c] = state[c] /\ disp'[c] = disp[c]
        \/ /\ state[c] \in {"prepared", "awaiting"}
           /\ state'[c] = "closed" /\ disp'[c] = "denied"
  BY <1>0 DEF RevokeRows
<1>2. \A c \in Calls : appr'[c] = appr[c] \/ appr[c] = "pending"
  BY <1>0 DEF RevokeRows, PendingGrantCalls, ApprovalsOK
<1>3. UNCHANGED entered
  BY <1>0 DEF worldVars
<1>4. NotStarted' /\ OpenPending' /\ CompletedNotDenied' /\ AtMostOnce' /\ OnlyGatedAsked'
  BY <1>0, <1>1, <1>2, <1>3
     DEF RowInv, NotStarted, OpenPending, CompletedNotDenied, AtMostOnce, OnlyGatedAsked
<1>5. ConsentBeforeEffect'
  BY <1>0, <1>1, <1>2, <1>3 DEF RowInv, NotStarted, ConsentBeforeEffect
<1>6. BatchInv'
  BY <1>0, SamePlace DEF logVars, worldVars, driverVars
<1>7. RowsOK'
  BY <1>0 DEF RevokeRows, RowsOK, States, Dispositions
<1>8. ApprovalsOK' /\ (grant \in {"active", "expired", "revoked"})'
  BY <1>0 DEF RevokeRows, ApprovalsOK, Resolutions
<1>9. TypeInv'
  BY <1>0, <1>7, <1>8, Frame DEF TypeInv, TypeOK, BatchOpen, logVars, driverVars
<1>10. QED
  BY <1>4, <1>5, <1>6, <1>9 DEF BothInv, SafeInv, RowInv

-------------------------------------------------------------------------------
(* The command works on one of the calls, or on none.                         *)
CliOK == cli \in Calls \cup {Nobody}

CliInv == CliOK /\ BothInv /\ OnlyGatedCovered

(* The scope a call was given or uses is that of a call that asks.            *)
LEMMA CliCovered ==
    ASSUME BothInv, OnlyGatedCovered, CliOK, CliStep
    PROVE  OnlyGatedCovered'
<1>1. CASE UNCHANGED <<lapsed, sessioned>>
  BY <1>1 DEF OnlyGatedCovered
<1>2. ASSUME NEW d \in {"approve", "reject"}, NEW s \in BOOLEAN, CliResolve(d, s)
      PROVE  OnlyGatedCovered'
  <2>1. UNCHANGED lapsed /\ (UNCHANGED sessioned \/ sessioned' = sessioned \cup {cli})
    BY <1>2 DEF CliResolve, ResolveRows, worldVars
  <2>2. cli \in Calls /\ appr[cli] = "pending"
    BY <1>2 DEF CliOK, CliResolve, ResolveRows
  <2>3. cli \in ApprovalCalls
    BY <2>2 DEF BothInv, SafeInv, RowInv, OnlyGatedAsked
  <2>4. QED
    BY <2>1, <2>3 DEF OnlyGatedCovered
<1>3. CASE CliFails \/ CliRevokeGrant \/ \E c \in Calls, obs \in Observations : CliAttach(c, obs)
  BY <1>1, <1>3 DEF CliFails, CliRevokeGrant, CliAttach, RestoreRows, vars, approvalVars,
     worldVars
<1>4. QED
  BY <1>2, <1>3 DEF CliStep

(* Every step of the two processes keeps the invariant of the owner alone.    *)
LEMMA CliInvStep == CliInv /\ [CliNext]_cliVars => CliInv'
<1> SUFFICES ASSUME CliInv, [CliNext]_cliVars PROVE CliInv'
  OBVIOUS
<1>0. BothInv /\ CliOK /\ OnlyGatedCovered
  BY DEF CliInv
<1>1. ASSUME [Next]_vars, cli' \in Calls \cup {Nobody} PROVE CliInv'
  BY <1>0, <1>1, TypeStep, SafeStep, CoveredStep DEF CliInv, CliOK, BothInv
<1>2. ASSUME NEW c \in Calls, NEW obs \in Observations, CliAttach(c, obs)
      PROVE  BothInv' /\ CliOK'
  BY <1>0, <1>2, AttachKeeps DEF CliOK, CliAttach
<1>3. ASSUME NEW d \in {"approve", "reject"}, NEW s \in BOOLEAN, CliResolve(d, s)
      PROVE  BothInv' /\ CliOK'
  <2>1. cli \in Calls /\ cli' = Nobody
    BY <1>0, <1>3 DEF CliOK, CliResolve
  <2>2. QED
    BY <1>0, <1>3, <2>1, ResolveKeeps DEF CliOK
<1>4. CASE CliRevokeGrant
  <2>1. BothInv' /\ CliOK'
    BY <1>0, <1>4, RevocationKeeps DEF CliOK, CliRevokeGrant
  <2>2. QED
    BY <1>0, <1>4, <2>1, CliCovered DEF CliInv, CliStep
<1>5. CASE CliFails
  BY <1>0, <1>1, <1>5 DEF CliFails
<1>6. CASE CliStep
  BY <1>0, <1>2, <1>3, <1>4, <1>5, <1>6, CliCovered DEF CliStep, CliInv
<1>7. CASE UNCHANGED cliVars \/ (Next /\ UNCHANGED cli)
  BY <1>0, <1>1, <1>7 DEF cliVars, CliOK
<1>8. QED
  BY <1>6, <1>7 DEF CliNext

(* The strengthened invariant of the two processes.                           *)
THEOREM CliInvariant == CliSpec => []CliInv
<1>1. CliInit => CliInv
  BY TypeStart, SafeStart DEF CliInit, CliInv, CliOK, BothInv, OnlyGatedCovered, Init
<1>2. CliInv /\ [CliNext]_cliVars => CliInv'
  BY CliInvStep
<1>3. QED
  BY <1>1, <1>2, PTL DEF CliSpec

(* The handler of a tool call is entered at most once although another        *)
(* process approves, rejects, revokes and restores over the driver's head     *)
(* (interfaces/approval_cli.py resolve, application/session_factory.py).      *)
THEOREM RunsOnceWithCli == CliSpec => []AtMostOnce
<1>1. CliInv => AtMostOnce
  BY DEF CliInv, BothInv, SafeInv, RowInv
<1>2. QED
  BY <1>1, CliInvariant, PTL

(* No handler runs without consent, whichever process took it, and what is    *)
(* recorded as denied by either did not run.                                  *)
THEOREM ConsentWithCli == CliSpec => []ConsentBeforeEffect
<1>1. CliInv => ConsentBeforeEffect
  BY DEF CliInv, BothInv, SafeInv, RowInv
<1>2. QED
  BY <1>1, CliInvariant, PTL

(* A grant the other process revoked, and any other evidence that went away,  *)
(* stops the handler of a call that was decided on it (runtime/tool_cycle.py  *)
(* execute_call, the revalidation before the handler).                        *)
THEOREM EvidenceWithCli == CliSpec => LostEvidenceStopsEntry
<1>1. CliInv /\ [CliNext]_cliVars
        => [\A c \in Calls : entered'[c] # entered[c] =>
                /\ c \in GrantCalls => grant = "active"
                /\ ~cancel[c] /\ ~lapsed[c] /\ (c \in sessioned => c \in bound)]_vars
  <2> SUFFICES ASSUME CliInv, [CliNext]_cliVars, NEW c \in Calls, entered'[c] # entered[c]
               PROVE  /\ c \in GrantCalls => grant = "active"
                      /\ ~cancel[c] /\ ~lapsed[c] /\ (c \in sessioned => c \in bound)
    OBVIOUS
  <2>1. CASE Next
    BY <2>1, EntryStep DEF CliInv, BothInv
  <2>2. CASE CliStep \/ UNCHANGED cliVars
    BY <2>2 DEF CliStep, CliAttach, CliResolve, CliFails, CliRevokeGrant, RestoreRows,
       cliVars, vars, worldVars
  <2>3. QED
    BY <2>1, <2>2 DEF CliNext
<1>2. QED
  BY <1>1, CliInvariant, PTL DEF CliSpec, LostEvidenceStopsEntry

===============================================================================
