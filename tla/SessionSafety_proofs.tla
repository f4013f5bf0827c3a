------------------------ MODULE SessionSafety_proofs -------------------------
(* Proved of SessionRecovery, for any set of calls: the types, and that no    *)
(* tool runs twice, none without consent or on evidence that went away        *)
(* (TypeOK, AtMostOnce, ConsentBeforeEffect and LostEvidenceStopsEntry).      *)
EXTENDS SessionRecovery, SequenceTheorems, FiniteSetTheorems, TLAPS

(* The type invariant is not inductive by itself: an action that works on the *)
(* current call, Cur, needs that there is one.  While the driver is inside a  *)
(* call or closes a batch, the log has an unresolved call.                    *)
BatchOpen == pc \in InCall \cup Closing => pending # << >>

TypeInv == TypeOK /\ BatchOpen

(* The unresolved calls, while there are any: their head and their tail.      *)
LEMMA BatchFacts ==
    ASSUME LogOK, pending # << >>
    PROVE  /\ Cur \in Calls /\ Cur = pending[1]
           /\ 1 \in DOMAIN pending
           /\ Tail(pending) \in Seq(Calls)
           /\ Len(pending) # 1 => Tail(pending) # << >>
           /\ \A i \in DOMAIN Tail(pending) :
                /\ i + 1 \in DOMAIN pending /\ i + 1 # 1 /\ i \in Nat
                /\ Tail(pending)[i] = pending[i + 1]
<1>1. pending \in Seq(Calls)
  BY DEF LogOK
<1>2. Len(pending) \in Nat /\ Len(pending) # 0 /\ DOMAIN pending = 1..Len(pending)
  BY <1>1, LenProperties, EmptySeq
<1>3. /\ Tail(pending) \in Seq(Calls) /\ Len(Tail(pending)) = Len(pending) - 1
      /\ Cur \in Calls
      /\ \A i \in 1..Len(Tail(pending)) : Tail(pending)[i] = pending[i + 1]
  BY <1>1, HeadTailProperties DEF Cur
<1>4. DOMAIN Tail(pending) = 1..Len(Tail(pending))
  BY <1>3, LenProperties
<1>5. Cur = pending[1]
  BY <1>1, <1>2 DEF Cur
<1>6. Len(pending) # 1 => Tail(pending) # << >>
  <2>1. Len(<< >>) = 0
    BY EmptySeq
  <2>2. Len(pending) # 1 => Len(Tail(pending)) # 0
    BY <1>2, <1>3
  <2>3. QED
    BY <2>1, <2>2
<1>7. QED
  BY <1>2, <1>3, <1>4, <1>5, <1>6

(* A call among the unresolved ones: then there are some.                     *)
LEMMA InBatchFacts ==
    ASSUME NEW c, c \in InBatch
    PROVE  pending # << >>
<1>1. PICK i \in DOMAIN pending : pending[i] = c
  BY DEF InBatch
<1>2. DOMAIN pending # {}
  BY <1>1
<1>3. DOMAIN << >> = {}
  OBVIOUS
<1>4. QED
  BY <1>2, <1>3

(* What the row operations may write.                                         *)
LEMMA MoveRowTypes ==
    ASSUME RowsOK, NEW c \in Calls, NEW to \in States, NEW d \in Dispositions,
           MoveRow(c, to, d)
    PROVE  RowsOK'
  BY DEF RowsOK, MoveRow

(* Closing a call before its handler.                                         *)
LEMMA CloseTypes ==
    ASSUME RowsOK, ApprovalsOK, NEW c \in Calls, NEW d \in Dispositions,
           CloseBeforeHandler(c, d)
    PROVE  RowsOK' /\ appr' \in [Calls -> Resolutions]
<1>1. CASE UNCHANGED <<rowVars, appr>>
  BY <1>1 DEF RowsOK, ApprovalsOK, rowVars
<1>2. CASE /\ MoveRow(c, "closed", d)
           /\ appr' = IF appr[c] = "pending" THEN [appr EXCEPT ![c] = Refusal(c)] ELSE appr
  <2>1. RowsOK'
    BY <1>2, MoveRowTypes DEF States
  <2>2. QED
    BY <1>2, <2>1 DEF ApprovalsOK, Refusal, Resolutions
<1>3. QED
  BY <1>1, <1>2 DEF CloseBeforeHandler

(* Consuming an approval.                                                     *)
LEMMA ConsumeTypes ==
    ASSUME RowsOK, ApprovalsOK, NEW c \in Calls, ConsumeAndMarkExecuting(c)
    PROVE  RowsOK' /\ appr' \in [Calls -> Resolutions]
<1>1. disp[c] \in Dispositions
  BY DEF RowsOK
<1>2. RowsOK'
  BY <1>1, MoveRowTypes DEF ConsumeAndMarkExecuting, States
<1>3. QED
  BY <1>2 DEF ConsumeAndMarkExecuting, ApprovalsOK, Resolutions

(* Committing a tool message.                                                 *)
LEMMA AppendTypes ==
    ASSUME RowsOK, LogOK, pending # << >>, NEW c \in Calls, NEW r \in {"ok", "error"},
           AppendReply(c, r)
    PROVE  RowsOK' /\ LogOK'
<1>1. LogOK'
  BY BatchFacts DEF LogOK, AppendReply
<1>2. CASE UNCHANGED rowVars
  BY <1>1, <1>2 DEF RowsOK, rowVars
<1>3. CASE MoveRow(c, "closed", disp[c])
  <2>1. disp[c] \in Dispositions
    BY DEF RowsOK
  <2>2. QED
    BY <1>1, <1>3, <2>1, MoveRowTypes DEF States
<1>4. QED
  BY <1>2, <1>3 DEF AppendReply

(* Closing the executions of a decision.                                      *)
LEMMA SettledTypes ==
    ASSUME RowsOK, NEW S, NEW r, CloseSettled(S, r)
    PROVE  RowsOK'
<1>1. \A c \in Calls : Settled(c, r) \in Dispositions
  BY DEF Settled, Dispositions
<1>2. QED
  BY <1>1 DEF CloseSettled, RowsOK, States

(* Every execution found by discover gets a class.                            *)
LEMMA ClassifyTypes ==
    ASSUME NEW s, NEW d, NEW c \in Calls, NEW o \in ObservedClasses
    PROVE  Classify(s, d, Policy[c], o) \in Classes
<1>1. Policy[c] \in {"safe_to_retry", "requires_reconciliation", "outcome_unknown"}
  BY CallsAssumption
<1>2. QED
  BY <1>1 DEF Classify, Classes, ObservedClasses

(* The calls of an assistant message.                                         *)
LEMMA BatchTypes ==
    ASSUME NEW b \in Batches(Unused)
    PROVE  b \in Seq(Calls) /\ b # << >>
<1>1. PICK n \in 1..Cardinality(Unused) : b \in [1..n -> Unused]
  BY DEF Batches
<1>2. n \in Nat /\ n >= 1
  BY <1>1
<1>3. b \in Seq(Unused) /\ Len(b) = n
  BY <1>1, <1>2
<1>4. QED
  BY <1>2, <1>3, EmptySeq, SeqMonotonic DEF Unused

(* A group of variables left alone keeps its types.                           *)
LEMMA Frame ==
    ASSUME TypeOK
    PROVE  /\ UNCHANGED rowVars => RowsOK'
           /\ UNCHANGED approvalVars => ApprovalsOK'
           /\ UNCHANGED grant => (grant \in {"active", "expired", "revoked"})'
           /\ UNCHANGED logVars => LogOK'
           /\ UNCHANGED sessionVars => SessionOK'
           /\ UNCHANGED reportVars => ReportOK'
           /\ UNCHANGED driverVars => DriverOK'
           /\ UNCHANGED worldVars => WorldOK'
  BY DEF TypeOK, RowsOK, ApprovalsOK, LogOK, SessionOK, ReportOK, DriverOK, WorldOK,
         rowVars, approvalVars, logVars, sessionVars, reportVars, driverVars, worldVars


(* Every step keeps the types.                                                *)
LEMMA TypeStep == TypeInv /\ [Next]_vars => TypeInv'
<1> SUFFICES ASSUME TypeInv, [Next]_vars PROVE TypeInv'
  OBVIOUS
<1>0. /\ TypeOK /\ RowsOK /\ ApprovalsOK /\ LogOK
      /\ SessionOK /\ ReportOK /\ DriverOK /\ WorldOK
      /\ pc \in InCall \cup Closing =>
            /\ pending # << >> /\ Cur \in Calls /\ Tail(pending) \in Seq(Calls)
            /\ Len(pending) # 1 => Tail(pending) # << >>
      /\ \A c \in Calls : ver[c] \in Nat
  BY BatchFacts DEF TypeInv, TypeOK, BatchOpen, RowsOK
<1> USE DEF InCall, Closing, rowVars, approvalVars, logVars, sessionVars, reportVars,
            driverVars, worldVars
<1>1. ASSUME StartTurn PROVE TypeInv'
  <2>1. LogOK'
    BY <1>0, <1>1 DEF StartTurn, LogOK
  <2>2. DriverOK'
    BY <1>0, <1>1 DEF StartTurn, Goto, DriverOK, PCs, Results, Reasons
  <2>3. BatchOpen'
    BY <1>0, <1>1 DEF StartTurn, Goto, TypeInv, BatchOpen
  <2>4. QED
    BY <1>0, <1>1, <2>1, <2>2, <2>3, Frame DEF StartTurn, TypeInv, TypeOK
<1>2. ASSUME ContextRefused PROVE TypeInv'
  <2>1. DriverOK'
    BY <1>0, <1>2 DEF ContextRefused, Goto, DriverOK, PCs, Results, Reasons
  <2>2. BatchOpen'
    BY <1>0, <1>2 DEF ContextRefused, Goto, TypeInv, BatchOpen
  <2>3. QED
    BY <1>0, <1>2, <2>1, <2>2, Frame DEF ContextRefused, TypeInv, TypeOK
<1>3. ASSUME FinishTurn PROVE TypeInv'
  <2>1. LogOK'
    BY <1>0, <1>3 DEF FinishTurn, LogOK
  <2>2. DriverOK'
    BY <1>0, <1>3 DEF FinishTurn, DriverOK, PCs, Results, Reasons
  <2>3. BatchOpen'
    BY <1>0, <1>3 DEF FinishTurn, TypeInv, BatchOpen
  <2>4. QED
    BY <1>0, <1>3, <2>1, <2>2, <2>3, Frame DEF FinishTurn, TypeInv, TypeOK
<1>4. ASSUME DenyAtGate PROVE TypeInv'
  <2>1. RowsOK'
    BY <1>0, <1>4, CloseTypes DEF DenyAtGate, Dispositions
  <2>2. ApprovalsOK'
    BY <1>0, <1>4, CloseTypes DEF DenyAtGate, Dispositions, ApprovalsOK
  <2>3. DriverOK'
    BY <1>0, <1>4 DEF DenyAtGate, GotoReply, DriverOK, PCs, Results, Reasons
  <2>4. BatchOpen'
    BY <1>0, <1>4 DEF DenyAtGate, GotoReply, TypeInv, BatchOpen
  <2>5. QED
    BY <1>0, <1>4, <2>1, <2>2, <2>3, <2>4, Frame DEF DenyAtGate, TypeInv, TypeOK
<1>5. ASSUME RequestApproval PROVE TypeInv'
  <2>1. ApprovalsOK'
    BY <1>0, <1>5 DEF RequestApproval, ApprovalsOK, Resolutions
  <2>2. DriverOK'
    BY <1>0, <1>5 DEF RequestApproval, Goto, DriverOK, PCs, Results, Reasons
  <2>3. BatchOpen'
    BY <1>0, <1>5 DEF RequestApproval, Goto, TypeInv, BatchOpen
  <2>4. QED
    BY <1>0, <1>5, <2>1, <2>2, <2>3, Frame DEF RequestApproval, TypeInv, TypeOK
<1>6. ASSUME ConsumePrecedent PROVE TypeInv'
  <2>1. RowsOK'
    BY <1>0, <1>6, CloseTypes, ConsumeTypes DEF ConsumePrecedent, Dispositions
  <2>2. ApprovalsOK'
    BY <1>0, <1>6, CloseTypes, ConsumeTypes DEF ConsumePrecedent, Dispositions,
       ApprovalsOK
  <2>3. DriverOK'
    BY <1>0, <1>6 DEF ConsumePrecedent, GotoReply, GotoAdmit, DriverOK, PCs,
       Results, Reasons
  <2>4. BatchOpen'
    BY <1>0, <1>6 DEF ConsumePrecedent, GotoReply, GotoAdmit, TypeInv, BatchOpen
  <2>5. QED
    BY <1>0, <1>6, <2>1, <2>2, <2>3, <2>4, Frame DEF ConsumePrecedent, TypeInv,
       TypeOK
<1>7. ASSUME MarkExecuting PROVE TypeInv'
  <2>1. RowsOK'
    BY <1>0, <1>7 DEF MarkExecuting, MoveRow, RowsOK, States, Dispositions,
       Transitions, Legal
  <2>2. DriverOK'
    BY <1>0, <1>7 DEF MarkExecuting, GotoAdmit, DriverOK, PCs, Results, Reasons
  <2>3. BatchOpen'
    BY <1>0, <1>7 DEF MarkExecuting, GotoAdmit, TypeInv, BatchOpen
  <2>4. QED
    BY <1>0, <1>7, <2>1, <2>2, <2>3, Frame DEF MarkExecuting, TypeInv, TypeOK
<1>8. ASSUME ApproveHere PROVE TypeInv'
  <2>1. RowsOK'
    BY <1>0, <1>8 DEF ApproveHere, ConsumeAndMarkExecuting, MoveRow, RowsOK,
       States, Dispositions, Transitions, Legal
  <2>2. ApprovalsOK'
    BY <1>0, <1>8 DEF ApproveHere, ConsumeAndMarkExecuting, MoveRow,
       ApprovalsOK, Resolutions
  <2>3. DriverOK'
    BY <1>0, <1>8 DEF ApproveHere, GotoAdmit, DriverOK, PCs, Results, Reasons
  <2>4. BatchOpen'
    BY <1>0, <1>8 DEF ApproveHere, GotoAdmit, TypeInv, BatchOpen
  <2>5. QED
    BY <1>0, <1>8, <2>1, <2>2, <2>3, <2>4, Frame DEF ApproveHere, TypeInv,
       TypeOK
<1>9. ASSUME AdoptApproval PROVE TypeInv'
  <2>1. DriverOK'
    BY <1>0, <1>9 DEF AdoptApproval, GotoAdmit, DriverOK, PCs, Results, Reasons
  <2>2. BatchOpen'
    BY <1>0, <1>9 DEF AdoptApproval, GotoAdmit, TypeInv, BatchOpen
  <2>3. QED
    BY <1>0, <1>9, <2>1, <2>2, Frame DEF AdoptApproval, TypeInv, TypeOK
<1>10. ASSUME RefuseApproval PROVE TypeInv'
  <2>1. RowsOK'
    BY <1>0, <1>10, CloseTypes DEF RefuseApproval, Dispositions
  <2>2. ApprovalsOK'
    BY <1>0, <1>10, CloseTypes DEF RefuseApproval, Dispositions, ApprovalsOK
  <2>3. DriverOK'
    BY <1>0, <1>10 DEF RefuseApproval, GotoReply, DriverOK, PCs, Results,
       Reasons
  <2>4. BatchOpen'
    BY <1>0, <1>10 DEF RefuseApproval, GotoReply, TypeInv, BatchOpen
  <2>5. QED
    BY <1>0, <1>10, <2>1, <2>2, <2>3, <2>4, Frame DEF RefuseApproval, TypeInv,
       TypeOK
<1>11. ASSUME EnterHandler PROVE TypeInv'
  <2>1. DriverOK'
    BY <1>0, <1>11 DEF EnterHandler, DriverOK, PCs, Results, Reasons
  <2>2. WorldOK'
    BY <1>0, <1>11 DEF EnterHandler, WorldOK
  <2>3. BatchOpen'
    BY <1>0, <1>11 DEF EnterHandler, TypeInv, BatchOpen
  <2>4. QED
    BY <1>0, <1>11, <2>1, <2>2, <2>3, Frame DEF EnterHandler, TypeInv, TypeOK
<1>12. ASSUME RefuseEntry PROVE TypeInv'
  <2>1. RowsOK'
    BY <1>0, <1>12, CloseTypes DEF RefuseEntry, Dispositions
  <2>2. ApprovalsOK'
    BY <1>0, <1>12, CloseTypes DEF RefuseEntry, Dispositions, ApprovalsOK
  <2>3. DriverOK'
    BY <1>0, <1>12 DEF RefuseEntry, GotoReply, DriverOK, PCs, Results, Reasons
  <2>4. BatchOpen'
    BY <1>0, <1>12 DEF RefuseEntry, GotoReply, TypeInv, BatchOpen
  <2>5. QED
    BY <1>0, <1>12, <2>1, <2>2, <2>3, <2>4, Frame DEF RefuseEntry, TypeInv,
       TypeOK
<1>13. ASSUME NEW r \in {"ok", "failed", "unknown"}, HandlerReturns(r)
       PROVE  TypeInv'
  <2>1. DriverOK'
    BY <1>0, <1>13 DEF HandlerReturns, DriverOK, PCs, Results, Reasons
  <2>2. WorldOK'
    BY <1>0, <1>13 DEF HandlerReturns, WorldOK
  <2>3. BatchOpen'
    BY <1>0, <1>13 DEF HandlerReturns, TypeInv, BatchOpen
  <2>4. QED
    BY <1>0, <1>13, <2>1, <2>2, <2>3, Frame DEF HandlerReturns, TypeInv, TypeOK
<1>14. ASSUME HandlerTimesOut PROVE TypeInv'
  <2>1. DriverOK'
    BY <1>0, <1>14 DEF HandlerTimesOut, Interrupted, DriverOK, PCs, Results,
       Reasons
  <2>2. BatchOpen'
    BY <1>0, <1>14 DEF HandlerTimesOut, Interrupted, TypeInv, BatchOpen
  <2>3. QED
    BY <1>0, <1>14, <2>1, <2>2, Frame DEF HandlerTimesOut, TypeInv, TypeOK
<1>15. ASSUME HandlerCancelled PROVE TypeInv'
  <2>1. DriverOK'
    BY <1>0, <1>15 DEF HandlerCancelled, Interrupted, DriverOK, PCs, Results,
       Reasons
  <2>2. BatchOpen'
    BY <1>0, <1>15 DEF HandlerCancelled, Interrupted, TypeInv, BatchOpen
  <2>3. QED
    BY <1>0, <1>15, <2>1, <2>2, Frame DEF HandlerCancelled, TypeInv, TypeOK
<1>16. ASSUME RecordCompleted PROVE TypeInv'
  <2>1. RowsOK'
    BY <1>0, <1>16 DEF RecordCompleted, MoveRow, Recorded, RowsOK, States,
       Dispositions, Transitions, Legal
  <2>2. DriverOK'
    BY <1>0, <1>16 DEF RecordCompleted, DriverOK, PCs, Results, Reasons
  <2>3. BatchOpen'
    BY <1>0, <1>16 DEF RecordCompleted, TypeInv, BatchOpen
  <2>4. QED
    BY <1>0, <1>16, <2>1, <2>2, <2>3, Frame DEF RecordCompleted, TypeInv, TypeOK
<1>17. ASSUME CommitFails PROVE TypeInv'
  <2>1. DriverOK'
    BY <1>0, <1>17 DEF CommitFails, GotoClosing, DriverOK, PCs, Results, Reasons
  <2>2. BatchOpen'
    BY <1>0, <1>17 DEF CommitFails, GotoClosing, TypeInv, BatchOpen
  <2>3. QED
    BY <1>0, <1>17, <2>1, <2>2, Frame DEF CommitFails, TypeInv, TypeOK
<1>18. ASSUME CommitReply PROVE TypeInv'
  <2>1. RowsOK'
    BY <1>0, <1>18, AppendTypes DEF CommitReply
  <2>2. LogOK'
    BY <1>0, <1>18, AppendTypes DEF CommitReply
  <2>3. DriverOK'
    BY <1>0, <1>18 DEF CommitReply, DriverOK, PCs, Results, Reasons
  <2>4. BatchOpen'
    BY <1>0, <1>18 DEF CommitReply, AppendReply, MoveRow, TypeInv, BatchOpen
  <2>5. QED
    BY <1>0, <1>18, <2>1, <2>2, <2>3, <2>4, Frame DEF CommitReply, AppendReply,
       TypeInv, TypeOK
<1>19. ASSUME SettleRow PROVE TypeInv'
  <2>1. RowsOK'
    <3>1. CASE state[Cur] \in {"prepared", "awaiting"}
      BY <1>0, <1>19, <3>1, CloseTypes DEF SettleRow, Dispositions
    <3>2. CASE state[Cur] = "executing"
      BY <1>0, <1>19, <3>2, MoveRowTypes DEF SettleRow, States, Dispositions
    <3>3. CASE state[Cur] \notin {"prepared", "awaiting", "executing"}
      BY <1>0, <1>19, <3>3, Frame DEF SettleRow
    <3>4. QED
      BY <3>1, <3>2, <3>3
  <2>2. ApprovalsOK'
    BY <1>0, <1>19 DEF SettleRow, CloseBeforeHandler, MoveRow, Refusal,
       ApprovalsOK, Resolutions
  <2>3. DriverOK'
    BY <1>0, <1>19 DEF SettleRow, Goto, DriverOK, PCs, Results, Reasons
  <2>4. BatchOpen'
    BY <1>0, <1>19 DEF SettleRow, Goto, TypeInv, BatchOpen
  <2>5. QED
    BY <1>0, <1>19, <2>1, <2>2, <2>3, <2>4, Frame DEF SettleRow, TypeInv, TypeOK
<1>20. ASSUME CommitSynthetic PROVE TypeInv'
  <2>1. RowsOK'
    BY <1>0, <1>20, AppendTypes DEF CommitSynthetic
  <2>2. LogOK'
    BY <1>0, <1>20, AppendTypes DEF CommitSynthetic
  <2>3. DriverOK'
    BY <1>0, <1>20 DEF CommitSynthetic, DriverOK, PCs, Results, Reasons
  <2>4. BatchOpen'
    BY <1>0, <1>20 DEF CommitSynthetic, AppendReply, MoveRow, TypeInv, BatchOpen
  <2>5. QED
    BY <1>0, <1>20, <2>1, <2>2, <2>3, <2>4, Frame DEF CommitSynthetic,
       AppendReply, TypeInv, TypeOK
<1>21. ASSUME ClosingFails PROVE TypeInv'
  <2>1. DriverOK'
    BY <1>0, <1>21 DEF ClosingFails, DriverOK, PCs, Results, Reasons
  <2>2. BatchOpen'
    BY <1>0, <1>21 DEF ClosingFails, TypeInv, BatchOpen
  <2>3. QED
    BY <1>0, <1>21, <2>1, <2>2, Frame DEF ClosingFails, TypeInv, TypeOK
<1>22. ASSUME NEW b \in Batches(Unused), CommitBatch(b) PROVE TypeInv'
  <2>1. RowsOK'
    BY <1>0, <1>22 DEF CommitBatch, RowsOK, States, Dispositions, Transitions,
       Legal
  <2>2. LogOK'
    BY <1>0, <1>22, BatchTypes DEF CommitBatch, LogOK
  <2>3. DriverOK'
    BY <1>0, <1>22 DEF CommitBatch, Goto, DriverOK, PCs, Results, Reasons
  <2>4. BatchOpen'
    BY <1>0, <1>22, BatchTypes DEF CommitBatch, Goto, Batches, TypeInv,
       BatchOpen
  <2>5. QED
    BY <1>0, <1>22, <2>1, <2>2, <2>3, <2>4, Frame DEF CommitBatch, TypeInv,
       TypeOK
<1>23. ASSUME NEW f \in Reasons, Interrupt(f) PROVE TypeInv'
  <2>1. DriverOK'
    BY <1>0, <1>23 DEF Interrupt, GotoClosing, DriverOK, PCs, Results, Reasons
  <2>2. BatchOpen'
    BY <1>0, <1>23 DEF Interrupt, GotoClosing, TypeInv, BatchOpen
  <2>3. QED
    BY <1>0, <1>23, <2>1, <2>2, Frame DEF Interrupt, TypeInv, TypeOK
<1>24. ASSUME NEW d \in {"approve", "reject"}, DecideInProcess(d) PROVE TypeInv'
  <2>1. DriverOK'
    BY <1>0, <1>24 DEF DecideInProcess, DriverOK, PCs, Results, Reasons
  <2>2. BatchOpen'
    BY <1>0, <1>24 DEF DecideInProcess, TypeInv, BatchOpen
  <2>3. QED
    BY <1>0, <1>24, <2>1, <2>2, Frame DEF DecideInProcess, TypeInv, TypeOK
<1>25. ASSUME NEW c \in Calls, NEW d \in {"approve", "reject"}, NEW s \in BOOLEAN,
              ApiResolve(c, d, s)
       PROVE  TypeInv'
  <2>1. RowsOK'
    <3>1. CASE d = "approve" /\ ~lapsed[c]
      BY <1>0, <1>25, <3>1, ConsumeTypes DEF ApiResolve, ResolveRows
    <3>2. CASE ~(d = "approve" /\ ~lapsed[c])
      BY <1>0, <1>25, <3>2, MoveRowTypes DEF ApiResolve, ResolveRows, States, Dispositions
    <3>3. QED
      BY <3>1, <3>2
  <2>2. ApprovalsOK'
    BY <1>0, <1>25 DEF ApiResolve, ResolveRows, ConsumeAndMarkExecuting,
       MoveRow, Refusal, ApprovalsOK, Resolutions
  <2>3. DriverOK'
    BY <1>0, <1>25 DEF ApiResolve, Wake, DriverOK, PCs, Results, Reasons
  <2>4. BatchOpen'
    BY <1>0, <1>25 DEF ApiResolve, Wake, TypeInv, BatchOpen
  <2>5. QED
    BY <1>0, <1>25, <2>1, <2>2, <2>3, <2>4, Frame DEF ApiResolve, ResolveRows,
       TypeInv, TypeOK
<1>26. ASSUME RevokeGrant PROVE TypeInv'
  <2>1. RowsOK'
    BY <1>0, <1>26 DEF RevokeGrant, RevokeRows, RowsOK, States, Dispositions,
       Transitions, Legal
  <2>2. ApprovalsOK'
    BY <1>0, <1>26 DEF RevokeGrant, RevokeRows, ApprovalsOK, Resolutions
  <2>3. (grant \in {"active", "expired", "revoked"})'
    BY <1>0, <1>26 DEF RevokeGrant, RevokeRows
  <2>4. DriverOK'
    BY <1>0, <1>26 DEF RevokeGrant, Wake, DriverOK, PCs, Results, Reasons
  <2>5. BatchOpen'
    BY <1>0, <1>26 DEF RevokeGrant, Wake, TypeInv, BatchOpen
  <2>6. QED
    BY <1>0, <1>26, <2>1, <2>2, <2>3, <2>4, <2>5, Frame DEF RevokeGrant,
       RevokeRows, TypeInv, TypeOK
<1>27. ASSUME RevokeScope PROVE TypeInv'
  <2>1. ApprovalsOK'
    BY <1>0, <1>27 DEF RevokeScope, ApprovalsOK, Resolutions
  <2>2. BatchOpen'
    BY <1>0, <1>27 DEF RevokeScope, TypeInv, BatchOpen
  <2>3. QED
    BY <1>0, <1>27, <2>1, <2>2, Frame DEF RevokeScope, TypeInv, TypeOK
<1>28. ASSUME GrantExpires PROVE TypeInv'
  <2>1. (grant \in {"active", "expired", "revoked"})'
    BY <1>0, <1>28 DEF GrantExpires
  <2>2. BatchOpen'
    BY <1>0, <1>28 DEF GrantExpires, TypeInv, BatchOpen
  <2>3. QED
    BY <1>0, <1>28, <2>1, <2>2, Frame DEF GrantExpires, TypeInv, TypeOK
<1>29. ASSUME NEW c \in Calls, Lapse(c) PROVE TypeInv'
  <2>1. WorldOK'
    BY <1>0, <1>29 DEF Lapse, WorldOK
  <2>2. BatchOpen'
    BY <1>0, <1>29 DEF Lapse, TypeInv, BatchOpen
  <2>3. QED
    BY <1>0, <1>29, <2>1, <2>2, Frame DEF Lapse, TypeInv, TypeOK
<1>30. ASSUME Crash PROVE TypeInv'
  <2>1. DriverOK'
    BY <1>0, <1>30 DEF Crash, DriverOK, PCs, Results, Reasons
  <2>2. BatchOpen'
    BY <1>0, <1>30 DEF Crash, TypeInv, BatchOpen
  <2>3. QED
    BY <1>0, <1>30, <2>1, <2>2, Frame DEF Crash, TypeInv, TypeOK
<1>31. ASSUME Corrupt PROVE TypeInv'
  <2>1. SessionOK'
    BY <1>0, <1>31 DEF Corrupt, SessionOK
  <2>2. BatchOpen'
    BY <1>0, <1>31 DEF Corrupt, TypeInv, BatchOpen
  <2>3. QED
    BY <1>0, <1>31, <2>1, <2>2, Frame DEF Corrupt, TypeInv, TypeOK
<1>32. ASSUME Resume PROVE TypeInv'
  <2>1. DriverOK'
    BY <1>0, <1>32 DEF Resume, Goto, DriverOK, PCs, Results, Reasons
  <2>2. BatchOpen'
    BY <1>0, <1>32 DEF Resume, Goto, TypeInv, BatchOpen
  <2>3. QED
    BY <1>0, <1>32, <2>1, <2>2, Frame DEF Resume, TypeInv, TypeOK
<1>33. ASSUME NEW obs \in Observations, Restore(obs) PROVE TypeInv'
  <2>1. SessionOK'
    BY <1>0, <1>33 DEF Restore, RestoreRows, SessionOK
  <2>2. ReportOK'
    <3>1. \A c \in Calls : obs[c] \in ObservedClasses
      BY <1>33 DEF Observations
    <3>2. class' \in [Calls -> Classes \cup {"none"}]
      <4>1. \A c \in Calls : Classify(state[c], disp[c], Policy[c], obs[c]) \in Classes
        BY <3>1, ClassifyTypes
      <4>2. QED
        BY <1>0, <1>33, <4>1 DEF Restore, RestoreRows, OpenReport, ReportOK
    <3>3. /\ rstatus' \in {"none", "open", "resolved", "quarantined"}
          /\ resol' \in [Calls -> {"none", "ack", "abort", "quarantine"}]
          /\ handled' \subseteq Calls
      BY <1>0, <1>33 DEF Restore, RestoreRows, OpenReport, ReportOK
    <3>4. quarantinedLater' \in BOOLEAN
      BY <1>0, <1>33 DEF Restore, RestoreRows, ReportOK
    <3>5. QED
      BY <3>2, <3>3, <3>4 DEF ReportOK
  <2>3. DriverOK'
    BY <1>0, <1>33 DEF Restore, DriverOK, PCs, Results, Reasons
  <2>4. BatchOpen'
    BY <1>0, <1>33 DEF Restore, RestoreRows, TypeInv, BatchOpen
  <2>5. QED
    BY <1>0, <1>33, <2>1, <2>2, <2>3, <2>4, Frame DEF Restore, RestoreRows,
       TypeInv, TypeOK
<1>34. ASSUME NEW c \in Calls, QuarantineItem(c) PROVE TypeInv'
  <2>1. SessionOK'
    BY <1>0, <1>34 DEF QuarantineItem, Answer, HealthFor, SessionOK
  <2>2. ReportOK'
    BY <1>0, <1>34 DEF QuarantineItem, Answer, ReportOK
  <2>3. BatchOpen'
    BY <1>0, <1>34 DEF QuarantineItem, Answer, TypeInv, BatchOpen
  <2>4. QED
    BY <1>0, <1>34, <2>1, <2>2, <2>3, Frame DEF QuarantineItem, Answer, TypeInv,
       TypeOK
<1>35. ASSUME QuarantineReport PROVE TypeInv'
  <2>1. SessionOK'
    BY <1>0, <1>35 DEF QuarantineReport, Answer, HealthFor, SessionOK
  <2>2. ReportOK'
    BY <1>0, <1>35 DEF QuarantineReport, Answer, ReportOK
  <2>3. BatchOpen'
    BY <1>0, <1>35 DEF QuarantineReport, Answer, TypeInv, BatchOpen
  <2>4. QED
    BY <1>0, <1>35, <2>1, <2>2, <2>3, Frame DEF QuarantineReport, Answer,
       TypeInv, TypeOK
<1>36. ASSUME NEW c \in Calls, NEW r \in {"ack", "abort"}, DecideItem(c, r)
       PROVE  TypeInv'
  <2>1. RowsOK'
    BY <1>0, <1>36, SettledTypes DEF DecideItem
  <2>2. LogOK'
    <3>1. c \in InBatch => pending # << >> /\ Tail(pending) \in Seq(Calls)
      BY <1>0, InBatchFacts, BatchFacts
    <3>2. QED
      BY <1>0, <1>36, <3>1 DEF DecideItem, AppendLost, LogOK
  <2>3. SessionOK'
    BY <1>0, <1>36 DEF DecideItem, Answer, HealthFor, SessionOK
  <2>4. ReportOK'
    BY <1>0, <1>36 DEF DecideItem, Answer, ReportOK
  <2>5. BatchOpen'
    BY <1>0, <1>36 DEF DecideItem, AppendLost, Answer, TypeInv, BatchOpen,
       Answering, MayDecide
  <2>6. QED
    BY <1>0, <1>36, <2>1, <2>2, <2>3, <2>4, <2>5, Frame DEF DecideItem, Answer,
       TypeInv, TypeOK
<1>37. ASSUME AbortReport PROVE TypeInv'
  <2>1. RowsOK'
    BY <1>0, <1>37, SettledTypes DEF AbortReport
  <2>2. LogOK'
    BY <1>0, <1>37 DEF AbortReport, LogOK
  <2>3. SessionOK'
    BY <1>0, <1>37 DEF AbortReport, Answer, HealthFor, SessionOK
  <2>4. ReportOK'
    BY <1>0, <1>37 DEF AbortReport, Answer, ReportOK, ForcedChoice
  <2>5. BatchOpen'
    BY <1>0, <1>37 DEF AbortReport, Answer, TypeInv, BatchOpen, Answering, MayAbort
  <2>6. QED
    BY <1>0, <1>37, <2>1, <2>2, <2>3, <2>4, <2>5, Frame DEF AbortReport, Answer,
       TypeInv, TypeOK
<1>38. ASSUME ResumeReport PROVE TypeInv'
  <2>1. SessionOK'
    BY <1>0, <1>38 DEF ResumeReport, Answer, HealthFor, SessionOK
  <2>2. ReportOK'
    BY <1>0, <1>38 DEF ResumeReport, Answer, ReportOK
  <2>3. DriverOK'
    BY <1>0, <1>38 DEF ResumeReport, DriverOK, PCs, Results, Reasons
  <2>4. BatchOpen'
    BY <1>0, <1>38 DEF ResumeReport, Answer, TypeInv, BatchOpen
  <2>5. QED
    BY <1>0, <1>38, <2>1, <2>2, <2>3, <2>4, Frame DEF ResumeReport, Answer,
       TypeInv, TypeOK
<1>39. ASSUME UNCHANGED vars PROVE TypeInv'
  BY <1>0, <1>39, Frame DEF vars, TypeInv, TypeOK, BatchOpen
<1>40. QED
  BY <1>1, <1>2, <1>3, <1>4, <1>5, <1>6, <1>7, <1>8, <1>9, <1>10, <1>11, <1>12,
     <1>13, <1>14, <1>15, <1>16, <1>17, <1>18, <1>19, <1>20, <1>21, <1>22,
     <1>23, <1>24, <1>25, <1>26, <1>27, <1>28, <1>29, <1>30, <1>31, <1>32,
     <1>33, <1>34, <1>35, <1>36, <1>37, <1>38, <1>39 DEF Next, DriverStep,
     EnvironmentStep, RecoveryStep, Decision

(* The Session starts with empty tables and no unresolved call.               *)
LEMMA TypeStart == Init => TypeInv
<1> SUFFICES ASSUME Init PROVE TypeInv
  OBVIOUS
<1>1. pending \in Seq(Calls)
  BY EmptySeq DEF Init
<1>2. BatchOpen
  BY DEF Init, BatchOpen, InCall, Closing
<1>3. RowsOK /\ ApprovalsOK /\ SessionOK /\ WorldOK
  BY DEF Init, RowsOK, ApprovalsOK, SessionOK, WorldOK, States, Dispositions,
         Resolutions
<1>4. LogOK /\ ReportOK /\ DriverOK /\ grant \in {"active", "expired", "revoked"}
  BY <1>1 DEF Init, LogOK, ReportOK, DriverOK, PCs, Results, Reasons
<1>5. QED
  BY <1>2, <1>3, <1>4 DEF TypeInv, TypeOK

(* The strengthened type invariant, for the proofs of other modules.          *)
THEOREM TypeInvariant == Spec => []TypeInv
<1>1. Init => TypeInv
  BY TypeStart
<1>2. TypeInv /\ [Next]_vars => TypeInv'
  BY TypeStep
<1>3. QED
  BY <1>1, <1>2, PTL DEF Spec

(* Every table, the log, the report and the driver's memory hold values of    *)
(* their types, whatever calls are proposed and whoever acts on them.         *)
THEOREM TypeCorrect == Spec => []TypeOK
<1>1. TypeInv => TypeOK
  BY DEF TypeInv
<1>2. QED
  BY <1>1, TypeInvariant, PTL

-------------------------------------------------------------------------------
(* What both need besides.  Of the rows: a call that was not started has no   *)
(* effect yet, and only a completed or closed row has a verdict, which for a  *)
(* completed one is not a denial.                                             *)
NotStarted == \A c \in Calls : state[c] \in {"none", "prepared", "awaiting"} => entered[c] = 0

OpenPending == \A c \in Calls : state[c] \notin {"completed", "closed"} => disp[c] = "pending"

CompletedNotDenied == \A c \in Calls : state[c] = "completed" => disp[c] # "denied"

OnlyGatedAsked == \A c \in Calls : appr[c] # "none" => c \in ApprovalCalls

RowInv == NotStarted /\ OpenPending /\ CompletedNotDenied /\ OnlyGatedAsked
            /\ AtMostOnce /\ ConsentBeforeEffect

(* Of the driver and the log: the driver has not entered the calls still      *)
(* ahead of it, nor the current one before it stands in the handler; and it   *)
(* does not get past the policy with a denied call, nor to the approvals with *)
(* a call that needs none.                                                    *)
BeforeHandler == {"loop", "precedent", "wait", "admit"}

PastPolicy == {"precedent", "wait", "admit"}

Asking == {"precedent", "wait"}

DistinctBatch == \A i, j \in DOMAIN pending : pending[i] = pending[j] => i = j

AheadFresh ==
    pc \in InCall =>
        \A i \in DOMAIN pending : i # 1 \/ pc \in BeforeHandler => entered[pending[i]] = 0

HeadAdmissible ==
    /\ pc \in PastPolicy => Cur \notin DeniedCalls
    /\ pc \in Asking => Cur \in ApprovalCalls

BatchInv == DistinctBatch /\ AheadFresh /\ HeadAdmissible

SafeInv == RowInv /\ BatchInv

-------------------------------------------------------------------------------
(* Steps that leave rows, approvals and handlers alone.                       *)
LEMMA SameRows ==
    ASSUME RowInv, UNCHANGED <<rowVars, appr, entered>>
    PROVE  RowInv'
  BY DEF RowInv, NotStarted, OpenPending, CompletedNotDenied, OnlyGatedAsked,
         AtMostOnce, ConsentBeforeEffect, rowVars

(* A row operation that keeps the approvals or settles a pending one, and     *)
(* does not deny what ran.                                                    *)
LEMMA SafeMove ==
    ASSUME RowsOK, ApprovalsOK, RowInv, NEW c \in Calls, NEW to \in States,
           NEW d \in Dispositions, MoveRow(c, to, d), UNCHANGED entered,
           to \notin {"completed", "closed"} => d = "pending",
           d = "denied" => entered[c] = 0 /\ to # "completed",
           \A e \in Calls : appr'[e] # appr[e] => e \in ApprovalCalls /\ appr[e] # "approved"
    PROVE  RowInv'
<1>1. /\ \A e \in Calls : e # c => state'[e] = state[e] /\ disp'[e] = disp[e]
      /\ state'[c] = to /\ disp'[c] = d
      /\ Legal(state[c], to)
  BY DEF MoveRow, RowsOK
<1>2. to # "none" /\ (to \in {"prepared", "awaiting"} => state[c] = "prepared")
  BY <1>1 DEF Legal, Transitions
<1>3. NotStarted'
  BY <1>1, <1>2 DEF RowInv, NotStarted
<1>4. OpenPending' /\ CompletedNotDenied'
  BY <1>1 DEF RowInv, OpenPending, CompletedNotDenied
<1>5. OnlyGatedAsked' /\ AtMostOnce'
  BY DEF RowInv, OnlyGatedAsked, AtMostOnce
<1>6. ConsentBeforeEffect'
  BY <1>1 DEF RowInv, ConsentBeforeEffect
<1>7. QED
  BY <1>3, <1>4, <1>5, <1>6 DEF RowInv

(* Closing a call that never entered its handler, or whose row is closed.     *)
LEMMA SafeClose ==
    ASSUME RowsOK, ApprovalsOK, RowInv, NEW c \in Calls, NEW d \in {"denied", "cancelled"},
           CloseBeforeHandler(c, d), entered[c] = 0, UNCHANGED entered
    PROVE  RowInv'
<1>1. CASE UNCHANGED <<rowVars, appr>>
  BY <1>1, SameRows DEF rowVars
<1>2. CASE /\ MoveRow(c, "closed", d)
           /\ appr' = IF appr[c] = "pending" THEN [appr EXCEPT ![c] = Refusal(c)] ELSE appr
  <2>1. \A e \in Calls : appr'[e] # appr[e] => e \in ApprovalCalls /\ appr[e] # "approved"
    BY <1>2 DEF ApprovalsOK, RowInv, OnlyGatedAsked
  <2>2. QED
    BY <1>2, <2>1, SafeMove DEF States, Dispositions
<1>3. QED
  BY <1>1, <1>2 DEF CloseBeforeHandler

(* Consuming an approval the user gave.                                       *)
LEMMA SafeConsume ==
    ASSUME RowsOK, ApprovalsOK, RowInv, NEW c \in Calls, ConsumeAndMarkExecuting(c),
           c \in ApprovalCalls, UNCHANGED entered
    PROVE  RowInv'
<1>1. Legal(state[c], "executing") /\ MoveRow(c, "executing", disp[c])
  BY DEF ConsumeAndMarkExecuting, MoveRow
<1>2. disp[c] = "pending" /\ disp[c] \in Dispositions
  BY <1>1 DEF RowInv, OpenPending, Legal, Transitions, RowsOK
<1>3. \A e \in Calls : appr'[e] # appr[e] => e \in ApprovalCalls /\ appr[e] # "approved"
  BY DEF ConsumeAndMarkExecuting, ApprovalsOK
<1>4. QED
  BY <1>1, <1>2, <1>3, SafeMove DEF States

(* Committing a tool message.                                                 *)
LEMMA SafeAppend ==
    ASSUME RowsOK, ApprovalsOK, RowInv, NEW c \in Calls, NEW r, AppendReply(c, r),
           UNCHANGED <<appr, entered>>
    PROVE  RowInv'
<1>1. CASE UNCHANGED rowVars
  BY <1>1, SameRows DEF rowVars
<1>2. CASE MoveRow(c, "closed", disp[c])
  <2>1. disp[c] \in Dispositions /\ (disp[c] = "denied" => entered[c] = 0)
    BY DEF RowsOK, RowInv, ConsentBeforeEffect
  <2>2. QED
    BY <1>2, <2>1, SafeMove DEF States
<1>3. QED
  BY <1>1, <1>2 DEF AppendReply

(* Closing executions by a decision on a report: it never denies.             *)
LEMMA SafeSettle ==
    ASSUME RowsOK, RowInv, NEW S, NEW r, CloseSettled(S, r), UNCHANGED <<appr, entered>>
    PROVE  RowInv'
<1>1. \A c \in Calls :
        \/ state'[c] = state[c] /\ disp'[c] = disp[c]
        \/ state'[c] = "closed" /\ disp'[c] \in {"unknown", "cancelled", "interrupted"}
  BY DEF CloseSettled, Settled
<1>2. NotStarted' /\ OpenPending' /\ CompletedNotDenied'
  BY <1>1 DEF RowInv, NotStarted, OpenPending, CompletedNotDenied
<1>3. OnlyGatedAsked' /\ AtMostOnce' /\ ConsentBeforeEffect'
  BY <1>1 DEF RowInv, OnlyGatedAsked, AtMostOnce, ConsentBeforeEffect
<1>4. QED
  BY <1>2, <1>3 DEF RowInv

-------------------------------------------------------------------------------
(* The driver keeps its place, or moves on within the call or out of it.      *)
LEMMA SamePlace ==
    ASSUME BatchInv, UNCHANGED <<pending, entered>>,
           pc' \in InCall => pc \in InCall,
           pc' \in BeforeHandler => pc \in BeforeHandler,
           pc' \in PastPolicy => pc \in PastPolicy,
           pc' \in Asking => pc \in Asking
    PROVE  BatchInv'
  BY DEF BatchInv, DistinctBatch, AheadFresh, HeadAdmissible, Cur

(* The current call gets its message: the next one becomes current.           *)
LEMMA NextPlace ==
    ASSUME LogOK, pending # << >>, BatchInv, pending' = Tail(pending), UNCHANGED entered,
           pc' \in InCall => pc \in InCall, pc' \notin PastPolicy \cup Asking
    PROVE  BatchInv'
<1>1. \A i \in DOMAIN Tail(pending) :
        /\ i + 1 \in DOMAIN pending /\ i + 1 # 1 /\ i \in Nat
        /\ Tail(pending)[i] = pending[i + 1]
  BY BatchFacts
<1>2. DistinctBatch'
  <2>1. SUFFICES ASSUME NEW i \in DOMAIN Tail(pending), NEW j \in DOMAIN Tail(pending),
                        Tail(pending)[i] = Tail(pending)[j]
                 PROVE  i = j
    BY DEF DistinctBatch
  <2>2. pending[i + 1] = pending[j + 1]
    BY <1>1, <2>1
  <2>3. i + 1 = j + 1
    BY <1>1, <2>2 DEF BatchInv, DistinctBatch
  <2>4. QED
    BY <1>1, <2>3
<1>3. AheadFresh'
  BY <1>1 DEF BatchInv, AheadFresh
<1>4. QED
  BY <1>2, <1>3 DEF BatchInv, HeadAdmissible

(* The calls of a new assistant message were never used before.               *)
LEMMA BatchUnused ==
    ASSUME NEW b \in Batches(Unused)
    PROVE  /\ \A i, j \in DOMAIN b : b[i] = b[j] => i = j
           /\ \A i \in DOMAIN b : b[i] \in Calls /\ state[b[i]] = "none"
<1>1. PICK n \in 1..Cardinality(Unused) : b \in [1..n -> Unused]
  BY DEF Batches
<1>2. \A i \in DOMAIN b : b[i] \in Unused
  BY <1>1
<1>3. \A i, j \in DOMAIN b : b[i] = b[j] => i = j
  BY DEF Batches
<1>4. QED
  BY <1>2, <1>3 DEF Unused

-------------------------------------------------------------------------------
(* Every step keeps the strengthened invariant.                               *)
LEMMA SafeStep == TypeInv /\ SafeInv /\ [Next]_vars => SafeInv'
<1> SUFFICES ASSUME TypeInv, SafeInv, [Next]_vars PROVE SafeInv'
  OBVIOUS
<1>0. /\ RowsOK /\ ApprovalsOK /\ LogOK /\ WorldOK /\ RowInv /\ BatchInv
      /\ pc \in InCall \cup Closing =>
            pending # << >> /\ Cur \in Calls /\ Cur = pending[1] /\ 1 \in DOMAIN pending
  BY BatchFacts DEF TypeInv, TypeOK, BatchOpen, SafeInv
<1>a. pc \in BeforeHandler => entered[Cur] = 0
  BY <1>0 DEF BatchInv, AheadFresh, BeforeHandler, InCall
<1> USE DEF SafeInv, InCall, Closing, BeforeHandler, PastPolicy, Asking
<1>1. ASSUME StartTurn PROVE SafeInv'
  BY <1>0, <1>1, SameRows, SamePlace DEF StartTurn, Goto, approvalVars, logVars,
     worldVars, driverVars
<1>2. ASSUME ContextRefused PROVE SafeInv'
  BY <1>0, <1>2, SameRows, SamePlace DEF ContextRefused, Goto, approvalVars,
     logVars, worldVars, driverVars
<1>3. ASSUME FinishTurn PROVE SafeInv'
  BY <1>0, <1>3, SameRows, SamePlace DEF FinishTurn, approvalVars, logVars,
     worldVars, driverVars
<1>4. ASSUME NEW d \in {"approve", "reject"}, DecideInProcess(d) PROVE SafeInv'
  BY <1>0, <1>4, SameRows, SamePlace DEF DecideInProcess, approvalVars, logVars,
     worldVars, driverVars
<1>5. ASSUME AdoptApproval PROVE SafeInv'
  BY <1>0, <1>5, SameRows, SamePlace DEF AdoptApproval, GotoAdmit, approvalVars,
     logVars, worldVars, driverVars
<1>6. ASSUME NEW r \in {"ok", "failed", "unknown"}, HandlerReturns(r) PROVE SafeInv'
  BY <1>0, <1>6, SameRows, SamePlace DEF HandlerReturns, approvalVars, logVars,
     worldVars, driverVars
<1>7. ASSUME HandlerTimesOut PROVE SafeInv'
  BY <1>0, <1>7, SameRows, SamePlace DEF HandlerTimesOut, approvalVars, logVars,
     worldVars, driverVars
<1>8. ASSUME HandlerCancelled PROVE SafeInv'
  BY <1>0, <1>8, SameRows, SamePlace DEF HandlerCancelled, approvalVars,
     logVars, worldVars, driverVars
<1>9. ASSUME CommitFails PROVE SafeInv'
  BY <1>0, <1>9, SameRows, SamePlace DEF CommitFails, GotoClosing, approvalVars,
     logVars, worldVars, driverVars
<1>10. ASSUME ClosingFails PROVE SafeInv'
  BY <1>0, <1>10, SameRows, SamePlace DEF ClosingFails, approvalVars, logVars,
     worldVars, driverVars
<1>11. ASSUME NEW f \in Reasons, Interrupt(f) PROVE SafeInv'
  BY <1>0, <1>11, SameRows, SamePlace DEF Interrupt, GotoClosing, approvalVars,
     logVars, worldVars, driverVars
<1>12. ASSUME RevokeScope PROVE SafeInv'
  BY <1>0, <1>12, SameRows, SamePlace DEF RevokeScope, approvalVars, logVars,
     worldVars, driverVars
<1>13. ASSUME GrantExpires PROVE SafeInv'
  BY <1>0, <1>13, SameRows, SamePlace DEF GrantExpires, approvalVars, logVars,
     worldVars, driverVars
<1>14. ASSUME NEW c \in Calls, Lapse(c) PROVE SafeInv'
  BY <1>0, <1>14, SameRows, SamePlace DEF Lapse, approvalVars, logVars,
     worldVars, driverVars
<1>15. ASSUME Crash PROVE SafeInv'
  BY <1>0, <1>15, SameRows, SamePlace DEF Crash, approvalVars, logVars,
     worldVars, driverVars
<1>16. ASSUME Corrupt PROVE SafeInv'
  BY <1>0, <1>16, SameRows, SamePlace DEF Corrupt, approvalVars, logVars,
     worldVars, driverVars
<1>17. ASSUME Resume PROVE SafeInv'
  BY <1>0, <1>17, SameRows, SamePlace DEF Resume, Goto, approvalVars, logVars,
     worldVars, driverVars
<1>18. ASSUME NEW obs \in Observations, Restore(obs) PROVE SafeInv'
  BY <1>0, <1>18, SameRows, SamePlace DEF Restore, RestoreRows, approvalVars,
     logVars, worldVars, driverVars
<1>19. ASSUME NEW c \in Calls, QuarantineItem(c) PROVE SafeInv'
  BY <1>0, <1>19, SameRows, SamePlace DEF QuarantineItem, approvalVars, logVars,
     worldVars, driverVars
<1>20. ASSUME QuarantineReport PROVE SafeInv'
  BY <1>0, <1>20, SameRows, SamePlace DEF QuarantineReport, approvalVars,
     logVars, worldVars, driverVars
<1>21. ASSUME ResumeReport PROVE SafeInv'
  BY <1>0, <1>21, SameRows, SamePlace DEF ResumeReport, Answer, approvalVars,
     logVars, worldVars, driverVars
<1>22. ASSUME DenyAtGate PROVE SafeInv'
  <2>1. RowInv'
    BY <1>0, <1>a, <1>22, SafeClose DEF DenyAtGate, worldVars
  <2>2. BatchInv'
    BY <1>0, <1>22, SamePlace DEF DenyAtGate, GotoReply, logVars, worldVars
  <2>3. QED
    BY <2>1, <2>2
<1>23. ASSUME RequestApproval PROVE SafeInv'
  <2>1. RowInv'
    BY <1>0, <1>a, <1>23
       DEF RequestApproval, rowVars, worldVars, ApprovalsOK, RowInv, NotStarted, OpenPending,
           CompletedNotDenied, OnlyGatedAsked, AtMostOnce, ConsentBeforeEffect
  <2>2. BatchInv'
    BY <1>0, <1>23 DEF RequestApproval, Goto, PassesPolicy, logVars, worldVars, Cur,
       BatchInv, DistinctBatch, AheadFresh, HeadAdmissible
  <2>3. QED
    BY <2>1, <2>2
<1>24. ASSUME ConsumePrecedent PROVE SafeInv'
  <2>1. RowInv'
    BY <1>0, <1>a, <1>24, SafeClose, SafeConsume
       DEF ConsumePrecedent, BatchInv, HeadAdmissible, worldVars
  <2>2. BatchInv'
    BY <1>0, <1>24, SamePlace
       DEF ConsumePrecedent, GotoReply, GotoAdmit, logVars, worldVars
  <2>3. QED
    BY <2>1, <2>2
<1>25. ASSUME MarkExecuting PROVE SafeInv'
  <2>1. RowInv'
    <3>1. Legal(state[Cur], "executing") /\ MoveRow(Cur, "executing", disp[Cur])
      BY <1>25 DEF MarkExecuting, MoveRow
    <3>2. disp[Cur] = "pending" /\ disp[Cur] \in Dispositions
      BY <1>0, <1>25, <3>1 DEF MarkExecuting, RowInv, OpenPending, Legal, Transitions, RowsOK
    <3>3. QED
      BY <1>0, <1>25, <3>1, <3>2, SafeMove
         DEF MarkExecuting, States, approvalVars, worldVars
  <2>2. BatchInv'
    BY <1>0, <1>25 DEF MarkExecuting, GotoAdmit, PassesPolicy, logVars, worldVars, Cur,
       BatchInv, DistinctBatch, AheadFresh, HeadAdmissible
  <2>3. QED
    BY <2>1, <2>2
<1>26. ASSUME ApproveHere PROVE SafeInv'
  <2>1. RowInv'
    BY <1>0, <1>26, SafeConsume
       DEF ApproveHere, BatchInv, HeadAdmissible, worldVars
  <2>2. BatchInv'
    BY <1>0, <1>26, SamePlace DEF ApproveHere, GotoAdmit, logVars, worldVars
  <2>3. QED
    BY <2>1, <2>2
<1>27. ASSUME RefuseApproval PROVE SafeInv'
  <2>1. RowInv'
    BY <1>0, <1>a, <1>27, SafeClose DEF RefuseApproval, worldVars
  <2>2. BatchInv'
    BY <1>0, <1>27, SamePlace DEF RefuseApproval, GotoReply, logVars, worldVars
  <2>3. QED
    BY <2>1, <2>2
<1>28. ASSUME EnterHandler PROVE SafeInv'
  <2>1. /\ \A c \in Calls : c # Cur => entered'[c] = entered[c]
        /\ entered'[Cur] = 1
    BY <1>0, <1>a, <1>28 DEF EnterHandler, WorldOK
  <2>2. state[Cur] = "executing" /\ (Cur \in ApprovalCalls => appr[Cur] = "approved")
    BY <1>28 DEF EnterHandler, MayEnter
  <2>3. Cur \notin DeniedCalls
    BY <1>0, <1>28 DEF EnterHandler, BatchInv, HeadAdmissible
  <2>4. disp[Cur] # "denied"
    BY <1>0, <1>28, <2>2 DEF EnterHandler, RowInv, OpenPending
  <2>5. NotStarted' /\ OpenPending' /\ CompletedNotDenied' /\ OnlyGatedAsked'
    BY <1>0, <1>28, <2>1, <2>2 DEF EnterHandler, rowVars, approvalVars, RowInv, NotStarted,
       OpenPending, CompletedNotDenied, OnlyGatedAsked
  <2>6. AtMostOnce'
    BY <1>0, <2>1 DEF RowInv, AtMostOnce
  <2>7. ConsentBeforeEffect'
    BY <1>0, <1>28, <2>1, <2>2, <2>3, <2>4
       DEF EnterHandler, rowVars, approvalVars, RowInv, ConsentBeforeEffect
  <2>8. BatchInv'
    <3>1. \A i \in DOMAIN pending : i # 1 => pending[i] # Cur
      BY <1>0, <1>28 DEF EnterHandler, BatchInv, DistinctBatch
    <3>2. \A i \in DOMAIN pending : pending[i] \in Calls
      BY <1>0 DEF LogOK
    <3>3. AheadFresh'
      BY <1>0, <1>28, <2>1, <3>1, <3>2 DEF EnterHandler, logVars, BatchInv, AheadFresh
    <3>4. QED
      BY <1>0, <1>28, <3>3 DEF EnterHandler, logVars, BatchInv, DistinctBatch, HeadAdmissible
  <2>9. QED
    BY <2>5, <2>6, <2>7, <2>8 DEF RowInv
<1>29. ASSUME RefuseEntry PROVE SafeInv'
  <2>1. RowInv'
    BY <1>0, <1>a, <1>29, SafeClose DEF RefuseEntry, worldVars
  <2>2. BatchInv'
    BY <1>0, <1>29, SamePlace DEF RefuseEntry, GotoReply, logVars, worldVars
  <2>3. QED
    BY <2>1, <2>2
<1>30. ASSUME RecordCompleted PROVE SafeInv'
  <2>1. Recorded(res) \in Dispositions /\ Recorded(res) # "denied"
    BY DEF Recorded, Dispositions
  <2>2. RowInv'
    BY <1>0, <1>30, <2>1, SafeMove DEF RecordCompleted, States, approvalVars, worldVars
  <2>3. BatchInv'
    BY <1>0, <1>30, SamePlace DEF RecordCompleted, logVars, worldVars
  <2>4. QED
    BY <2>2, <2>3
<1>31. ASSUME CommitReply PROVE SafeInv'
  <2>1. RowInv'
    BY <1>0, <1>31, SafeAppend DEF CommitReply, approvalVars, worldVars
  <2>2. BatchInv'
    BY <1>0, <1>31, NextPlace DEF CommitReply, AppendReply, worldVars
  <2>3. QED
    BY <2>1, <2>2
<1>32. ASSUME SettleRow PROVE SafeInv'
  <2>1. RowInv'
    <3>1. CASE state[Cur] \in {"prepared", "awaiting"}
      BY <1>0, <1>32, <3>1, SafeClose DEF SettleRow, RowInv, NotStarted, worldVars
    <3>2. CASE state[Cur] = "executing"
      BY <1>0, <1>32, <3>2, SafeMove DEF SettleRow, States, Dispositions, worldVars
    <3>3. CASE state[Cur] \notin {"prepared", "awaiting", "executing"}
      BY <1>0, <1>32, <3>3, SameRows DEF SettleRow, worldVars
    <3>4. QED
      BY <3>1, <3>2, <3>3
  <2>2. BatchInv'
    BY <1>0, <1>32, SamePlace DEF SettleRow, Goto, logVars, worldVars
  <2>3. QED
    BY <2>1, <2>2
<1>33. ASSUME CommitSynthetic PROVE SafeInv'
  <2>1. RowInv'
    BY <1>0, <1>33, SafeAppend DEF CommitSynthetic, approvalVars, worldVars
  <2>2. BatchInv'
    BY <1>0, <1>33, NextPlace DEF CommitSynthetic, AppendReply, worldVars
  <2>3. QED
    BY <2>1, <2>2
<1>34. ASSUME NEW b \in Batches(Unused), CommitBatch(b) PROVE SafeInv'
  <2>1. /\ \A i, j \in DOMAIN b : b[i] = b[j] => i = j
        /\ \A i \in DOMAIN b : b[i] \in Calls /\ state[b[i]] = "none"
    BY BatchUnused
  <2>2. \A c \in Calls :
          \/ state'[c] = state[c]
          \/ state[c] = "none" /\ state'[c] \in {"prepared", "awaiting"}
    BY <1>34, <2>1 DEF CommitBatch
  <2>3. RowInv'
    BY <1>0, <1>34, <2>2 DEF CommitBatch, approvalVars, worldVars, RowInv, NotStarted,
       OpenPending, CompletedNotDenied, OnlyGatedAsked, AtMostOnce, ConsentBeforeEffect
  <2>4. \A i \in DOMAIN b : entered[b[i]] = 0
    BY <1>0, <2>1 DEF RowInv, NotStarted
  <2>5. BatchInv'
    BY <1>34, <2>1, <2>4 DEF CommitBatch, Goto, worldVars, BatchInv, DistinctBatch,
       AheadFresh, HeadAdmissible
  <2>6. QED
    BY <2>3, <2>5
<1>35. ASSUME NEW c \in Calls, NEW d \in {"approve", "reject"}, NEW s \in BOOLEAN, ApiResolve(c, d, s)
      PROVE  SafeInv'
  <2>1. appr[c] = "pending" /\ UNCHANGED entered
    BY <1>35 DEF ApiResolve, ResolveRows, worldVars
  <2>2. c \in ApprovalCalls
    BY <1>0, <2>1 DEF RowInv, OnlyGatedAsked
  <2>3. RowInv'
    <3>1. CASE d = "approve" /\ ~lapsed[c]
      BY <1>0, <1>35, <2>2, <3>1, <2>1, SafeConsume DEF ApiResolve, ResolveRows
    <3>2. CASE ~(d = "approve" /\ ~lapsed[c])
      <4>1. MoveRow(c, "closed", "denied") /\ appr' = [appr EXCEPT ![c] = Refusal(c)]
        BY <1>35, <3>2 DEF ApiResolve, ResolveRows
      <4>2. entered[c] = 0
        BY <1>0, <2>2, <2>1 DEF RowInv, ConsentBeforeEffect, WorldOK
      <4>3. \A e \in Calls : appr'[e] # appr[e] => e \in ApprovalCalls /\ appr[e] # "approved"
        BY <1>0, <2>2, <2>1, <4>1 DEF ApprovalsOK
      <4>4. QED
        BY <1>0, <2>1, <4>1, <4>2, <4>3, SafeMove DEF States, Dispositions
    <3>3. QED
      BY <3>1, <3>2
  <2>4. BatchInv'
    BY <1>0, <1>35, SamePlace DEF ApiResolve, Wake, logVars, worldVars
  <2>5. QED
    BY <2>3, <2>4
<1>36. ASSUME RevokeGrant PROVE SafeInv'
  <2>1. \A c \in Calls :
          \/ state'[c] = state[c] /\ disp'[c] = disp[c]
          \/ /\ state[c] \in {"prepared", "awaiting"}
             /\ state'[c] = "closed" /\ disp'[c] = "denied"
    BY <1>36 DEF RevokeGrant, RevokeRows
  <2>2. \A c \in Calls : appr'[c] = appr[c] \/ appr[c] = "pending"
    BY <1>0, <1>36 DEF RevokeGrant, RevokeRows, PendingGrantCalls, ApprovalsOK
  <2>3. UNCHANGED entered
    BY <1>36 DEF RevokeGrant, worldVars
  <2>4. NotStarted' /\ OpenPending' /\ CompletedNotDenied' /\ AtMostOnce'
    BY <1>0, <2>1, <2>3 DEF RowInv, NotStarted, OpenPending, CompletedNotDenied, AtMostOnce
  <2>5. OnlyGatedAsked'
    BY <1>0, <2>2 DEF RowInv, OnlyGatedAsked
  <2>6. ConsentBeforeEffect'
    BY <1>0, <2>1, <2>2, <2>3 DEF RowInv, NotStarted, ConsentBeforeEffect
  <2>7. BatchInv'
    BY <1>0, <1>36, SamePlace DEF RevokeGrant, Wake, logVars, worldVars
  <2>8. QED
    BY <2>4, <2>5, <2>6, <2>7 DEF RowInv
<1>37. ASSUME NEW c \in Calls, NEW r \in {"ack", "abort"}, DecideItem(c, r) PROVE SafeInv'
  <2>1. RowInv'
    BY <1>0, <1>37, SafeSettle DEF DecideItem, approvalVars, worldVars
  <2>2. BatchInv'
    <3>1. UNCHANGED <<pc, entered>> /\ pc = "idle"
      BY <1>37 DEF DecideItem, Answer, driverVars, worldVars, Answering, MayDecide
    <3>2. CASE c \in InBatch
      BY <1>0, <1>37, <3>1, <3>2, InBatchFacts, NextPlace DEF DecideItem, AppendLost
    <3>3. CASE c \notin InBatch
      BY <1>0, <1>37, <3>1, <3>3, SamePlace DEF DecideItem, AppendLost
    <3>4. QED
      BY <3>2, <3>3
  <2>3. QED
    BY <2>1, <2>2
<1>38. ASSUME AbortReport PROVE SafeInv'
  <2>1. RowInv'
    BY <1>0, <1>38, SafeSettle DEF AbortReport, approvalVars, worldVars
  <2>2. BatchInv'
    BY <1>38 DEF AbortReport, Answer, driverVars, BatchInv, DistinctBatch,
       AheadFresh, HeadAdmissible, Answering, MayAbort
  <2>3. QED
    BY <2>1, <2>2
<1>39. ASSUME UNCHANGED vars PROVE SafeInv'
  BY <1>0, <1>39, SameRows, SamePlace
     DEF vars, rowVars, approvalVars, logVars, worldVars, driverVars
<1>40. QED
  BY <1>1, <1>2, <1>3, <1>4, <1>5, <1>6, <1>7, <1>8, <1>9, <1>10, <1>11, <1>12,
     <1>13, <1>14, <1>15, <1>16, <1>17, <1>18, <1>19, <1>20, <1>21, <1>22,
     <1>23, <1>24, <1>25, <1>26, <1>27, <1>28, <1>29, <1>30, <1>31, <1>32,
     <1>33, <1>34, <1>35, <1>36, <1>37, <1>38, <1>39 DEF Next, DriverStep,
     EnvironmentStep, RecoveryStep, Decision

(* At the start nothing was proposed.                                         *)
LEMMA SafeStart == Init => SafeInv
<1> SUFFICES ASSUME Init PROVE SafeInv
  OBVIOUS
<1>1. RowInv
  BY DEF Init, RowInv, NotStarted, OpenPending, CompletedNotDenied, OnlyGatedAsked,
         AtMostOnce, ConsentBeforeEffect
<1>2. BatchInv
  BY DEF Init, BatchInv, DistinctBatch, AheadFresh, HeadAdmissible, InCall, PastPolicy,
         Asking
<1>3. QED
  BY <1>1, <1>2 DEF SafeInv

(* The strengthened invariant, for the proofs of other modules.               *)
THEOREM SafeInvariant == Spec => []SafeInv
<1>1. Init => SafeInv
  BY SafeStart
<1>2. TypeInv /\ SafeInv /\ [Next]_vars => SafeInv'
  BY SafeStep
<1>3. Spec => []TypeInv
  BY TypeInvariant
<1>4. QED
  BY <1>1, <1>2, <1>3, PTL DEF Spec

(* The handler of a tool call is entered at most once, however often the      *)
(* host crashes and whatever is approved, revoked, decided and resumed        *)
(* (runtime/tool_cycle.py execute_call, application/recovery.py decide).      *)
THEOREM ToolRunsOnce == Spec => []AtMostOnce
<1>1. SafeInv => AtMostOnce
  BY DEF SafeInv, RowInv
<1>2. QED
  BY <1>1, SafeInvariant, PTL

(* No handler runs that the policy denied or whose approval was not given,    *)
(* and what is recorded DENIED never ran (runtime/tool_cycle.py execute_call, *)
(* application/turn_permissions.py assert_handler_may_enter,                  *)
(* application/api_permissions.py revoke_grant).                              *)
THEOREM ConsentFirst == Spec => []ConsentBeforeEffect
<1>1. SafeInv => ConsentBeforeEffect
  BY DEF SafeInv, RowInv
<1>2. QED
  BY <1>1, SafeInvariant, PTL

-------------------------------------------------------------------------------
(* What an approval leaves behind is found at calls that need one only: an    *)
(* expiry and a place in a session scope.  A call without approval enters     *)
(* unasked, so neither may stand in its way.                                  *)
OnlyGatedCovered == \A c \in Calls : lapsed[c] \/ c \in sessioned => c \in ApprovalCalls

-------------------------------------------------------------------------------
(* Who touches handlers, expiries and session scopes, actor by actor.         *)
LEMMA DriverFrame ==
    ASSUME DriverStep
    PROVE  /\ UNCHANGED lapsed
           /\ ~EnterHandler => UNCHANGED entered
           /\ ~RequestApproval => UNCHANGED sessioned
<1>1. CASE ContextRefused \/ FinishTurn \/ DenyAtGate \/ ConsumePrecedent \/ MarkExecuting
  BY <1>1 DEF ContextRefused, FinishTurn, DenyAtGate, ConsumePrecedent, MarkExecuting,
     approvalVars, worldVars
<1>2. CASE RequestApproval
  BY <1>2 DEF RequestApproval, worldVars
<1>3. CASE ApproveHere \/ AdoptApproval \/ RefuseApproval \/ EnterHandler \/ RefuseEntry
  BY <1>3 DEF ApproveHere, AdoptApproval, RefuseApproval, EnterHandler, RefuseEntry,
     approvalVars, worldVars
<1>4. CASE (\E r \in {"ok", "failed", "unknown"} : HandlerReturns(r))
             \/ HandlerTimesOut \/ HandlerCancelled
  BY <1>4 DEF HandlerReturns, HandlerTimesOut, HandlerCancelled, approvalVars, worldVars
<1>5. CASE RecordCompleted \/ CommitFails \/ CommitReply
  BY <1>5 DEF RecordCompleted, CommitFails, CommitReply, approvalVars, worldVars
<1>6. CASE SettleRow \/ CommitSynthetic \/ ClosingFails
  BY <1>6 DEF SettleRow, CommitSynthetic, ClosingFails, approvalVars, worldVars
<1>7. QED
  BY <1>1, <1>2, <1>3, <1>4, <1>5, <1>6 DEF DriverStep

LEMMA EnvironmentFrame ==
    ASSUME EnvironmentStep
    PROVE  /\ UNCHANGED entered
           /\ (\E c \in Calls : Lapse(c)) \/ UNCHANGED lapsed
           /\ (\E c \in Calls, d \in {"approve", "reject"}, s \in BOOLEAN : ApiResolve(c, d, s))
                \/ UNCHANGED sessioned
<1>1. CASE StartTurn \/ \E b \in Batches(Unused) : CommitBatch(b)
  BY <1>1 DEF StartTurn, CommitBatch, approvalVars, worldVars
<1>2. CASE (\E f \in Reasons : Interrupt(f))
             \/ \E d \in {"approve", "reject"} : DecideInProcess(d)
  BY <1>2 DEF Interrupt, DecideInProcess, approvalVars, worldVars
<1>3. CASE \E c \in Calls, d \in {"approve", "reject"}, s \in BOOLEAN : ApiResolve(c, d, s)
  BY <1>3 DEF ApiResolve, worldVars
<1>4. CASE RevokeGrant \/ RevokeScope \/ GrantExpires \/ \E c \in Calls : Lapse(c)
  BY <1>4 DEF RevokeGrant, RevokeScope, GrantExpires, Lapse, approvalVars, worldVars
<1>5. QED
  BY <1>1, <1>2, <1>3, <1>4 DEF EnvironmentStep

LEMMA RecoveryFrame ==
    ASSUME RecoveryStep
    PROVE  UNCHANGED <<lapsed, entered, sessioned>>
<1>1. CASE Crash \/ Corrupt \/ Resume \/ \E obs \in Observations : Restore(obs)
  BY <1>1 DEF Crash, Corrupt, Resume, Restore, RestoreRows, approvalVars, worldVars
<1>2. CASE Decision
  BY <1>2 DEF Decision, QuarantineItem, QuarantineReport, DecideItem, AbortReport,
     ResumeReport, approvalVars, worldVars
<1>3. QED
  BY <1>1, <1>2 DEF RecoveryStep

-------------------------------------------------------------------------------
(* An approval expires where there is one, and a scope is given or used for a *)
(* call that asks.                                                            *)
LEMMA CoveredStep ==
    TypeInv /\ SafeInv /\ OnlyGatedCovered /\ [Next]_vars => OnlyGatedCovered'
<1> SUFFICES ASSUME TypeInv, SafeInv, OnlyGatedCovered, [Next]_vars
             PROVE  OnlyGatedCovered'
  OBVIOUS
<1>0. /\ OnlyGatedAsked /\ lapsed \in [Calls -> BOOLEAN]
      /\ pc \in InCall => Cur \in Calls
  BY BatchFacts DEF SafeInv, RowInv, TypeInv, TypeOK, WorldOK, BatchOpen
<1>1. CASE UNCHANGED <<lapsed, sessioned>>
  BY <1>1 DEF OnlyGatedCovered
<1>2. CASE RequestApproval
  BY <1>2 DEF RequestApproval, worldVars, OnlyGatedCovered
<1>3. ASSUME NEW c \in Calls, Lapse(c) PROVE OnlyGatedCovered'
  BY <1>0, <1>3 DEF Lapse, approvalVars, OnlyGatedCovered, OnlyGatedAsked
<1>4. ASSUME NEW c \in Calls, NEW d \in {"approve", "reject"}, NEW s \in BOOLEAN,
             ApiResolve(c, d, s)
      PROVE  OnlyGatedCovered'
  BY <1>0, <1>4 DEF ApiResolve, ResolveRows, worldVars, OnlyGatedCovered, OnlyGatedAsked
<1>5. CASE DriverStep
  BY <1>1, <1>2, <1>5, DriverFrame
<1>6. CASE EnvironmentStep
  <2>1. CASE \E c \in Calls : Lapse(c)
    BY <1>3, <2>1
  <2>2. CASE \E c \in Calls, d \in {"approve", "reject"}, s \in BOOLEAN : ApiResolve(c, d, s)
    BY <1>4, <2>2
  <2>3. QED
    BY <1>1, <1>6, <2>1, <2>2, EnvironmentFrame
<1>7. CASE RecoveryStep
  BY <1>1, <1>7, RecoveryFrame
<1>8. CASE UNCHANGED vars
  BY <1>1, <1>8 DEF vars, approvalVars, worldVars
<1>9. QED
  BY <1>5, <1>6, <1>7, <1>8 DEF Next

(* A call enters its handler only on evidence that holds at that moment.      *)
LEMMA EntryStep ==
    ASSUME TypeInv, OnlyGatedCovered, [Next]_vars, NEW c \in Calls, entered'[c] # entered[c]
    PROVE  /\ c \in GrantCalls => grant = "active"
           /\ ~cancel[c] /\ ~lapsed[c] /\ (c \in sessioned => c \in bound)
<1>1. EnterHandler
  <2>1. DriverStep
    BY EnvironmentFrame, RecoveryFrame DEF Next, vars, worldVars
  <2>2. QED
    BY <2>1, DriverFrame
<1>2. Cur \in Calls /\ entered \in [Calls -> Nat]
  BY <1>1, BatchFacts
     DEF EnterHandler, TypeInv, TypeOK, WorldOK, BatchOpen, InCall
<1>3. c = Cur /\ MayEnter(c)
  BY <1>1, <1>2 DEF EnterHandler
<1>4. QED
  BY <1>3 DEF MayEnter, Permitted, ScopeActive, OnlyGatedCovered

(* No handler starts on a grant revoked or expired, an approval expired, a    *)
(* session scope revoked or a cancellation requested since its execution was  *)
(* marked EXECUTING (core/execution.py assert_handler_may_enter, called from  *)
(* runtime/tool_cycle.py execute_call).                                       *)
THEOREM EvidenceRequired == Spec => LostEvidenceStopsEntry
<1>1. Init => OnlyGatedCovered
  BY DEF Init, OnlyGatedCovered
<1>2. TypeInv /\ SafeInv /\ OnlyGatedCovered /\ [Next]_vars => OnlyGatedCovered'
  BY CoveredStep
<1>3. TypeInv /\ OnlyGatedCovered /\ [Next]_vars
        => [\A c \in Calls : entered'[c] # entered[c] =>
              /\ c \in GrantCalls => grant = "active"
              /\ ~cancel[c] /\ ~lapsed[c] /\ (c \in sessioned => c \in bound)]_vars
  BY EntryStep
<1>4. QED
  BY <1>1, <1>2, <1>3, TypeInvariant, SafeInvariant, PTL DEF Spec, LostEvidenceStopsEntry

===============================================================================
