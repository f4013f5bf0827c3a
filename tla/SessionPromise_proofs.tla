------------------------- MODULE SessionPromise_proofs -------------------------
(* What the log, the reports and the results of a Session promise: the tool   *)
(* cycle is closed call by call, a resolved report has settled its items,     *)
(* success is real, an outcome once written stays, and every call keeps the   *)
(* promise of module ToolCall.  Proved of SessionRecovery for any calls.      *)
EXTENDS SessionSafety_proofs

(* Log and rows: an unresolved call has a row, and CycleClosed.               *)
BatchStarted == \A c \in InBatch : state[c] # "none"

CycleInv == CycleClosed /\ BatchStarted

(* Report and rows: an item has a row, and one decided upon has it closed; an *)
(* open report lists every row in flight; only a report that quarantined the  *)
(* Session holds a quarantined item; a resolved one is decided throughout.    *)
ItemsStarted == \A c \in Items : state[c] # "none"

SettledItems == \A c \in Calls : Decided(c) => state[c] = "closed"

OpenListed ==
    rstatus = "open" =>
        \A c \in Calls : state[c] \notin {"none", "closed"} => class[c] # "none"

NotQuarantined ==
    rstatus \in {"open", "resolved"} => \A c \in Calls : resol[c] # "quarantine"

ResolvedDecided == rstatus = "resolved" => \A c \in Items : Decided(c)

ReportInv == ItemsStarted /\ SettledItems /\ OpenListed /\ NotQuarantined /\ ResolvedDecided

(* Driver and Session: an open report keeps the Session from running, a host  *)
(* that is down has no driver, and a driver works on an open Turn.            *)
OpenBlocks == rstatus = "open" => pc = "idle" /\ health # "ok"

DownIdle == ~up => pc = "idle"

DriverHasTurn == pc # "idle" => turn = "active"

HostInv == OpenBlocks /\ DownIdle /\ DriverHasTurn

LogInv == CycleInv /\ ReportInv /\ HostInv

-------------------------------------------------------------------------------
(* Rows only go forward: what a step may do with them, but for the rows of a  *)
(* new assistant message.                                                     *)
Forward ==
    \A c \in Calls :
        \/ state'[c] = state[c]
        \/ state[c] \notin {"none", "closed"} /\ state'[c] # "none"

(* A row operation goes forward.                                              *)
LEMMA MoveForward ==
    ASSUME RowsOK, NEW c \in Calls, NEW to, NEW d, MoveRow(c, to, d)
    PROVE  Forward /\ state[c] \notin {"none", "closed"} /\ state'[c] = to
  BY DEF RowsOK, MoveRow, Legal, Transitions, Forward

(* So does closing a call before its handler.                                 *)
LEMMA CloseForward ==
    ASSUME RowsOK, NEW c \in Calls, NEW d, CloseBeforeHandler(c, d)
    PROVE  Forward /\ state'[c] \in {"completed", "closed"}
<1>1. CASE state[c] \in {"completed", "closed"} /\ UNCHANGED <<rowVars, appr>>
  BY <1>1 DEF Forward, rowVars
<1>2. CASE MoveRow(c, "closed", d)
  BY <1>2, MoveForward
<1>3. QED
  BY <1>1, <1>2 DEF CloseBeforeHandler

(* And committing a tool message, which leaves the row closed.                *)
LEMMA AppendForward ==
    ASSUME RowsOK, NEW c \in Calls, NEW r, AppendReply(c, r)
    PROVE  Forward /\ state'[c] = "closed"
<1>1. CASE state[c] = "closed" /\ UNCHANGED rowVars
  BY <1>1 DEF Forward, rowVars
<1>2. CASE MoveRow(c, "closed", disp[c])
  BY <1>2, MoveForward
<1>3. QED
  BY <1>1, <1>2 DEF AppendReply

(* The driver: it moves rows forward, writes the log in three actions only    *)
(* and never touches a report.                                                *)
LEMMA DriverKeeps ==
    ASSUME TypeInv, DriverStep
    PROVE  /\ Forward /\ pc # "idle"
           /\ UNCHANGED <<rstatus, class, resol, health, up>>
           /\ UNCHANGED logVars \/ FinishTurn \/ CommitReply \/ CommitSynthetic
           /\ UNCHANGED turn \/ pc' = "idle"
<1> DEFINE Kept == UNCHANGED <<rstatus, class, resol, health, up>>
<1>0. /\ RowsOK
      /\ pc \in InCall \cup Closing => Cur \in Calls
  BY BatchFacts DEF TypeInv, TypeOK, BatchOpen
<1> USE DEF InCall, Closing, reportVars, sessionVars, logVars, driverVars
<1>1. CASE ContextRefused \/ FinishTurn \/ RequestApproval \/ AdoptApproval
  BY <1>1 DEF ContextRefused, FinishTurn, RequestApproval, AdoptApproval, Goto, GotoAdmit,
     rowVars, Forward
<1>2. CASE DenyAtGate \/ RefuseApproval \/ RefuseEntry
  BY <1>0, <1>2, CloseForward DEF DenyAtGate, RefuseApproval, RefuseEntry, GotoReply
<1>3. CASE ConsumePrecedent
  BY <1>0, <1>3, CloseForward, MoveForward
     DEF ConsumePrecedent, ConsumeAndMarkExecuting, GotoReply, GotoAdmit
<1>4. CASE ApproveHere \/ MarkExecuting
  BY <1>0, <1>4, MoveForward
     DEF ApproveHere, MarkExecuting, ConsumeAndMarkExecuting, GotoAdmit
<1>5. CASE EnterHandler \/ (\E r \in {"ok", "failed", "unknown"} : HandlerReturns(r))
             \/ HandlerTimesOut \/ HandlerCancelled
  BY <1>5 DEF EnterHandler, HandlerReturns, HandlerTimesOut, HandlerCancelled, rowVars,
     Forward
<1>6. CASE RecordCompleted
  BY <1>0, <1>6, MoveForward DEF RecordCompleted
<1>7. CASE CommitFails \/ ClosingFails
  BY <1>7 DEF CommitFails, ClosingFails, GotoClosing, rowVars, Forward
<1>8. CASE CommitReply \/ CommitSynthetic
  BY <1>0, <1>8, AppendForward DEF CommitReply, CommitSynthetic, AppendReply
<1>9. CASE SettleRow
  <2>1. Forward
    <3>1. CASE state[Cur] \in {"prepared", "awaiting"}
      BY <1>0, <1>9, <3>1, CloseForward DEF SettleRow
    <3>2. CASE state[Cur] = "executing"
      BY <1>0, <1>9, <3>2, MoveForward DEF SettleRow
    <3>3. CASE state[Cur] \notin {"prepared", "awaiting", "executing"}
      BY <1>9, <3>3 DEF SettleRow, rowVars, Forward
    <3>4. QED
      BY <3>1, <3>2, <3>3
  <2>2. QED
    BY <1>9, <2>1 DEF SettleRow, Goto
<1>10. QED
  BY <1>1, <1>2, <1>3, <1>4, <1>5, <1>6, <1>7, <1>8, <1>9 DEF DriverStep

(* Users and clocks: only a new assistant message makes rows, and only the    *)
(* start of a Turn and that message write the log.                            *)
LEMMA EnvironmentKeeps ==
    ASSUME TypeInv, EnvironmentStep
    PROVE  /\ UNCHANGED <<rstatus, class, resol, health, up>>
           /\ \/ StartTurn
              \/ \E b \in Batches(Unused) : CommitBatch(b)
              \/ Forward /\ UNCHANGED logVars /\ (UNCHANGED pc \/ pc # "idle")
<1>0. RowsOK
  BY DEF TypeInv, TypeOK
<1> USE DEF reportVars, sessionVars, logVars, driverVars
<1>1. CASE StartTurn \/ \E b \in Batches(Unused) : CommitBatch(b)
  BY <1>1 DEF StartTurn, CommitBatch, Goto
<1>2. CASE (\E f \in Reasons : Interrupt(f))
             \/ \E d \in {"approve", "reject"} : DecideInProcess(d)
  BY <1>2 DEF Interrupt, DecideInProcess, GotoClosing, rowVars, Forward
<1>3. ASSUME NEW c \in Calls, NEW d \in {"approve", "reject"}, NEW s \in BOOLEAN,
             ApiResolve(c, d, s)
      PROVE  Forward /\ UNCHANGED <<rstatus, class, resol, health, up, logVars, pc>>
  BY <1>0, <1>3, MoveForward
     DEF ApiResolve, ResolveRows, ConsumeAndMarkExecuting, Wake
<1>4. CASE RevokeGrant
  BY <1>0, <1>4 DEF RevokeGrant, RevokeRows, Wake, Forward
<1>5. CASE RevokeScope \/ GrantExpires \/ \E c \in Calls : Lapse(c)
  BY <1>5 DEF RevokeScope, GrantExpires, Lapse, rowVars, Forward
<1>6. QED
  BY <1>1, <1>2, <1>3, <1>4, <1>5 DEF EnvironmentStep

(* Crash and recovery: rows go forward, and only decisions write the log.     *)
LEMMA RecoveryKeeps ==
    ASSUME RecoveryStep, ItemsStarted
    PROVE  /\ Forward
           /\ \/ UNCHANGED logVars
              \/ \E c \in Calls, r \in {"ack", "abort"} : DecideItem(c, r)
              \/ AbortReport
<1> USE DEF logVars
<1>1. CASE Crash \/ Corrupt \/ Resume \/ \E obs \in Observations : Restore(obs)
  BY <1>1 DEF Crash, Corrupt, Resume, Restore, RestoreRows, rowVars, Forward
<1>2. CASE (\E c \in Calls : QuarantineItem(c)) \/ QuarantineReport \/ ResumeReport
  BY <1>2 DEF QuarantineItem, QuarantineReport, ResumeReport, rowVars, Forward
<1>3. CASE (\E c \in Calls, r \in {"ack", "abort"} : DecideItem(c, r)) \/ AbortReport
  <2>1. ASSUME NEW S, NEW r, S \subseteq Calls, CloseSettled(S, r),
               \A c \in S : state[c] # "none"
        PROVE  Forward
    BY <2>1 DEF CloseSettled, Forward
  <2>2. Items \subseteq Calls /\ \A c \in Items : state[c] # "none"
    BY DEF Items, ItemsStarted
  <2>3. ASSUME NEW c \in Calls, NEW r, DecideItem(c, r) PROVE Forward
    <3>1. c \in Items /\ CloseSettled({c}, r)
      BY <2>3 DEF DecideItem, MayDecide
    <3>2. QED
      BY <2>1, <2>2, <3>1
  <2>4. CASE AbortReport
    <3>1. CloseSettled(Items, "abort")
      BY <2>4 DEF AbortReport
    <3>2. QED
      BY <2>1, <2>2, <2>4, <3>1
  <2>5. QED
    BY <1>3, <2>3, <2>4
<1>4. QED
  BY <1>1, <1>2, <1>3 DEF RecoveryStep, Decision

-------------------------------------------------------------------------------
(* The unresolved calls as a set: the head goes, the others stay.             *)
LEMMA BatchShrinks ==
    ASSUME LogOK, pending # << >>, DistinctBatch, pending' = Tail(pending)
    PROVE  InBatch' = InBatch \ {Cur} /\ Cur \in InBatch
<1>1. /\ Cur = pending[1] /\ 1 \in DOMAIN pending
      /\ \A i \in DOMAIN Tail(pending) :
           i + 1 \in DOMAIN pending /\ i + 1 # 1 /\ Tail(pending)[i] = pending[i + 1]
  BY BatchFacts
<1>2. \A i \in DOMAIN pending : i # 1 => i - 1 \in DOMAIN Tail(pending) /\ (i - 1) + 1 = i
  <2>1. /\ DOMAIN pending = 1..Len(pending) /\ Len(pending) \in Nat
        /\ Tail(pending) \in Seq(Calls) /\ Len(Tail(pending)) = Len(pending) - 1
    BY LenProperties, HeadTailProperties DEF LogOK
  <2>2. DOMAIN Tail(pending) = 1..Len(Tail(pending))
    BY <2>1, LenProperties
  <2>3. QED
    BY <2>1, <2>2
<1>3. InBatch' = {Tail(pending)[i] : i \in DOMAIN Tail(pending)}
  BY DEF InBatch
<1>4. ASSUME NEW c \in InBatch' PROVE c \in InBatch /\ c # Cur
  <2>1. PICK i \in DOMAIN Tail(pending) : c = Tail(pending)[i]
    BY <1>3, <1>4
  <2>2. c = pending[i + 1] /\ i + 1 \in DOMAIN pending /\ i + 1 # 1
    BY <1>1, <2>1
  <2>3. QED
    BY <1>1, <2>2 DEF InBatch, DistinctBatch
<1>5. ASSUME NEW c \in InBatch, c # Cur PROVE c \in InBatch'
  <2>1. PICK i \in DOMAIN pending : c = pending[i]
    BY DEF InBatch
  <2>2. i # 1
    BY <1>1, <1>5, <2>1
  <2>3. /\ i - 1 \in DOMAIN Tail(pending)
        /\ Tail(pending)[i - 1] = pending[(i - 1) + 1] /\ (i - 1) + 1 = i
    BY <1>1, <1>2, <2>2
  <2>4. QED
    BY <1>3, <2>1, <2>3
<1>6. Cur \in InBatch
  BY <1>1 DEF InBatch
<1>7. QED
  BY <1>4, <1>5, <1>6

(* Steps that leave the log alone.                                            *)
LEMMA CycleSame ==
    ASSUME LogOK, CycleInv, Forward, UNCHANGED logVars
    PROVE  CycleInv'
<1>1. InBatch' = InBatch /\ InBatch \subseteq Calls
  BY DEF logVars, InBatch, LogOK
<1>2. BatchStarted'
  BY <1>1 DEF CycleInv, BatchStarted, Forward
<1>3. CycleClosed'
  BY <1>1 DEF CycleInv, CycleClosed, Forward, logVars
<1>4. QED
  BY <1>2, <1>3 DEF CycleInv

(* The current call gets its message, and its row is closed.                  *)
LEMMA CycleAppend ==
    ASSUME LogOK, pending # << >>, DistinctBatch, CycleInv, Forward,
           pending' = Tail(pending), turn' = "closed" => pending' = << >>,
           NEW r \in {"ok", "error", "lost"}, reply' = [reply EXCEPT ![Cur] = r],
           state'[Cur] = "closed"
    PROVE  CycleInv'
<1>1. InBatch' = InBatch \ {Cur} /\ Cur \in InBatch /\ Cur \in Calls
  BY BatchShrinks, BatchFacts
<1>2. reply'[Cur] = r /\ \A c \in Calls : c # Cur => reply'[c] = reply[c]
  BY <1>1 DEF LogOK
<1>3. InBatch \subseteq Calls
  BY DEF LogOK, InBatch
<1>4. BatchStarted'
  BY <1>1, <1>3 DEF CycleInv, BatchStarted, Forward
<1>5. CycleClosed'
  <2>1. ASSUME NEW c \in Calls, state'[c] = "none" \/ c \in InBatch'
        PROVE  reply'[c] = "none"
    <3>1. c # Cur
      BY <1>1, <2>1
    <3>2. state[c] = "none" \/ c \in InBatch
      BY <1>1, <2>1 DEF Forward
    <3>3. QED
      BY <1>2, <3>1, <3>2 DEF CycleInv, CycleClosed
  <2>2. ASSUME NEW c \in Calls, ~(state'[c] = "none" \/ c \in InBatch')
        PROVE  state'[c] = "closed" /\ reply'[c] # "none"
    <3>1. CASE c = Cur
      BY <1>2, <3>1
    <3>2. CASE c # Cur
      <4>1. c \notin InBatch /\ state[c] # "none"
        BY <1>1, <2>2, <3>2 DEF Forward
      <4>2. state[c] = "closed" /\ reply[c] # "none"
        BY <4>1 DEF CycleInv, CycleClosed
      <4>3. QED
        BY <1>2, <3>2, <4>2 DEF Forward
    <3>3. QED
      BY <3>1, <3>2
  <2>3. QED
    BY <2>1, <2>2 DEF CycleClosed
<1>6. QED
  BY <1>4, <1>5 DEF CycleInv

(* The tool cycle stays closed call by call.                                  *)
LEMMA CycleStep == TypeInv /\ SafeInv /\ LogInv /\ [Next]_vars => CycleInv'
<1> SUFFICES ASSUME TypeInv, SafeInv, LogInv, [Next]_vars PROVE CycleInv'
  OBVIOUS
<1>0. /\ RowsOK /\ LogOK /\ CycleInv /\ DistinctBatch /\ ItemsStarted /\ OpenListed
      /\ pc \in InCall \cup Closing => pending # << >> /\ Cur \in Calls
      /\ pc # "idle" => turn = "active"
  BY BatchFacts DEF TypeInv, TypeOK, BatchOpen, SafeInv, BatchInv, LogInv, ReportInv,
     HostInv, DriverHasTurn
<1>1. ASSUME StartTurn PROVE CycleInv'
  BY <1>0, <1>1 DEF StartTurn, rowVars, CycleInv, CycleClosed, BatchStarted, InBatch
<1>2. ASSUME FinishTurn PROVE CycleInv'
  BY <1>0, <1>2 DEF FinishTurn, rowVars, CycleInv, CycleClosed, BatchStarted, InBatch
<1>3. ASSUME CommitReply PROVE CycleInv'
  <2>1. /\ AppendReply(Cur, IF res = "ok" THEN "ok" ELSE "error")
        /\ pc = "reply"
    BY <1>3 DEF CommitReply
  <2>2. Forward /\ state'[Cur] = "closed" /\ turn' = "active"
    BY <1>0, <2>1, AppendForward DEF AppendReply, InCall
  <2>3. /\ pending # << >> /\ pending' = Tail(pending)
        /\ reply' = [reply EXCEPT ![Cur] = IF res = "ok" THEN "ok" ELSE "error"]
    BY <1>0, <2>1 DEF AppendReply, InCall
  <2>4. QED
    BY <1>0, <2>2, <2>3, CycleAppend
<1>4. ASSUME CommitSynthetic PROVE CycleInv'
  <2>1. AppendReply(Cur, "error") /\ pc = "closemsg"
    BY <1>4 DEF CommitSynthetic
  <2>2. Forward /\ state'[Cur] = "closed" /\ turn' = "active"
    BY <1>0, <2>1, AppendForward DEF AppendReply, Closing
  <2>3. /\ pending # << >> /\ pending' = Tail(pending)
        /\ reply' = [reply EXCEPT ![Cur] = "error"]
    BY <1>0, <2>1 DEF AppendReply, Closing
  <2>4. QED
    BY <1>0, <2>2, <2>3, CycleAppend
<1>5. ASSUME NEW b \in Batches(Unused), CommitBatch(b) PROVE CycleInv'
  <2>1. \A i \in DOMAIN b : b[i] \in Calls /\ state[b[i]] = "none"
    BY BatchUnused
  <2>2. InBatch = {} /\ InBatch' = {b[i] : i \in DOMAIN b} /\ turn' = "active"
    BY <1>0, <1>5 DEF CommitBatch, InBatch
  <2>3. \A c \in Calls : /\ c \in InBatch' => state'[c] # "none" /\ state[c] = "none"
                         /\ c \notin InBatch' => state'[c] = state[c]
                         /\ reply'[c] = reply[c]
    BY <1>5, <2>1, <2>2 DEF CommitBatch
  <2>4. BatchStarted'
    BY <2>1, <2>2, <2>3 DEF BatchStarted
  <2>5. CycleClosed'
    BY <1>0, <2>2, <2>3 DEF CycleInv, CycleClosed
  <2>6. QED
    BY <2>4, <2>5 DEF CycleInv
<1>6. ASSUME NEW c \in Calls, NEW r \in {"ack", "abort"}, DecideItem(c, r) PROVE CycleInv'
  <2>1. Forward
    BY <1>0, <1>6, RecoveryKeeps DEF RecoveryStep, Decision
  <2>2. /\ state'[c] = "closed"
        /\ turn' = turn \/ pending' = << >>
    <3>1. state'[c] = "closed"
      BY <1>0, <1>6 DEF DecideItem, CloseSettled, RowsOK
    <3>2. CASE LastAbort(c, r)
      <4>1. pending \in {<< >>, <<c>>} /\ AppendLost(c)
        BY <1>6, <3>2 DEF DecideItem, MayDecide
      <4>2. CASE pending = << >>
        BY <3>1, <4>1, <4>2 DEF AppendLost, InBatch
      <4>3. CASE pending = <<c>>
        <5>1. c \in InBatch /\ Tail(pending) = << >>
          BY <4>3 DEF InBatch
        <5>2. QED
          BY <3>1, <4>1, <5>1 DEF AppendLost
      <4>4. QED
        BY <3>1, <4>1, <4>2, <4>3
    <3>3. CASE ~LastAbort(c, r)
      BY <1>6, <3>1, <3>3 DEF DecideItem
    <3>4. QED
      BY <3>2, <3>3
  <2>3. CASE c \in InBatch
    <3>1. /\ pending # << >> /\ Cur = c /\ pending' = Tail(pending)
          /\ reply' = [reply EXCEPT ![Cur] = "lost"]
      BY <1>6, <2>3, InBatchFacts DEF DecideItem, AppendLost, MayDecide
    <3>2. turn' = "closed" => pending' = << >>
      BY <1>0, <2>2, <3>1 DEF CycleInv, CycleClosed
    <3>3. QED
      BY <1>0, <2>1, <2>2, <3>1, <3>2, CycleAppend
  <2>4. CASE c \notin InBatch
    <3>1. UNCHANGED <<pending, reply>>
      BY <1>6, <2>4 DEF DecideItem, AppendLost
    <3>2. InBatch' = InBatch
      BY <3>1 DEF InBatch
    <3>3. BatchStarted'
      BY <1>0, <2>1, <3>2 DEF CycleInv, BatchStarted, Forward, LogOK, InBatch
    <3>4. turn' = "closed" => pending' = << >>
      BY <1>0, <2>2, <3>1 DEF CycleInv, CycleClosed
    <3>5. CycleClosed'
      BY <1>0, <2>1, <3>1, <3>2, <3>4 DEF CycleInv, CycleClosed, Forward
    <3>6. QED
      BY <3>3, <3>5 DEF CycleInv
  <2>5. QED
    BY <2>3, <2>4
<1>7. ASSUME AbortReport PROVE CycleInv'
  <2>1. /\ InBatch' = {} /\ pending' = << >>
        /\ \A c \in Calls : reply'[c] = IF c \in InBatch THEN "lost" ELSE reply[c]
        /\ \A c \in Calls : state'[c] = IF c \in Items /\ state[c] # "closed"
                                        THEN "closed" ELSE state[c]
        /\ rstatus = "open"
    BY <1>7 DEF AbortReport, Answer, CloseSettled, InBatch, Answering, MayAbort
  <2>2. \A c \in Calls : state[c] \notin {"none", "closed"} => c \in Items
    BY <1>0, <2>1 DEF OpenListed, Items
  <2>3. \A c \in Calls : c \in InBatch => state'[c] = "closed"
    BY <1>0, <2>1, <2>2 DEF CycleInv, BatchStarted
  <2>4. \A c \in Calls : state[c] = "none" => c \notin Items
    BY <1>0 DEF ItemsStarted
  <2>5. CycleClosed'
    BY <1>0, <2>1, <2>3, <2>4 DEF CycleInv, CycleClosed, BatchStarted
  <2>6. QED
    BY <2>1, <2>5 DEF CycleInv, BatchStarted
<1>8. CASE DriverStep
  BY <1>0, <1>2, <1>3, <1>4, <1>8, DriverKeeps, CycleSame
<1>9. CASE EnvironmentStep
  BY <1>0, <1>1, <1>5, <1>9, EnvironmentKeeps, CycleSame
<1>10. CASE RecoveryStep
  BY <1>0, <1>6, <1>7, <1>10, RecoveryKeeps, CycleSame
<1>11. CASE UNCHANGED vars
  BY <1>0, <1>11, CycleSame DEF vars, rowVars, Forward
<1>12. QED
  BY <1>8, <1>9, <1>10, <1>11 DEF Next

-------------------------------------------------------------------------------
(* Steps that leave the report alone.                                         *)
LEMMA ReportSame ==
    ASSUME ReportInv, Forward, UNCHANGED <<rstatus, class, resol>>
    PROVE  ReportInv'
<1>1. Items' = Items /\ \A c \in Calls : Decided(c)' <=> Decided(c)
  BY DEF Items, Decided
<1>2. ItemsStarted' /\ SettledItems' /\ OpenListed'
  BY <1>1 DEF ReportInv, ItemsStarted, SettledItems, OpenListed, Forward, Items
<1>3. NotQuarantined' /\ ResolvedDecided'
  BY <1>1 DEF ReportInv, NotQuarantined, ResolvedDecided, Items
<1>4. QED
  BY <1>2, <1>3 DEF ReportInv

(* Settling executions closes them and leaves the others as they are.         *)
LEMMA SettledRows ==
    ASSUME NEW S, NEW r, CloseSettled(S, r), NEW c \in Calls
    PROVE  state'[c] = IF c \in S THEN "closed" ELSE state[c]
  BY DEF CloseSettled

(* Whatever class an item has, a report-level abort decides it.               *)
LEMMA ForcedDecides ==
    ASSUME NEW k, NEW p PROVE ForcedChoice(k, p) \in {"ack", "abort"}
  BY DEF ForcedChoice

(* Reports list what is in flight, and settle what they decide.               *)
LEMMA ReportStep == TypeInv /\ LogInv /\ [Next]_vars => ReportInv'
<1> SUFFICES ASSUME TypeInv, LogInv, [Next]_vars PROVE ReportInv'
  OBVIOUS
<1>0. /\ RowsOK /\ ReportOK /\ ReportInv /\ OpenBlocks
      /\ ItemsStarted /\ SettledItems /\ OpenListed /\ NotQuarantined /\ ResolvedDecided
  BY DEF TypeInv, TypeOK, LogInv, ReportInv, HostInv
<1>1. ASSUME NEW b \in Batches(Unused), CommitBatch(b) PROVE ReportInv'
  <2>1. \A i \in DOMAIN b : b[i] \in Calls /\ state[b[i]] = "none"
    BY BatchUnused
  <2>2. UNCHANGED <<rstatus, class, resol>> /\ rstatus # "open"
    BY <1>0, <1>1 DEF CommitBatch, reportVars, OpenBlocks
  <2>3. \A c \in Calls : state[c] # "none" => state'[c] = state[c]
    BY <1>1, <2>1 DEF CommitBatch
  <2>4. QED
    BY <1>0, <2>2, <2>3 DEF ReportInv, ItemsStarted, SettledItems, OpenListed,
       NotQuarantined, ResolvedDecided, Items, Decided
<1>2. ASSUME NEW obs \in Observations, Restore(obs) PROVE ReportInv'
  <2>1. UNCHANGED state
    BY <1>2 DEF Restore, RestoreRows, rowVars
  <2>2. CASE UNCHANGED <<rstatus, class, resol>>
    BY <1>0, <2>1, <2>2, ReportSame DEF Forward
  <2>3. CASE OpenReport(obs)
    <3>1. /\ rstatus' = "open" /\ \A c \in Calls : resol'[c] = "none"
          /\ \A c \in Calls : c \notin Candidates => class'[c] = "none"
      BY <2>3 DEF OpenReport
    <3>2. \A c \in Candidates : class'[c] # "none"
      <4>1. SUFFICES ASSUME NEW c \in Candidates PROVE class'[c] # "none"
        OBVIOUS
      <4>2. c \in Calls /\ obs[c] \in ObservedClasses
        BY <1>2 DEF Candidates, Observations
      <4>3. class'[c] = Classify(state[c], disp[c], Policy[c], obs[c])
        BY <2>3, <4>2 DEF OpenReport
      <4>4. QED
        BY <4>2, <4>3, ClassifyTypes DEF Classes
    <3>3. /\ \A c \in Candidates : c \in Calls /\ state[c] # "none"
          /\ \A c \in Calls : state[c] \notin {"none", "closed"} => c \in Candidates
      BY DEF Candidates
    <3>4. ItemsStarted' /\ OpenListed'
      BY <2>1, <3>1, <3>2, <3>3 DEF ItemsStarted, Items, OpenListed
    <3>5. SettledItems' /\ NotQuarantined' /\ ResolvedDecided'
      BY <3>1 DEF SettledItems, NotQuarantined, ResolvedDecided, Decided
    <3>6. QED
      BY <3>4, <3>5 DEF ReportInv
  <2>4. QED
    BY <1>2, <2>2, <2>3 DEF Restore, RestoreRows
<1>3. ASSUME NEW c \in Calls, QuarantineItem(c) PROVE ReportInv'
  <2>1. /\ UNCHANGED <<state, class>> /\ rstatus' = "quarantined"
        /\ resol' = [resol EXCEPT ![c] = "quarantine"]
    BY <1>3 DEF QuarantineItem, Answer, rowVars
  <2>2. \A e \in Calls : Decided(e)' => Decided(e)
    BY <1>0, <2>1 DEF Decided, ReportOK
  <2>3. QED
    BY <1>0, <2>1, <2>2 DEF ReportInv, ItemsStarted, SettledItems, OpenListed,
       NotQuarantined, ResolvedDecided, Items
<1>4. ASSUME QuarantineReport PROVE ReportInv'
  BY <1>0, <1>4 DEF QuarantineReport, Answer, rowVars, ReportInv, ItemsStarted,
     SettledItems, OpenListed, NotQuarantined, ResolvedDecided, Items, Decided
<1>5. ASSUME NEW c \in Calls, NEW r \in {"ack", "abort"}, DecideItem(c, r) PROVE ReportInv'
  <2>1. /\ UNCHANGED class /\ resol' = [resol EXCEPT ![c] = r] /\ rstatus = "open"
        /\ rstatus' = IF r = "abort" /\ Undecided \subseteq {c} THEN "resolved" ELSE "open"
        /\ c \in Items
    BY <1>5 DEF DecideItem, Answer, Answering, MayDecide, LastAbort
  <2>2. \A e \in Calls : state'[e] = IF e = c THEN "closed" ELSE state[e]
    <3>1. CloseSettled({c}, r)
      BY <1>5 DEF DecideItem
    <3>2. QED
      BY <3>1, SettledRows
  <2>3. \A e \in Calls : e # c => resol'[e] = resol[e]
    BY <1>0, <2>1 DEF ReportOK
  <2>4. resol'[c] = r
    BY <1>0, <2>1 DEF ReportOK
  <2>5. ItemsStarted' /\ SettledItems' /\ OpenListed'
    BY <1>0, <2>1, <2>2, <2>3 DEF ItemsStarted, SettledItems, OpenListed, Items, Decided
  <2>6. NotQuarantined'
    BY <1>0, <2>1, <2>3, <2>4 DEF NotQuarantined
  <2>7. ResolvedDecided'
    <3>1. SUFFICES ASSUME rstatus' = "resolved", NEW e \in Items' PROVE Decided(e)'
      BY DEF ResolvedDecided
    <3>2. e \in Items /\ e \in Calls /\ (e # c => e \notin Undecided)
      BY <2>1, <3>1 DEF Items
    <3>3. resol'[e] \in {"ack", "abort"}
      BY <1>0, <2>1, <2>3, <2>4, <3>2 DEF Undecided, NotQuarantined, ReportOK
    <3>4. QED
      BY <3>3 DEF Decided
  <2>8. QED
    BY <2>5, <2>6, <2>7 DEF ReportInv
<1>6. ASSUME AbortReport PROVE ReportInv'
  <2>1. /\ UNCHANGED class /\ rstatus = "open" /\ rstatus' = "resolved"
        /\ \A c \in Calls : resol'[c] = IF c \in Undecided
                                        THEN ForcedChoice(class[c], Policy[c]) ELSE resol[c]
    BY <1>6 DEF AbortReport, Answer, Answering, MayAbort
  <2>2. \A c \in Calls : state'[c] = IF c \in Items THEN "closed" ELSE state[c]
    <3>1. CloseSettled(Items, "abort")
      BY <1>6 DEF AbortReport
    <3>2. QED
      BY <3>1, SettledRows
  <2>3. \A c \in Items : resol'[c] \in {"ack", "abort"}
    <3>1. SUFFICES ASSUME NEW c \in Items PROVE resol'[c] \in {"ack", "abort"}
      OBVIOUS
    <3>2. CASE c \in Undecided
      BY <2>1, <3>2, ForcedDecides DEF Items
    <3>3. CASE c \notin Undecided
      BY <1>0, <2>1, <3>3 DEF Items, Undecided, NotQuarantined, ReportOK
    <3>4. QED
      BY <3>2, <3>3
  <2>4. Items' = Items
    BY <2>1 DEF Items
  <2>5. ItemsStarted' /\ OpenListed' /\ NotQuarantined' /\ ResolvedDecided'
    <3>1. \A c \in Calls : c \notin Items => resol'[c] = resol[c]
      BY <2>1 DEF Undecided
    <3>2. QED
      BY <1>0, <2>1, <2>2, <2>3, <2>4, <3>1
         DEF ItemsStarted, OpenListed, NotQuarantined, ResolvedDecided, Items, Decided
  <2>6. SettledItems'
    BY <1>0, <2>1, <2>2 DEF SettledItems, Decided, Undecided
  <2>7. QED
    BY <2>5, <2>6 DEF ReportInv
<1>7. ASSUME ResumeReport PROVE ReportInv'
  <2>1. /\ UNCHANGED <<state, class, resol>> /\ rstatus = "open" /\ rstatus' = "resolved"
        /\ Undecided = {}
    BY <1>7 DEF ResumeReport, Answer, rowVars, Answering, MayResume
  <2>2. \A c \in Items : resol[c] \in {"ack", "abort"}
    BY <1>0, <2>1 DEF Undecided, Items, NotQuarantined, ReportOK
  <2>3. QED
    BY <1>0, <2>1, <2>2 DEF ReportInv, ItemsStarted, SettledItems, OpenListed,
       NotQuarantined, ResolvedDecided, Items, Decided
<1>8. CASE DriverStep
  BY <1>0, <1>8, DriverKeeps, ReportSame
<1>9. CASE EnvironmentStep
  <2>1. CASE StartTurn
    BY <1>0, <2>1, ReportSame DEF StartTurn, rowVars, reportVars, Forward
  <2>2. QED
    BY <1>0, <1>1, <1>9, <2>1, EnvironmentKeeps, ReportSame
<1>10. CASE Crash \/ Corrupt \/ Resume
  BY <1>0, <1>10, ReportSame DEF Crash, Corrupt, Resume, rowVars, reportVars, Forward
<1>11. CASE RecoveryStep
  BY <1>2, <1>3, <1>4, <1>5, <1>6, <1>7, <1>10, <1>11 DEF RecoveryStep, Decision
<1>12. CASE UNCHANGED vars
  BY <1>0, <1>12, ReportSame DEF vars, rowVars, reportVars, Forward
<1>13. QED
  BY <1>8, <1>9, <1>11, <1>12 DEF Next

(* An open report and a host that is down leave no driver at work.            *)
LEMMA HostStep == TypeInv /\ LogInv /\ [Next]_vars => HostInv'
<1> SUFFICES ASSUME TypeInv, LogInv, [Next]_vars PROVE HostInv'
  OBVIOUS
<1>0. HostInv /\ OpenBlocks /\ DownIdle /\ DriverHasTurn /\ ItemsStarted
  BY DEF LogInv, HostInv, ReportInv
<1> USE DEF HostInv, OpenBlocks, DownIdle, DriverHasTurn
<1>1. CASE DriverStep
  BY <1>0, <1>1, DriverKeeps
<1>2. CASE EnvironmentStep
  <2>1. CASE StartTurn
    BY <1>0, <2>1 DEF StartTurn, Goto, reportVars, sessionVars
  <2>2. CASE \E b \in Batches(Unused) : CommitBatch(b)
    BY <1>0, <2>2 DEF CommitBatch, Goto, reportVars, sessionVars
  <2>3. QED
    BY <1>0, <1>2, <2>1, <2>2, EnvironmentKeeps DEF logVars
<1>3. CASE Crash \/ Corrupt \/ Resume
  BY <1>0, <1>3 DEF Crash, Corrupt, Resume, Goto, reportVars, sessionVars, logVars,
     driverVars
<1>4. ASSUME NEW obs \in Observations, Restore(obs) PROVE HostInv'
  BY <1>0, <1>4 DEF Restore, RestoreRows, OpenReport, logVars
<1>5. CASE Decision
  <2>1. CASE (\E c \in Calls : QuarantineItem(c)) \/ QuarantineReport \/ AbortReport
    BY <1>0, <2>1 DEF QuarantineItem, QuarantineReport, AbortReport, Answer,
       driverVars, logVars, Answering, MayAbort
  <2>2. ASSUME NEW c \in Calls, NEW r, DecideItem(c, r) PROVE HostInv'
    <3>1. /\ UNCHANGED <<up, pc>> /\ pc = "idle" /\ up
          /\ rstatus' = "open" => health' = "needs_recovery"
      BY <2>2 DEF DecideItem, Answer, HealthFor, driverVars, Answering, MayDecide
    <3>2. QED
      BY <3>1
  <2>3. CASE ResumeReport
    BY <1>0, <2>3 DEF ResumeReport, Answer, logVars, Answering, MayResume
  <2>4. QED
    BY <1>5, <2>1, <2>2, <2>3 DEF Decision
<1>6. CASE UNCHANGED vars
  BY <1>0, <1>6 DEF vars, reportVars, sessionVars, logVars, driverVars
<1>7. QED
  BY <1>1, <1>2, <1>3, <1>4, <1>5, <1>6 DEF Next, RecoveryStep

(* The invariant of log, report and host.                                     *)
THEOREM LogInvariant == Spec => []LogInv
<1>1. Init => LogInv
  BY DEF Init, LogInv, CycleInv, CycleClosed, BatchStarted, InBatch, ReportInv,
     ItemsStarted, SettledItems, OpenListed, NotQuarantined, ResolvedDecided, Items,
     Decided, HostInv, OpenBlocks, DownIdle, DriverHasTurn
<1>2. TypeInv /\ SafeInv /\ LogInv /\ [Next]_vars => LogInv'
  BY CycleStep, ReportStep, HostStep DEF LogInv
<1>3. QED
  BY <1>1, <1>2, TypeInvariant, SafeInvariant, PTL DEF Spec

(* A call outside the unresolved ones has a closed row and one message, and a *)
(* closed Turn leaves no unresolved call behind (runtime/tool_cycle.py        *)
(* execute_call, runtime/agent.py _close_unresolved, application/recovery.py  *)
(* decide).                                                                   *)
THEOREM CycleCloses == Spec => []CycleClosed
<1>1. LogInv => CycleClosed
  BY DEF LogInv, CycleInv
<1>2. QED
  BY <1>1, LogInvariant, PTL

(* A resolved report has every item decided and every execution it listed     *)
(* closed (application/recovery.py decide).                                   *)
THEOREM ReportSettles == Spec => []ResolvedMeansSettled
<1>1. LogInv => ResolvedMeansSettled
  BY DEF LogInv, ReportInv, ResolvedMeansSettled, ResolvedDecided, SettledItems, Items
<1>2. QED
  BY <1>1, LogInvariant, PTL

-------------------------------------------------------------------------------
(* The ways out of a report.  When it is open on a Turn that is over, it was  *)
(* made so, and lists closed executions of unknown outcome only: each takes   *)
(* an acknowledgement, or its files are untouched.                            *)
Acknowledgeable(c) == "ack" \in Allowed(class[c], Policy[c])

OverListed ==
    rstatus = "open" /\ turn = "closed" =>
        \A c \in Items : Acknowledgeable(c) \/ FilesUntouched(c)

LEMMA OverListedStep == TypeInv /\ LogInv /\ OverListed /\ [Next]_vars => OverListed'
<1> SUFFICES ASSUME TypeInv, LogInv, OverListed, [Next]_vars,
                    rstatus' = "open", turn' = "closed"
             PROVE  (\A c \in Items : Acknowledgeable(c) \/ FilesUntouched(c))'
  BY DEF OverListed
<1>0. /\ OpenBlocks /\ CycleClosed /\ ItemsStarted
  BY DEF LogInv, HostInv, CycleInv, ReportInv
<1>1. CASE UNCHANGED <<rstatus, turn, class>>
  BY <1>1 DEF OverListed, Items, Acknowledgeable, FilesUntouched
<1>2. CASE DriverStep
  BY <1>0, <1>2, DriverKeeps DEF OpenBlocks
<1>3. CASE EnvironmentStep
  BY <1>0, <1>1, <1>3, EnvironmentKeeps
     DEF OpenBlocks, StartTurn, CommitBatch, logVars, reportVars
<1>4. ASSUME NEW obs \in Observations, OpenReport(obs), turn = "closed", NEW c \in Calls,
             class'[c] # "none"
      PROVE  (Acknowledgeable(c) \/ FilesUntouched(c))'
  <2>1. c \in Candidates /\ class'[c] = Classify(state[c], disp[c], Policy[c], obs[c])
    BY <1>4 DEF OpenReport
  <2>2. c \notin InBatch
    BY <1>0, <1>4 DEF CycleClosed, InBatch
  <2>3. disp[c] = "unknown"
    BY <1>0, <2>1, <2>2 DEF CycleClosed, Candidates
  <2>4. class'[c] = IF Policy[c] = "requires_reconciliation" THEN obs[c] ELSE "outcome_unknown"
    BY <2>1, <2>3 DEF Classify
  <2>5. obs[c] \in ObservedClasses
    BY DEF Observations
  <2>6. QED
    BY <2>4, <2>5 DEF ObservedClasses, Classes, Acknowledgeable, Allowed, FilesUntouched
<1>5. ASSUME NEW obs \in Observations, Restore(obs) PROVE UNCHANGED turn
        /\ (UNCHANGED <<rstatus, class>> \/ OpenReport(obs))
  BY <1>5 DEF Restore, RestoreRows, logVars
<1>6. CASE \E obs \in Observations : Restore(obs)
  BY <1>1, <1>4, <1>5, <1>6 DEF Items
<1>7. CASE Crash \/ Corrupt \/ Resume
  BY <1>1, <1>7 DEF Crash, Corrupt, Resume, logVars, reportVars
<1>8. CASE Decision
  <2>1. CASE (\E c \in Calls : QuarantineItem(c)) \/ QuarantineReport \/ AbortReport
               \/ ResumeReport
    BY <2>1 DEF QuarantineItem, QuarantineReport, AbortReport, ResumeReport, Answer
  <2>2. ASSUME NEW c \in Calls, NEW r \in {"ack", "abort"}, DecideItem(c, r)
        PROVE  UNCHANGED <<rstatus, turn, class>>
    BY <2>2 DEF DecideItem, Answer, Answering, MayDecide
  <2>3. QED
    BY <1>1, <1>8, <2>1, <2>2 DEF Decision
<1>9. CASE UNCHANGED vars
  BY <1>1, <1>9 DEF vars, logVars, reportVars
<1>10. QED
  BY <1>2, <1>3, <1>6, <1>7, <1>8, <1>9 DEF Next, RecoveryStep

(* An open report never waits for something that is not among the user's      *)
(* choices, with the one exception of ReportHasWayOut (application/recovery.py *)
(* decide, core/recovery.py allowed_resolutions).                             *)
THEOREM ReportAnswerable == Spec => []ReportHasWayOut
<1>1. Init => OverListed
  BY DEF Init, OverListed
<1>2. TypeInv /\ LogInv /\ OverListed => ReportHasWayOut
  <2>1. SUFFICES ASSUME TypeInv, LogInv, OverListed, up, rstatus = "open", ~corrupt,
                        turn # "active", Undecided # {}
                 PROVE  \/ \E c \in Undecided : MayDecide(c, "ack")
                        \/ turn = "closed" /\ \A c \in Undecided : FilesUntouched(c)
    <3>1. TypeInv /\ LogInv /\ up /\ rstatus = "open" => Answering
      BY DEF LogInv, HostInv, OpenBlocks, Answering
    <3>2. QED
      BY <3>1 DEF ReportHasWayOut, MayAbort, MayResume
  <2>2. Answering
    BY <2>1 DEF LogInv, HostInv, OpenBlocks, Answering
  <2>3. turn = "closed"
    BY <2>1 DEF LogInv, HostInv, OpenBlocks, TypeInv, TypeOK, LogOK
  <2>4. InBatch = {}
    BY <2>1, <2>3 DEF LogInv, CycleInv, CycleClosed, InBatch
  <2>5. ASSUME NEW c \in Undecided, Acknowledgeable(c) PROVE MayDecide(c, "ack")
    BY <2>2, <2>4, <2>5 DEF MayDecide, Undecided, Acknowledgeable, LastAbort
  <2>6. QED
    BY <2>1, <2>3, <2>5 DEF OverListed, Undecided
<1>3. QED
  BY <1>1, <1>2, OverListedStep, TypeInvariant, LogInvariant, PTL DEF Spec

-------------------------------------------------------------------------------
(* Calls one by one.  The verdicts that are honest about what happened so far *)
(* are those of module ToolCall.                                              *)
Verdicts(c) == Call(c)!Honest

(* What the rows of a call say of it: an effect and an entered handler go     *)
(* together, a call not proposed was not asked about, one that waits for its  *)
(* approval was not started, what is recorded is honest, and so is the class  *)
(* under which an open report lists a handler whose effect cannot be told.    *)
RowHonest(c) ==
    /\ entered[c] = 0 <=> effect[c] = "none"
    /\ state[c] = "none" => appr[c] = "none"
    /\ appr[c] = "pending" => state[c] \notin {"executing", "completed"}
    /\ state[c] = "completed" => disp[c] \in Verdicts(c)
    /\ disp[c] = "succeeded" => effect[c] = "done"

RowsHonest == \A c \in Calls : RowHonest(c)

LostKnown ==
    rstatus = "open" =>
        \A c \in Calls : state[c] # "closed" /\ effect[c] = "started"
                            /\ Policy[c] = "outcome_unknown" =>
            class[c] = "outcome_unknown" \/ disp[c] = "unknown"

(* Where the driver stands: the calls ahead of it were not asked about, and   *)
(* are closed only by the revocation of their grant; and in the handler and   *)
(* after it the current call is where the driver takes it to be.              *)
Waiting(c) ==
    /\ appr[c] = "none"
    /\ \/ state[c] \in {"prepared", "awaiting"}
       \/ state[c] = "closed" /\ c \in GrantCalls /\ grant = "revoked"

Ahead == {c \in InBatch : \E i \in DOMAIN pending : pending[i] = c /\ (i # 1 \/ pc = "loop")}

AheadUnasked == pc \in InCall => \A c \in Ahead : Waiting(c)

InHandler ==
    /\ pc \in {"run", "record"} => state[Cur] = "executing"
    /\ pc = "run" => effect[Cur] = "started"
    /\ pc = "record" => \A c \in Calls : c = Cur => Recorded(res) \in Verdicts(c)
    /\ pc = "reply" /\ res = "ok" => state[Cur] = "completed" /\ disp[Cur] = "succeeded"
    /\ pc \in {"reply", "closemsg"} => state[Cur] \in {"completed", "closed"}

CallInv == RowsHonest /\ LostKnown /\ AheadUnasked /\ InHandler

(* What a step may do with a call.                                            *)
SameResult(c) == disp'[c] = disp[c] /\ entered'[c] = entered[c] /\ effect'[c] = effect[c]

KeepsConsent(c) ==
    \/ appr'[c] = appr[c]
    \/ appr[c] = "pending" /\ appr'[c] \in {"denied", "expired"}

Untouched(c) ==
    state'[c] = state[c] /\ ver'[c] = ver[c] /\ appr'[c] = appr[c] /\ SameResult(c)

Rests(c) ==
    /\ state'[c] = state[c] /\ KeepsConsent(c) /\ SameResult(c)
    /\ ver'[c] # ver[c] => state[c] # "closed"

Proposed(c) ==
    /\ state[c] = "none" /\ state'[c] \in {"prepared", "awaiting"}
    /\ appr'[c] = appr[c] /\ SameResult(c)

Asked(c) ==
    /\ state[c] \in {"prepared", "awaiting"} /\ state'[c] = state[c]
    /\ appr[c] = "none" /\ appr'[c] \in {"pending", "granted"} /\ SameResult(c)

Started(c) ==
    /\ state[c] \in {"prepared", "awaiting"} /\ state'[c] = "executing"
    /\ appr'[c] = "approved" \/ (appr'[c] = "none" /\ appr[c] = "none")
    /\ SameResult(c)

Entered(c) ==
    /\ state[c] = "executing" /\ c \notin DeniedCalls
    /\ c \in ApprovalCalls => appr[c] = "approved"
    /\ entered[c] = 0 /\ entered'[c] = 1 /\ effect'[c] = "started"
    /\ state'[c] = state[c] /\ appr'[c] = appr[c] /\ disp'[c] = disp[c]

Returned(c) ==
    /\ state[c] = "executing" /\ effect[c] = "started"
    /\ effect'[c] \in {"started", "failed", "done"} /\ entered'[c] = entered[c]
    /\ state'[c] = state[c] /\ appr'[c] = appr[c] /\ disp'[c] = disp[c]

ResultRecorded(c) ==
    /\ state[c] = "executing" /\ state'[c] = "completed" /\ disp'[c] \in Verdicts(c)
    /\ appr'[c] = appr[c] /\ entered'[c] = entered[c] /\ effect'[c] = effect[c]

Closed(c) ==
    /\ state[c] \notin {"none", "closed"} /\ state'[c] = "closed"
    /\ disp'[c] \in Verdicts(c) /\ (disp[c] = "unknown" => disp'[c] = "unknown")
    /\ KeepsConsent(c) /\ entered'[c] = entered[c] /\ effect'[c] = effect[c]

Fate(c) ==
    \/ Rests(c) \/ Proposed(c) \/ Asked(c) \/ Started(c) \/ Entered(c)
    \/ Returned(c) \/ ResultRecorded(c) \/ Closed(c)

-------------------------------------------------------------------------------
(* Which verdicts are honest.                                                 *)
LEMMA VerdictFacts ==
    ASSUME WorldOK, NEW c \in Calls
    PROVE  /\ "unknown" \in Verdicts(c)
           /\ effect[c] = "none" => "denied" \in Verdicts(c)
           /\ effect[c] # "started" \/ Policy[c] # "outcome_unknown" =>
                "cancelled" \in Verdicts(c) /\ "interrupted" \in Verdicts(c)
           /\ "succeeded" \in Verdicts(c) <=> effect[c] = "done"
           /\ effect[c] = "failed" => "failed" \in Verdicts(c)
           /\ effect[c] = "started" /\ Policy[c] # "outcome_unknown" => "failed" \in Verdicts(c)
  BY DEF WorldOK, Verdicts, Call!Honest

(* They depend on the effect alone.                                           *)
LEMMA VerdictSame ==
    ASSUME NEW c \in Calls, effect'[c] = effect[c]
    PROVE  Verdicts(c)' = Verdicts(c)
  BY DEF Verdicts, Call!Honest

(* A row operation, seen from its call and from the others.                   *)
LEMMA MoveFacts ==
    ASSUME RowsOK, NEW c \in Calls, NEW to, NEW d, MoveRow(c, to, d)
    PROVE  /\ state'[c] = to /\ disp'[c] = d /\ Legal(state[c], to)
           /\ state[c] \notin {"none", "closed"}
           /\ \A e \in Calls : e # c =>
                state'[e] = state[e] /\ disp'[e] = disp[e] /\ ver'[e] = ver[e]
  BY DEF RowsOK, MoveRow, Legal, Transitions

(* Closing a call that did not reach its handler.                             *)
LEMMA CloseFate ==
    ASSUME RowsOK, ApprovalsOK, WorldOK, OpenPending, NEW c \in Calls, RowHonest(c),
           NEW d \in {"denied", "cancelled"}, CloseBeforeHandler(c, d),
           state[c] \notin {"completed", "closed"} => entered[c] = 0,
           UNCHANGED <<entered, effect>>
    PROVE  Fate(c)
<1>1. CASE UNCHANGED <<rowVars, appr>>
  BY <1>1 DEF rowVars, Fate, Rests, KeepsConsent, SameResult
<1>2. CASE /\ state[c] \notin {"completed", "closed"} /\ MoveRow(c, "closed", d)
           /\ appr' = IF appr[c] = "pending" THEN [appr EXCEPT ![c] = Refusal(c)] ELSE appr
  <2>1. d \in Verdicts(c) /\ disp[c] # "unknown"
    BY <1>2, VerdictFacts DEF RowHonest, OpenPending
  <2>2. KeepsConsent(c)
    BY <1>2 DEF ApprovalsOK, KeepsConsent, Refusal
  <2>3. Closed(c)
    BY <1>2, <2>1, <2>2, MoveFacts DEF Closed
  <2>4. QED
    BY <2>3 DEF Fate
<1>3. QED
  BY <1>1, <1>2 DEF CloseBeforeHandler

(* Starting a call on its approval.                                           *)
LEMMA ConsumeFate ==
    ASSUME RowsOK, ApprovalsOK, NEW c \in Calls, ConsumeAndMarkExecuting(c),
           UNCHANGED <<entered, effect>>
    PROVE  Started(c)
<1>1. state[c] \in {"prepared", "awaiting"}
  BY DEF ConsumeAndMarkExecuting, MoveRow, Legal, Transitions
<1>2. appr'[c] = "approved"
  BY DEF ConsumeAndMarkExecuting, ApprovalsOK
<1>3. QED
  BY <1>1, <1>2, MoveFacts DEF ConsumeAndMarkExecuting, Started, SameResult

(* Committing the message of a call whose result is recorded or that is       *)
(* closed.                                                                    *)
LEMMA AppendFate ==
    ASSUME RowsOK, NEW c \in Calls, RowHonest(c), NEW r, AppendReply(c, r),
           state[c] \in {"completed", "closed"}, UNCHANGED <<appr, entered, effect>>
    PROVE  Fate(c)
<1>1. CASE UNCHANGED rowVars
  BY <1>1 DEF rowVars, Fate, Rests, KeepsConsent, SameResult
<1>2. CASE state[c] # "closed" /\ MoveRow(c, "closed", disp[c])
  <2>1. Closed(c)
    BY <1>2, MoveFacts DEF RowHonest, Closed, KeepsConsent
  <2>2. QED
    BY <2>1 DEF Fate
<1>3. QED
  BY <1>1, <1>2 DEF AppendReply

(* Settling an item of an open report.                                        *)
LEMMA SettleFate ==
    ASSUME RowsOK, WorldOK, RowInv, RowsHonest, LostKnown, ItemsStarted, rstatus = "open",
           NEW S \in SUBSET Items, NEW r \in {"ack", "abort"}, CloseSettled(S, r),
           UNCHANGED <<appr, entered, effect>>, NEW c \in Calls
    PROVE  Fate(c)
<1>1. CASE c \notin S \/ state[c] = "closed"
  <2>1. state'[c] = state[c] /\ disp'[c] = disp[c] /\ ver'[c] = ver[c]
    BY <1>1 DEF CloseSettled
  <2>2. QED
    BY <2>1 DEF Fate, Rests, KeepsConsent, SameResult
<1>2. CASE c \in S /\ state[c] # "closed"
  <2>1. /\ state'[c] = "closed" /\ disp'[c] = Settled(c, r) /\ state[c] # "none"
    BY <1>2 DEF CloseSettled, ItemsStarted
  <2>2. Settled(c, r) \in Verdicts(c)
    BY <1>2, VerdictFacts DEF Settled, LostKnown
  <2>3. disp[c] = "unknown" => Settled(c, r) = "unknown"
    BY DEF Settled
  <2>4. Closed(c)
    BY <1>2, <2>1, <2>2, <2>3 DEF Closed, KeepsConsent
  <2>5. QED
    BY <2>4 DEF Fate
<1>3. QED
  BY <1>1, <1>2

-------------------------------------------------------------------------------
(* The driver works on the current call only.                                 *)
LEMMA DriverTouches ==
    ASSUME TypeInv, DriverStep, NEW e \in Calls
    PROVE  /\ UNCHANGED grant
           /\ Untouched(e) \/ (e = Cur /\ pc \in InCall \cup Closing)
<1>0. /\ RowsOK /\ ApprovalsOK /\ WorldOK
      /\ pc \in InCall \cup Closing => Cur \in Calls
  BY BatchFacts DEF TypeInv, TypeOK, BatchOpen
<1> USE DEF Untouched, SameResult, rowVars, approvalVars, worldVars, InCall, Closing
<1>1. CASE ContextRefused \/ FinishTurn \/ AdoptApproval \/ HandlerTimesOut
             \/ HandlerCancelled \/ CommitFails \/ ClosingFails
  BY <1>1 DEF ContextRefused, FinishTurn, AdoptApproval, HandlerTimesOut, HandlerCancelled,
     CommitFails, ClosingFails
<1>2. CASE DenyAtGate \/ RefuseApproval \/ RefuseEntry
  BY <1>0, <1>2, MoveFacts
     DEF DenyAtGate, RefuseApproval, RefuseEntry, CloseBeforeHandler, ApprovalsOK
<1>3. CASE ConsumePrecedent
  BY <1>0, <1>3, MoveFacts
     DEF ConsumePrecedent, CloseBeforeHandler, ConsumeAndMarkExecuting, ApprovalsOK
<1>4. CASE RequestApproval
  BY <1>0, <1>4 DEF RequestApproval, ApprovalsOK
<1>5. CASE ApproveHere \/ MarkExecuting \/ RecordCompleted
  BY <1>0, <1>5, MoveFacts
     DEF ApproveHere, MarkExecuting, RecordCompleted, ConsumeAndMarkExecuting, ApprovalsOK
<1>6. CASE EnterHandler \/ \E r \in {"ok", "failed", "unknown"} : HandlerReturns(r)
  BY <1>0, <1>6 DEF EnterHandler, HandlerReturns, WorldOK
<1>7. CASE CommitReply \/ CommitSynthetic
  BY <1>0, <1>7, MoveFacts DEF CommitReply, CommitSynthetic, AppendReply
<1>8. CASE SettleRow
  BY <1>0, <1>8, MoveFacts DEF SettleRow, CloseBeforeHandler, ApprovalsOK
<1>9. QED
  BY <1>1, <1>2, <1>3, <1>4, <1>5, <1>6, <1>7, <1>8 DEF DriverStep

(* What it does with the current call.                                        *)
LEMMA DriverFate ==
    ASSUME TypeInv, SafeInv, LogInv, CallInv, DriverStep, pc \in InCall \cup Closing
    PROVE  \A c \in Calls : c = Cur => Fate(c)
<1>0. /\ RowsOK /\ ApprovalsOK /\ WorldOK /\ RowInv /\ OpenPending /\ OnlyGatedAsked
      /\ Cur \in Calls /\ 1 \in DOMAIN pending /\ Cur = pending[1]
      /\ \A e \in Calls : state[e] \in {"none", "prepared", "awaiting"} => entered[e] = 0
      /\ pc \in BeforeHandler => entered[Cur] = 0
      /\ pc \in PastPolicy => Cur \notin DeniedCalls
      /\ pc = "loop" => Waiting(Cur)
      /\ state[Cur] # "none"
  BY BatchFacts
     DEF TypeInv, TypeOK, BatchOpen, SafeInv, RowInv, NotStarted, BatchInv, AheadFresh,
         HeadAdmissible, BeforeHandler, InCall, CallInv, AheadUnasked, Ahead, LogInv, CycleInv,
         BatchStarted, InBatch
<1> SUFFICES ASSUME NEW c \in Calls, c = Cur PROVE Fate(c)
  OBVIOUS
<1>a. /\ RowHonest(c)
      /\ pc \in {"run", "record"} => state[c] = "executing"
      /\ pc = "run" => effect[c] = "started"
      /\ pc = "record" => Recorded(res) \in Verdicts(c)
      /\ pc \in {"reply", "closemsg"} => state[c] \in {"completed", "closed"}
  BY DEF CallInv, RowsHonest, InHandler
<1> USE DEF rowVars, approvalVars, worldVars, InCall, Closing, BeforeHandler, PastPolicy
<1>1. CASE Untouched(c)
  BY <1>1 DEF Untouched, Fate, Rests, KeepsConsent
<1>2. CASE DenyAtGate \/ RefuseApproval \/ RefuseEntry
  BY <1>0, <1>a, <1>2, CloseFate DEF DenyAtGate, RefuseApproval, RefuseEntry
<1>3. CASE ConsumePrecedent
  BY <1>0, <1>a, <1>3, CloseFate, ConsumeFate DEF ConsumePrecedent, Fate
<1>4. CASE RequestApproval
  <2>1. state[c] \in {"prepared", "awaiting"} /\ appr[c] = "none"
    BY <1>0, <1>4 DEF RequestApproval, PassesPolicy, Permitted, Waiting
  <2>2. appr'[c] \in {"pending", "granted"}
    BY <1>0, <1>4 DEF RequestApproval, ApprovalsOK
  <2>3. Asked(c)
    BY <1>4, <2>1, <2>2 DEF RequestApproval, Asked, SameResult
  <2>4. QED
    BY <2>3 DEF Fate
<1>5. CASE ApproveHere
  BY <1>0, <1>5, ConsumeFate DEF ApproveHere, Fate
<1>6. CASE MarkExecuting
  <2>1. MoveRow(c, "executing", disp[c]) /\ appr[c] = "none" /\ UNCHANGED <<appr, entered, effect>>
    BY <1>0, <1>6 DEF MarkExecuting, OnlyGatedAsked
  <2>2. state[c] \in {"prepared", "awaiting"}
    BY <2>1 DEF MoveRow, Legal, Transitions
  <2>3. Started(c)
    BY <1>0, <2>1, <2>2, MoveFacts DEF Started, SameResult
  <2>4. QED
    BY <2>3 DEF Fate
<1>7. CASE EnterHandler
  <2>1. entered'[c] = 1 /\ effect'[c] = "started"
    BY <1>0, <1>7 DEF EnterHandler, WorldOK
  <2>2. Entered(c)
    BY <1>0, <1>7, <2>1 DEF EnterHandler, MayEnter, Entered
  <2>3. QED
    BY <2>2 DEF Fate
<1>8. ASSUME NEW r \in {"ok", "failed", "unknown"}, HandlerReturns(r) PROVE Fate(c)
  <2>1. effect'[c] \in {"started", "failed", "done"}
    BY <1>0, <1>8 DEF HandlerReturns, WorldOK
  <2>2. Returned(c)
    BY <1>a, <1>8, <2>1 DEF HandlerReturns, Returned
  <2>3. QED
    BY <2>2 DEF Fate
<1>9. CASE RecordCompleted
  <2>1. /\ MoveRow(c, "completed", Recorded(res)) /\ UNCHANGED <<appr, entered, effect>>
        /\ state[c] = "executing" /\ Recorded(res) \in Verdicts(c)
    BY <1>a, <1>9 DEF RecordCompleted
  <2>2. ResultRecorded(c)
    BY <1>0, <2>1, MoveFacts DEF ResultRecorded
  <2>3. QED
    BY <2>2 DEF Fate
<1>10. CASE CommitReply \/ CommitSynthetic
  <2>1. UNCHANGED <<appr, entered, effect>> /\ state[c] \in {"completed", "closed"}
    BY <1>a, <1>10 DEF CommitReply, CommitSynthetic
  <2>2. \E r : AppendReply(c, r)
    BY <1>10 DEF CommitReply, CommitSynthetic
  <2>3. QED
    BY <1>0, <1>a, <2>1, <2>2, AppendFate
<1>11. CASE SettleRow
  <2>1. UNCHANGED <<entered, effect>>
    BY <1>11 DEF SettleRow
  <2>2. CASE state[c] \in {"prepared", "awaiting"}
    <3>1. CloseBeforeHandler(c, "cancelled") /\ entered[c] = 0
      BY <1>0, <1>11, <2>2 DEF SettleRow
    <3>2. QED
      BY <1>0, <1>a, <2>1, <3>1, CloseFate
  <2>3. CASE state[c] = "executing"
    <3>1. MoveRow(c, "completed", "unknown") /\ UNCHANGED appr
      BY <1>11, <2>3 DEF SettleRow
    <3>2. ResultRecorded(c)
      BY <1>0, <2>1, <2>3, <3>1, MoveFacts, VerdictFacts DEF ResultRecorded
    <3>3. QED
      BY <3>2 DEF Fate
  <2>4. CASE state[c] \notin {"prepared", "awaiting", "executing"}
    BY <1>1, <1>11, <2>1, <2>4 DEF SettleRow, Untouched, SameResult
  <2>5. QED
    BY <2>2, <2>3, <2>4
<1>12. CASE ContextRefused \/ FinishTurn \/ AdoptApproval \/ HandlerTimesOut
             \/ HandlerCancelled \/ CommitFails \/ ClosingFails
  BY <1>1, <1>12 DEF ContextRefused, FinishTurn, AdoptApproval, HandlerTimesOut,
     HandlerCancelled, CommitFails, ClosingFails, Untouched, SameResult
<1>13. QED
  BY <1>2, <1>3, <1>4, <1>5, <1>6, <1>7, <1>8, <1>9, <1>10, <1>11, <1>12 DEF DriverStep

(* What users and clocks do with a call.                                      *)
LEMMA EnvironmentFate ==
    ASSUME TypeInv, SafeInv, LogInv, CallInv, EnvironmentStep, NEW c \in Calls
    PROVE  Fate(c)
<1>0. /\ RowsOK /\ ApprovalsOK /\ WorldOK /\ OpenPending /\ OnlyGatedAsked
      /\ \A e \in Calls : RowHonest(e)
      /\ \A e \in Calls : state[e] \in {"none", "prepared", "awaiting"} => entered[e] = 0
  BY DEF TypeInv, TypeOK, SafeInv, RowInv, NotStarted, CallInv, RowsHonest
<1> USE DEF rowVars, approvalVars, worldVars
<1>1. CASE Untouched(c)
  BY <1>1 DEF Untouched, Fate, Rests, KeepsConsent
<1>2. ASSUME NEW b \in Batches(Unused), CommitBatch(b) PROVE Fate(c)
  <2>1. \A i \in DOMAIN b : b[i] \in Calls /\ state[b[i]] = "none"
    BY BatchUnused
  <2>2. UNCHANGED <<disp, appr, entered, effect>>
    BY <1>2 DEF CommitBatch
  <2>3. CASE c \in {b[i] : i \in DOMAIN b}
    <3>1. state[c] = "none" /\ state'[c] \in {"prepared", "awaiting"}
      BY <1>2, <2>1, <2>3 DEF CommitBatch
    <3>2. Proposed(c)
      BY <2>2, <3>1 DEF Proposed, SameResult
    <3>3. QED
      BY <3>2 DEF Fate
  <2>4. CASE c \notin {b[i] : i \in DOMAIN b}
    <3>1. state'[c] = state[c] /\ ver'[c] = ver[c]
      BY <1>2, <2>4 DEF CommitBatch
    <3>2. QED
      BY <1>1, <2>2, <3>1 DEF Untouched, SameResult
  <2>5. QED
    BY <2>3, <2>4
<1>3. ASSUME NEW e \in Calls, NEW d \in {"approve", "reject"}, NEW s \in BOOLEAN,
             ApiResolve(e, d, s)
      PROVE  Fate(c)
  <2>1. appr[e] = "pending" /\ UNCHANGED <<entered, effect>> /\ RowHonest(e)
    BY <1>0, <1>3 DEF ApiResolve, ResolveRows
  <2>2. CASE d = "approve" /\ ~lapsed[e]
    <3>1. ConsumeAndMarkExecuting(e)
      BY <1>3, <2>2 DEF ApiResolve, ResolveRows
    <3>2. CASE c = e
      BY <1>0, <2>1, <3>1, <3>2, ConsumeFate DEF Fate
    <3>3. CASE c # e
      BY <1>0, <1>1, <2>1, <3>1, <3>3, MoveFacts
         DEF ConsumeAndMarkExecuting, Untouched, SameResult, ApprovalsOK
    <3>4. QED
      BY <3>2, <3>3
  <2>3. CASE ~(d = "approve" /\ ~lapsed[e])
    <3>1. MoveRow(e, "closed", "denied") /\ appr' = [appr EXCEPT ![e] = Refusal(e)]
      BY <1>3, <2>3 DEF ApiResolve, ResolveRows
    <3>2. state[e] \in {"prepared", "awaiting"}
      BY <2>1, <3>1 DEF RowHonest, MoveRow, Legal, Transitions
    <3>3. "denied" \in Verdicts(e) /\ disp[e] = "pending"
      BY <1>0, <2>1, <3>2, VerdictFacts DEF RowHonest, OpenPending
    <3>4. CASE c = e
      <4>1. KeepsConsent(e)
        BY <1>0, <2>1, <3>1 DEF KeepsConsent, Refusal, ApprovalsOK
      <4>2. Closed(e)
        BY <1>0, <2>1, <3>1, <3>2, <3>3, <4>1, MoveFacts DEF Closed
      <4>3. QED
        BY <3>4, <4>2 DEF Fate
    <3>5. CASE c # e
      BY <1>0, <1>1, <2>1, <3>1, <3>5, MoveFacts DEF Untouched, SameResult, ApprovalsOK
    <3>6. QED
      BY <3>4, <3>5
  <2>4. QED
    BY <2>2, <2>3
<1>4. CASE RevokeGrant
  <2>1. UNCHANGED <<entered, effect>> /\ KeepsConsent(c)
    BY <1>0, <1>4 DEF RevokeGrant, RevokeRows, KeepsConsent, PendingGrantCalls
  <2>2. CASE c \in GrantCalls /\ state[c] \in {"prepared", "awaiting"}
    <3>1. state'[c] = "closed" /\ disp'[c] = "denied"
      BY <1>4, <2>2 DEF RevokeGrant, RevokeRows
    <3>2. "denied" \in Verdicts(c) /\ disp[c] = "pending"
      BY <1>0, <2>2, VerdictFacts DEF RowHonest, OpenPending
    <3>3. Closed(c)
      BY <2>1, <2>2, <3>1, <3>2 DEF Closed
    <3>4. QED
      BY <3>3 DEF Fate
  <2>3. CASE ~(c \in GrantCalls /\ state[c] \in {"prepared", "awaiting"})
    <3>1. /\ state'[c] = state[c] /\ disp'[c] = disp[c]
          /\ ver'[c] # ver[c] => state[c] # "closed"
      BY <1>4, <2>3 DEF RevokeGrant, RevokeRows
    <3>2. Rests(c)
      BY <2>1, <3>1 DEF Rests, SameResult
    <3>3. QED
      BY <3>2 DEF Fate
  <2>4. QED
    BY <2>2, <2>3
<1>5. CASE StartTurn \/ (\E f \in Reasons : Interrupt(f))
             \/ (\E d \in {"approve", "reject"} : DecideInProcess(d))
  BY <1>1, <1>5 DEF StartTurn, Interrupt, DecideInProcess, Untouched, SameResult
<1>6. CASE RevokeScope \/ GrantExpires \/ \E e \in Calls : Lapse(e)
  BY <1>1, <1>6 DEF RevokeScope, GrantExpires, Lapse, Untouched, SameResult
<1>7. QED
  BY <1>2, <1>3, <1>4, <1>5, <1>6 DEF EnvironmentStep

(* What crash, restart and the decisions on a report do with a call.          *)
LEMMA RecoveryFate ==
    ASSUME TypeInv, SafeInv, LogInv, CallInv, RecoveryStep, NEW c \in Calls
    PROVE  Fate(c)
<1>0. /\ RowsOK /\ WorldOK /\ RowInv /\ RowsHonest /\ LostKnown /\ ItemsStarted
  BY DEF TypeInv, TypeOK, SafeInv, CallInv, LogInv, ReportInv
<1> USE DEF rowVars, approvalVars, worldVars
<1>1. CASE UNCHANGED <<rowVars, appr, entered, effect>>
  BY <1>1 DEF Fate, Rests, KeepsConsent, SameResult
<1>2. CASE Crash \/ Corrupt \/ Resume \/ \E obs \in Observations : Restore(obs)
  BY <1>1, <1>2 DEF Crash, Corrupt, Resume, Restore, RestoreRows
<1>3. CASE (\E e \in Calls : QuarantineItem(e)) \/ QuarantineReport \/ ResumeReport
  BY <1>1, <1>3 DEF QuarantineItem, QuarantineReport, ResumeReport
<1>4. ASSUME NEW e \in Calls, NEW r \in {"ack", "abort"}, DecideItem(e, r) PROVE Fate(c)
  <2>1. /\ rstatus = "open" /\ {e} \in SUBSET Items /\ CloseSettled({e}, r)
        /\ UNCHANGED <<appr, entered, effect>>
    BY <1>4 DEF DecideItem, Answer, Answering, MayDecide
  <2>2. QED
    BY <1>0, <2>1, SettleFate
<1>5. CASE AbortReport
  <2>1. /\ rstatus = "open" /\ CloseSettled(Items, "abort")
        /\ UNCHANGED <<appr, entered, effect>>
    BY <1>5 DEF AbortReport, Answer, Answering, MayAbort
  <2>2. QED
    BY <1>0, <2>1, SettleFate
<1>6. QED
  BY <1>2, <1>3, <1>4, <1>5 DEF RecoveryStep, Decision

(* Every step gives every call one of the fates.                              *)
LEMMA EveryFate ==
    ASSUME TypeInv, SafeInv, LogInv, CallInv, [Next]_vars, NEW c \in Calls
    PROVE  Fate(c)
<1>1. CASE DriverStep
  BY <1>1, DriverTouches, DriverFate DEF Untouched, Fate, Rests, KeepsConsent
<1>2. CASE UNCHANGED vars
  BY <1>2 DEF vars, rowVars, approvalVars, worldVars, Fate, Rests, KeepsConsent, SameResult
<1>3. QED
  BY <1>1, <1>2, EnvironmentFate, RecoveryFate DEF Next

-------------------------------------------------------------------------------
(* Every fate keeps the rows of the call honest.                              *)
LEMMA HonestStep ==
    ASSUME WorldOK, OpenPending, NEW c \in Calls, RowHonest(c), Fate(c)
    PROVE  RowHonest(c)'
<1>1. effect'[c] = effect[c] => Verdicts(c)' = Verdicts(c)
  BY VerdictSame
<1>2. state[c] = "executing" => disp[c] = "pending"
  BY DEF OpenPending
<1>3. CASE Rests(c) \/ Proposed(c) \/ Asked(c) \/ Started(c)
  BY <1>1, <1>3 DEF RowHonest, Rests, Proposed, Asked, Started, SameResult, KeepsConsent
<1>4. CASE Entered(c) \/ Returned(c)
  BY <1>2, <1>4 DEF RowHonest, Entered, Returned
<1>5. CASE ResultRecorded(c) \/ Closed(c)
  BY <1>1, <1>5, VerdictFacts DEF RowHonest, ResultRecorded, Closed, KeepsConsent
<1>6. QED
  BY <1>3, <1>4, <1>5 DEF Fate

(* An open report classes as unknown what it cannot tell: it was so when the  *)
(* report was made, and no handler runs while it is open.                     *)
LEMMA LostStep ==
    ASSUME TypeInv, SafeInv, LogInv, CallInv, [Next]_vars, \A c \in Calls : Fate(c)
    PROVE  LostKnown'
<1>0. /\ OpenBlocks /\ LostKnown /\ OpenPending
      /\ \A c \in Calls : RowHonest(c) /\ (state[c] \in {"prepared", "awaiting"} => entered[c] = 0)
      /\ WorldOK
  BY DEF TypeInv, TypeOK, SafeInv, RowInv, NotStarted, LogInv, HostInv, CallInv, RowsHonest
<1>1. CASE DriverStep
  BY <1>0, <1>1, DriverKeeps DEF OpenBlocks, LostKnown
<1>2. \A c \in Calls : /\ state'[c] # "closed" => state[c] # "closed"
                       /\ disp[c] = "unknown" /\ state[c] # "closed" => disp'[c] = "unknown"
  <2>1. SUFFICES ASSUME NEW c \in Calls
                 PROVE  /\ state'[c] # "closed" => state[c] # "closed"
                        /\ disp[c] = "unknown" /\ state[c] # "closed" => disp'[c] = "unknown"
    OBVIOUS
  <2>2. Fate(c) /\ (state[c] = "executing" => disp[c] = "pending")
    BY <1>0 DEF OpenPending
  <2>3. QED
    BY <2>2 DEF Fate, Rests, Proposed, Asked, Started, Entered, Returned, ResultRecorded,
       Closed, SameResult
<1>3. CASE UNCHANGED <<rstatus, class, effect>> \/ rstatus' # "open"
  BY <1>0, <1>2, <1>3 DEF LostKnown
<1>4. CASE EnvironmentStep
  <2>1. UNCHANGED effect
    BY <1>4 DEF EnvironmentStep, StartTurn, CommitBatch, Interrupt, DecideInProcess,
       ApiResolve, RevokeGrant, RevokeScope, GrantExpires, Lapse, worldVars
  <2>2. QED
    BY <1>3, <1>4, <2>1, EnvironmentKeeps
<1>5. ASSUME NEW obs \in Observations, Restore(obs) PROVE LostKnown'
  <2>1. UNCHANGED <<state, disp, effect>>
    BY <1>5 DEF Restore, RestoreRows, rowVars, worldVars
  <2>2. CASE UNCHANGED <<rstatus, class>>
    BY <1>3, <2>1, <2>2
  <2>3. CASE OpenReport(obs)
    <3>1. SUFFICES ASSUME NEW c \in Calls, state[c] # "closed", effect[c] = "started",
                          Policy[c] = "outcome_unknown", disp[c] # "unknown"
                   PROVE  class'[c] = "outcome_unknown"
      BY <2>1 DEF LostKnown
    <3>2. state[c] \notin {"none", "prepared", "awaiting"}
      BY <1>0, <3>1 DEF RowHonest, TypeInv, SafeInv, RowInv, NotStarted
    <3>3. state[c] # "completed"
      BY <1>0, <3>1 DEF RowHonest, Verdicts, Call!Honest
    <3>4. c \in Candidates
      BY <3>1, <3>2 DEF Candidates
    <3>5. class'[c] = Classify(state[c], disp[c], Policy[c], obs[c])
      BY <2>3, <3>4 DEF OpenReport
    <3>6. QED
      BY <3>1, <3>2, <3>3, <3>5 DEF Classify
  <2>4. QED
    BY <1>5, <2>2, <2>3 DEF Restore, RestoreRows
<1>6. CASE Crash \/ Corrupt \/ Resume
  BY <1>3, <1>6 DEF Crash, Corrupt, Resume, reportVars, worldVars
<1>7. CASE Decision
  <2>1. UNCHANGED <<class, effect>> /\ rstatus = "open"
    BY <1>7 DEF Decision, QuarantineItem, QuarantineReport, DecideItem, AbortReport,
       ResumeReport, Answer, worldVars, Answering, MayDecide, MayAbort, MayResume
  <2>2. QED
    BY <1>3, <2>1
<1>8. CASE UNCHANGED vars
  BY <1>3, <1>8 DEF vars, reportVars, worldVars
<1>9. QED
  BY <1>1, <1>4, <1>5, <1>6, <1>7, <1>8 DEF Next, RecoveryStep

-------------------------------------------------------------------------------
(* The driver gets nearer to a call only by leaving the one before it.        *)
LEMMA DriverPlace ==
    ASSUME DriverStep, pc' \in InCall
    PROVE  /\ pc \in InCall
           /\ (UNCHANGED pending /\ pc' # "loop") \/ CommitReply
<1> USE DEF InCall, logVars
<1>1. CASE ContextRefused \/ FinishTurn \/ CommitFails \/ ClosingFails \/ SettleRow
             \/ CommitSynthetic
  BY <1>1 DEF ContextRefused, FinishTurn, CommitFails, ClosingFails, SettleRow,
     CommitSynthetic, Goto, GotoClosing
<1>2. CASE DenyAtGate \/ RefuseApproval \/ RefuseEntry \/ ConsumePrecedent
  BY <1>2 DEF DenyAtGate, RefuseApproval, RefuseEntry, ConsumePrecedent, GotoReply, GotoAdmit
<1>3. CASE RequestApproval \/ MarkExecuting \/ ApproveHere \/ AdoptApproval
  BY <1>3 DEF RequestApproval, MarkExecuting, ApproveHere, AdoptApproval, Goto, GotoAdmit
<1>4. CASE EnterHandler \/ (\E r \in {"ok", "failed", "unknown"} : HandlerReturns(r))
             \/ HandlerTimesOut \/ HandlerCancelled \/ RecordCompleted
  BY <1>4 DEF EnterHandler, HandlerReturns, HandlerTimesOut, HandlerCancelled,
     RecordCompleted
<1>5. CASE CommitReply
  BY <1>5 DEF CommitReply
<1>6. QED
  BY <1>1, <1>2, <1>3, <1>4, <1>5 DEF DriverStep

(* The calls ahead of the driver stay unasked.                                *)
LEMMA AheadStep ==
    TypeInv /\ SafeInv /\ LogInv /\ CallInv /\ [Next]_vars => AheadUnasked'
<1> SUFFICES ASSUME TypeInv, SafeInv, LogInv, CallInv, [Next]_vars, pc' \in InCall,
                    NEW c \in Ahead'
             PROVE  Waiting(c)'
  BY DEF AheadUnasked
<1>0. /\ RowsOK /\ ApprovalsOK /\ LogOK /\ DistinctBatch /\ AheadUnasked
      /\ OpenBlocks /\ DownIdle
      /\ pc \in InCall => Cur = pending[1] /\ 1 \in DOMAIN pending /\ pending # << >>
      /\ Ahead \subseteq Calls
  BY BatchFacts DEF TypeInv, TypeOK, BatchOpen, SafeInv, BatchInv, LogInv, HostInv,
     CallInv, LogOK, Ahead, InBatch
<1>1. CASE DriverStep
  <2>1. pc \in InCall /\ ((UNCHANGED pending /\ pc' # "loop") \/ pending' = Tail(pending))
    BY <1>1, DriverPlace DEF CommitReply, AppendReply
  <2>2. c \in Ahead /\ c # Cur
    <3>1. PICK i \in DOMAIN pending' : pending'[i] = c /\ (i # 1 \/ pc' = "loop")
      BY DEF Ahead
    <3>2. CASE UNCHANGED pending /\ pc' # "loop"
      <4>1. i \in DOMAIN pending /\ i # 1 /\ pending[i] = c
        BY <3>1, <3>2
      <4>2. QED
        BY <1>0, <2>1, <4>1 DEF Ahead, InBatch, DistinctBatch
    <3>3. CASE pending' = Tail(pending)
      <4>1. i + 1 \in DOMAIN pending /\ i + 1 # 1 /\ pending[i + 1] = c
        BY <1>0, <2>1, <3>1, <3>3, BatchFacts
      <4>2. QED
        BY <1>0, <2>1, <4>1 DEF Ahead, InBatch, DistinctBatch
    <3>4. QED
      BY <2>1, <3>2, <3>3
  <2>3. c \in Calls /\ Waiting(c) /\ Untouched(c) /\ UNCHANGED grant
    BY <1>0, <1>1, <2>1, <2>2, DriverTouches DEF AheadUnasked
  <2>4. QED
    BY <2>3 DEF Waiting, Untouched
<1>2. CASE StartTurn \/ \E f \in Reasons : Interrupt(f)
  BY <1>2 DEF StartTurn, Interrupt, Goto, GotoClosing, InCall
<1>3. ASSUME NEW b \in Batches(Unused), CommitBatch(b) PROVE Waiting(c)'
  <2>1. \A i \in DOMAIN b : b[i] \in Calls /\ state[b[i]] = "none"
    BY BatchUnused
  <2>2. PICK i \in DOMAIN b : b[i] = c
    BY <1>3 DEF Ahead, CommitBatch
  <2>3. c \in Calls /\ appr[c] = "none"
    BY <2>1, <2>2 DEF CallInv, RowsHonest, RowHonest
  <2>4. state'[c] \in {"prepared", "awaiting"} /\ appr'[c] = "none"
    BY <1>3, <2>2, <2>3 DEF CommitBatch, approvalVars
  <2>5. QED
    BY <2>4 DEF Waiting
<1>4. ASSUME UNCHANGED <<pending, pc>> PROVE c \in Calls /\ Waiting(c)
  BY <1>0, <1>4 DEF Ahead, InBatch, AheadUnasked
<1>5. ASSUME UNCHANGED <<state, appr, pending, pc>>, grant = "revoked" => grant' = "revoked"
      PROVE  Waiting(c)'
  BY <1>4, <1>5 DEF Waiting
<1>6. CASE (\E d \in {"approve", "reject"} : DecideInProcess(d))
             \/ RevokeScope \/ GrantExpires \/ (\E e \in Calls : Lapse(e)) \/ Corrupt
             \/ UNCHANGED vars
  BY <1>5, <1>6 DEF DecideInProcess, RevokeScope, GrantExpires, Lapse, Corrupt, vars,
     rowVars, approvalVars, logVars, driverVars
<1>7. ASSUME NEW e \in Calls, NEW d \in {"approve", "reject"}, NEW s \in BOOLEAN,
             ApiResolve(e, d, s)
      PROVE  Waiting(c)'
  <2>1. c \in Calls /\ Waiting(c) /\ appr[e] = "pending" /\ UNCHANGED grant
    BY <1>4, <1>7 DEF ApiResolve, ResolveRows, Wake, logVars
  <2>2. c # e
    BY <2>1 DEF Waiting
  <2>3. state'[c] = state[c] /\ appr'[c] = appr[c]
    BY <1>0, <1>7, <2>1, <2>2, MoveFacts
       DEF ApiResolve, ResolveRows, ConsumeAndMarkExecuting, ApprovalsOK
  <2>4. QED
    BY <2>1, <2>3 DEF Waiting
<1>8. CASE RevokeGrant
  <2>1. c \in Calls /\ Waiting(c) /\ grant' = "revoked"
    BY <1>4, <1>8 DEF RevokeGrant, RevokeRows, Wake, logVars
  <2>2. /\ appr'[c] = appr[c]
        /\ state'[c] = IF c \in GrantCalls /\ state[c] \in {"prepared", "awaiting"}
                       THEN "closed" ELSE state[c]
    BY <1>8, <2>1 DEF RevokeGrant, RevokeRows, PendingGrantCalls, Waiting
  <2>3. QED
    BY <2>1, <2>2 DEF Waiting
<1>9. CASE Crash \/ Resume \/ (\E obs \in Observations : Restore(obs)) \/ Decision
  <2>1. pc' \notin InCall
    BY <1>0, <1>9 DEF Crash, Resume, Restore, Decision, QuarantineItem,
       QuarantineReport, DecideItem, AbortReport, ResumeReport, Answer, Goto,
       driverVars, DownIdle, InCall, Answering, MayDecide, MayAbort, MayResume
  <2>2. QED
    BY <2>1
<1>10. QED
  BY <1>1, <1>2, <1>3, <1>6, <1>7, <1>8, <1>9 DEF Next, EnvironmentStep, RecoveryStep

(* In the handler and after it, the current call is where the driver takes it *)
(* to be: nobody else moves an execution that is not waiting any more.        *)
LEMMA HandlerStep ==
    TypeInv /\ SafeInv /\ LogInv /\ CallInv /\ [Next]_vars => InHandler'
<1> SUFFICES ASSUME TypeInv, SafeInv, LogInv, CallInv, [Next]_vars PROVE InHandler'
  OBVIOUS
<1>0. /\ RowsOK /\ ApprovalsOK /\ WorldOK /\ DriverOK /\ InHandler /\ DownIdle
      /\ pc \in InCall \cup Closing => Cur \in Calls /\ state[Cur] # "none"
      /\ \A c \in Calls : RowHonest(c)
      /\ state \in [Calls -> States]
  BY BatchFacts DEF TypeInv, TypeOK, BatchOpen, LogInv, HostInv, CallInv, RowsHonest,
     RowsOK, CycleInv, BatchStarted, InBatch
<1> USE DEF InCall, Closing
<1>1. CASE pc' \notin {"run", "record", "reply", "closemsg"}
  BY <1>1 DEF InHandler
<1>2. ASSUME UNCHANGED <<pending, pc, res>>,
             \A c \in Calls : state[c] \in {"executing", "completed", "closed"} =>
                state'[c] = state[c] /\ disp'[c] = disp[c] /\ effect'[c] = effect[c]
      PROVE  InHandler'
  <2>1. SUFFICES ASSUME pc \in {"run", "record", "reply", "closemsg"} PROVE InHandler'
    BY <1>1, <1>2
  <2>2. Cur' = Cur /\ Cur \in Calls /\ state[Cur] \in {"executing", "completed", "closed"}
    BY <1>0, <1>2, <2>1 DEF Cur, InHandler
  <2>3. state'[Cur] = state[Cur] /\ disp'[Cur] = disp[Cur] /\ effect'[Cur] = effect[Cur]
    BY <1>2, <2>2
  <2>4. \A c \in Calls : c = Cur => Verdicts(c)' = Verdicts(c)
    BY <2>3, VerdictSame
  <2>5. QED
    BY <1>0, <1>2, <2>2, <2>3, <2>4 DEF InHandler, Recorded
<1>3. CASE DriverStep
  <2>1. CASE ContextRefused \/ FinishTurn \/ RequestApproval \/ AdoptApproval
               \/ MarkExecuting \/ ApproveHere
    BY <1>1, <2>1 DEF ContextRefused, FinishTurn, RequestApproval, AdoptApproval,
       MarkExecuting, ApproveHere, Goto, GotoAdmit
  <2>2. CASE CommitFails \/ ClosingFails \/ CommitReply \/ CommitSynthetic
    BY <1>1, <2>2 DEF CommitFails, ClosingFails, CommitReply, CommitSynthetic, GotoClosing
  <2>3. CASE DenyAtGate \/ RefuseApproval \/ RefuseEntry \/ ConsumePrecedent
    <3>1. CASE pc' = "admit"
      BY <1>1, <3>1
    <3>2. CASE CloseBeforeHandler(Cur, "denied") /\ GotoReply("denied") /\ UNCHANGED pending
      <4>1. Cur' = Cur /\ pc' = "reply" /\ res' = "denied"
        BY <3>2 DEF Cur, GotoReply
      <4>2. state'[Cur] \in {"completed", "closed"}
        BY <1>0, <2>3, <3>2, CloseForward
           DEF DenyAtGate, RefuseApproval, RefuseEntry, ConsumePrecedent
      <4>3. QED
        BY <4>1, <4>2 DEF InHandler
    <3>3. QED
      BY <2>3, <3>1, <3>2 DEF DenyAtGate, RefuseApproval, RefuseEntry, ConsumePrecedent,
         GotoAdmit, logVars
  <2>4. CASE EnterHandler
    <3>1. /\ Cur' = Cur /\ pc' = "run" /\ state'[Cur] = "executing" /\ effect'[Cur] = "started"
      BY <1>0, <2>4 DEF EnterHandler, MayEnter, Cur, logVars, rowVars, WorldOK
    <3>2. QED
      BY <3>1 DEF InHandler
  <2>5. ASSUME NEW r \in {"ok", "failed", "unknown"}, HandlerReturns(r) PROVE InHandler'
    <3>1. /\ Cur' = Cur /\ pc' = "record" /\ res' = r /\ state'[Cur] = "executing"
          /\ effect'[Cur] = CASE r = "ok" -> "done" [] r = "failed" -> "failed"
                              [] OTHER -> "started"
      BY <1>0, <2>5 DEF HandlerReturns, InHandler, Cur, logVars, rowVars, WorldOK
    <3>2. \A c \in Calls : c = Cur => Recorded(r) \in Verdicts(c)'
      BY <3>1 DEF Recorded, Verdicts, Call!Honest
    <3>3. QED
      BY <3>1, <3>2 DEF InHandler, Recorded
  <2>6. CASE HandlerTimesOut \/ HandlerCancelled
    <3>1. /\ Cur' = Cur /\ pc' = "record" /\ res' = Interrupted(Cur)
          /\ state'[Cur] = "executing" /\ UNCHANGED effect /\ effect[Cur] = "started"
      BY <1>0, <2>6 DEF HandlerTimesOut, HandlerCancelled, InHandler, Cur, logVars,
         rowVars, worldVars
    <3>2. ASSUME NEW c \in Calls, c = Cur PROVE Recorded(Interrupted(c)) \in Verdicts(c)'
      <4>1. Verdicts(c)' = Verdicts(c)
        BY <3>1, VerdictSame
      <4>2. Recorded(Interrupted(c)) \in Verdicts(c)
        BY <1>0, <3>1, <3>2, VerdictFacts DEF Recorded, Interrupted, UnknownAfterEntry
      <4>3. QED
        BY <4>1, <4>2
    <3>3. QED
      BY <3>1, <3>2 DEF InHandler, Recorded
  <2>7. CASE RecordCompleted
    <3>1. /\ Cur' = Cur /\ pc' = "reply" /\ UNCHANGED res
          /\ state'[Cur] = "completed" /\ disp'[Cur] = Recorded(res)
      BY <1>0, <2>7, MoveFacts DEF RecordCompleted, Cur, logVars
    <3>2. QED
      BY <3>1 DEF InHandler, Recorded
  <2>8. CASE SettleRow
    <3>1. Cur' = Cur /\ pc' = "closemsg"
      BY <2>8 DEF SettleRow, Goto, Cur, logVars
    <3>2. state'[Cur] \in {"completed", "closed"}
      <4>1. CASE state[Cur] \in {"prepared", "awaiting"}
        BY <1>0, <2>8, <4>1, CloseForward DEF SettleRow
      <4>2. CASE state[Cur] = "executing"
        BY <1>0, <2>8, <4>2, MoveFacts DEF SettleRow
      <4>3. CASE state[Cur] \notin {"prepared", "awaiting", "executing"}
        BY <1>0, <2>8, <4>3 DEF SettleRow, rowVars, States
      <4>4. QED
        BY <4>1, <4>2, <4>3
    <3>3. QED
      BY <3>1, <3>2 DEF InHandler
  <2>9. QED
    BY <1>3, <2>1, <2>2, <2>3, <2>4, <2>5, <2>6, <2>7, <2>8 DEF DriverStep
<1>4. CASE StartTurn \/ (\E f \in Reasons : Interrupt(f))
               \/ \E b \in Batches(Unused) : CommitBatch(b)
  BY <1>1, <1>4 DEF StartTurn, Interrupt, CommitBatch, Goto, GotoClosing
<1>5. CASE (\E d \in {"approve", "reject"} : DecideInProcess(d))
             \/ RevokeScope \/ GrantExpires \/ (\E e \in Calls : Lapse(e)) \/ Corrupt
             \/ UNCHANGED vars
  BY <1>2, <1>5 DEF DecideInProcess, RevokeScope, GrantExpires, Lapse, Corrupt, vars,
     rowVars, logVars, driverVars, worldVars
<1>6. ASSUME NEW e \in Calls, NEW d \in {"approve", "reject"}, NEW s \in BOOLEAN,
             ApiResolve(e, d, s)
      PROVE  InHandler'
  <2>1. \E to, v : MoveRow(e, to, v)
    BY <1>6 DEF ApiResolve, ResolveRows, ConsumeAndMarkExecuting
  <2>2. appr[e] = "pending" /\ UNCHANGED <<pending, pc, res, effect>>
    BY <1>6 DEF ApiResolve, ResolveRows, Wake, logVars, worldVars
  <2>3. state[e] \notin {"executing", "completed", "closed"}
    BY <1>0, <2>1, <2>2, MoveFacts DEF RowHonest
  <2>4. QED
    BY <1>0, <1>2, <2>1, <2>2, <2>3, MoveFacts
<1>7. CASE RevokeGrant
  BY <1>2, <1>7 DEF RevokeGrant, RevokeRows, Wake, logVars, worldVars
<1>8. CASE Crash \/ Resume \/ (\E obs \in Observations : Restore(obs)) \/ Decision
  BY <1>0, <1>1, <1>8 DEF Crash, Resume, Restore, Decision, QuarantineItem,
     QuarantineReport, DecideItem, AbortReport, ResumeReport, Answer, Goto,
     driverVars, DownIdle, Answering, MayDecide, MayAbort, MayResume
<1>9. QED
  BY <1>3, <1>4, <1>5, <1>6, <1>7, <1>8 DEF Next, EnvironmentStep, RecoveryStep

(* The invariant of the calls.                                                *)
THEOREM CallInvariant == Spec => []CallInv
<1>1. Init => CallInv
  BY DEF Init, CallInv, RowsHonest, RowHonest, LostKnown, AheadUnasked, InHandler, InCall
<1>2. TypeInv /\ SafeInv /\ LogInv /\ CallInv /\ [Next]_vars => CallInv'
  <2>1. SUFFICES ASSUME TypeInv, SafeInv, LogInv, CallInv, [Next]_vars PROVE CallInv'
    OBVIOUS
  <2>2. \A c \in Calls : Fate(c)
    BY <2>1, EveryFate
  <2>3. RowsHonest'
    BY <2>1, <2>2, HonestStep
       DEF RowsHonest, CallInv, TypeInv, TypeOK, SafeInv, RowInv
  <2>4. QED
    BY <2>1, <2>2, <2>3, LostStep, AheadStep, HandlerStep DEF CallInv
<1>3. QED
  BY <1>1, <1>2, TypeInvariant, SafeInvariant, LogInvariant, PTL DEF Spec

-------------------------------------------------------------------------------
(* A message that reports success belongs to a row closed as succeeded.       *)
ToldIsRecorded ==
    \A c \in Calls : reply[c] = "ok" => state[c] = "closed" /\ disp[c] = "succeeded"

(* A closed row stays as it is, and so does an unknown outcome.               *)
LEMMA FateSticky ==
    ASSUME OpenPending, NEW c \in Calls, Fate(c)
    PROVE  /\ disp[c] = "unknown" => disp'[c] = "unknown"
           /\ state[c] = "closed" => /\ state'[c] = "closed" /\ disp'[c] = disp[c]
                                     /\ ver'[c] = ver[c]
<1>1. state[c] = "executing" => disp[c] = "pending"
  BY DEF OpenPending
<1>2. QED
  BY <1>1 DEF Fate, Rests, Proposed, Asked, Started, Entered, Returned, ResultRecorded,
     Closed, SameResult

(* Who writes messages: one per call, for a call that has none.               *)
LEMMA ReplyFrame ==
    ASSUME TypeInv, SafeInv, LogInv, [Next]_vars, NEW c \in Calls, reply'[c] # reply[c]
    PROVE  /\ reply[c] = "none"
           /\ reply'[c] = "ok" => CommitReply /\ c = Cur /\ res = "ok"
<1>0. /\ LogOK /\ CycleClosed /\ ItemsStarted
      /\ pc \in InCall \cup Closing => Cur \in Calls /\ Cur \in InBatch
  BY BatchFacts DEF TypeInv, TypeOK, BatchOpen, LogInv, CycleInv, ReportInv, InBatch
<1>1. c \in InBatch => reply[c] = "none"
  BY <1>0 DEF CycleClosed
<1>2. CASE CommitReply \/ CommitSynthetic
  <2>1. c = Cur /\ c \in InBatch
    BY <1>0, <1>2 DEF CommitReply, CommitSynthetic, AppendReply, LogOK, InCall, Closing
  <2>2. reply'[c] = "ok" => CommitReply /\ res = "ok"
    BY <1>0, <1>2, <2>1 DEF CommitReply, CommitSynthetic, AppendReply, LogOK
  <2>3. QED
    BY <1>1, <2>1, <2>2
<1>3. ASSUME NEW e \in Calls, NEW r \in {"ack", "abort"}, DecideItem(e, r)
      PROVE  c \in InBatch /\ reply'[c] = "lost"
  <2>1. e \in InBatch /\ reply' = [reply EXCEPT ![e] = "lost"]
    BY <1>3 DEF DecideItem, AppendLost
  <2>2. QED
    BY <1>0, <2>1 DEF LogOK
<1>4. CASE AbortReport
  BY <1>1, <1>4 DEF AbortReport
<1>5. CASE DriverStep
  BY <1>2, <1>5, DriverKeeps DEF FinishTurn, logVars
<1>6. CASE EnvironmentStep
  BY <1>6, EnvironmentKeeps DEF StartTurn, CommitBatch, logVars
<1>7. CASE RecoveryStep
  BY <1>0, <1>1, <1>3, <1>4, <1>7, RecoveryKeeps DEF logVars
<1>8. QED
  BY <1>5, <1>6, <1>7 DEF Next, vars, logVars

(* What the model is told and what the row says about success is what the     *)
(* handler did (runtime/tool_cycle.py execute_call, the two commits           *)
(* application/tool_persistence.py makes of a result).                        *)
THEOREM SuccessReal == Spec => []SuccessIsReal
<1>1. Init => ToldIsRecorded
  BY DEF Init, ToldIsRecorded
<1>2. TypeInv /\ SafeInv /\ LogInv /\ CallInv /\ ToldIsRecorded /\ [Next]_vars
        => ToldIsRecorded'
  <2>1. SUFFICES ASSUME TypeInv, SafeInv, LogInv, CallInv, ToldIsRecorded, [Next]_vars,
                        NEW c \in Calls, reply'[c] = "ok"
                 PROVE  state'[c] = "closed" /\ disp'[c] = "succeeded"
    BY DEF ToldIsRecorded
  <2>2. CASE reply'[c] = reply[c]
    BY <2>1, <2>2, EveryFate, FateSticky DEF ToldIsRecorded, SafeInv, RowInv
  <2>3. CASE reply'[c] # reply[c]
    <3>1. CommitReply /\ c = Cur /\ res = "ok"
      BY <2>1, <2>3, ReplyFrame
    <3>2. state[c] = "completed" /\ disp[c] = "succeeded" /\ AppendReply(c, "ok")
      BY <2>1, <3>1 DEF CommitReply, CallInv, InHandler
    <3>3. MoveRow(c, "closed", disp[c])
      BY <3>2 DEF AppendReply
    <3>4. QED
      BY <2>1, <3>2, <3>3, MoveFacts DEF TypeInv, TypeOK
  <2>4. QED
    BY <2>2, <2>3
<1>3. CallInv /\ ToldIsRecorded => SuccessIsReal
  BY DEF CallInv, RowsHonest, RowHonest, ToldIsRecorded, SuccessIsReal
<1>4. QED
  BY <1>1, <1>2, <1>3, TypeInvariant, SafeInvariant, LogInvariant, CallInvariant, PTL
     DEF Spec

(* An outcome recorded UNKNOWN is never rewritten, and a closed row and a     *)
(* message of the log never change (core/execution.py transition_execution,   *)
(* application/recovery.py _persist_closed_execution).                        *)
THEOREM UnknownStays == Spec => UnknownSticky
<1>1. TypeInv /\ SafeInv /\ LogInv /\ CallInv /\ [Next]_vars
        => [\A c \in Calls : /\ disp[c] = "unknown" => disp'[c] = "unknown"
                             /\ state[c] = "closed" =>
                                  /\ state'[c] = "closed" /\ disp'[c] = disp[c]
                                  /\ ver'[c] = ver[c]
                             /\ reply[c] # "none" => reply'[c] = reply[c]]_vars
  BY EveryFate, FateSticky, ReplyFrame DEF SafeInv, RowInv
<1>2. QED
  BY <1>1, TypeInvariant, SafeInvariant, LogInvariant, CallInvariant, PTL
     DEF Spec, UnknownSticky

-------------------------------------------------------------------------------
(* The refinement: every fate of a call is a step of module ToolCall, or      *)
(* nothing happens there.                                                     *)
LEMMA FateKeepsPromise ==
    ASSUME NotStarted, NEW c \in Calls, entered[c] \in Nat, entered[c] <= 1,
           effect[c] \in {"none", "started", "failed", "done"}, RowHonest(c),
           appr[c] # "none" => c \in ApprovalCalls, Fate(c)
    PROVE  [Call(c)!Next]_(Call(c)!vars)
<1>0. /\ state[c] \in {"none", "prepared", "awaiting"} => entered[c] = 0
      /\ entered[c] = 0 <=> effect[c] = "none"
  BY DEF NotStarted, RowHonest
<1>1. CASE Rests(c)
  <2>1. UNCHANGED Call(c)!vars
    BY <1>1 DEF Rests, SameResult, KeepsConsent, Call!vars
  <2>2. QED
    BY <2>1
<1>2. CASE Proposed(c)
  <2>1. Call(c)!Propose
    BY <1>0, <1>2 DEF Proposed, SameResult, Call!Propose
  <2>2. QED
    BY <2>1 DEF Call!Next
<1>3. CASE Asked(c) \/ Started(c)
  <2>1. Call(c)!Consent \/ UNCHANGED Call(c)!vars
    BY <1>0, <1>3 DEF Asked, Started, SameResult, Call!Consent, Call!vars
  <2>2. QED
    BY <2>1 DEF Call!Next
<1>4. CASE Entered(c)
  <2>1. Call(c)!Enter
    BY <1>0, <1>4 DEF Entered, Call!Enter
  <2>2. QED
    BY <2>1 DEF Call!Next
<1>5. CASE Returned(c)
  <2>1. Call(c)!Happen \/ UNCHANGED Call(c)!vars
    BY <1>0, <1>5 DEF Returned, Call!Happen, Call!vars
  <2>2. QED
    BY <2>1 DEF Call!Next
<1>6. CASE ResultRecorded(c)
  <2>1. UNCHANGED Call(c)!vars
    BY <1>6 DEF ResultRecorded, Call!vars
  <2>2. QED
    BY <2>1
<1>7. CASE Closed(c)
  <2>1. Call(c)!Settle
    <3>1. disp'[c] \in Call(c)!Honest
      BY <1>7 DEF Closed, Verdicts
    <3>2. QED
      BY <1>0, <1>7, <3>1 DEF Closed, KeepsConsent, Call!Settle
  <2>2. QED
    BY <2>1 DEF Call!Next
<1>8. QED
  BY <1>1, <1>2, <1>3, <1>4, <1>5, <1>6, <1>7 DEF Fate

(* Every call of a Session keeps the promise of module ToolCall: put to the   *)
(* user before it runs, run at most once, settled once and for all with a     *)
(* verdict that does not claim more than what happened.                       *)
THEOREM PromiseKept == Spec => CallsKeepPromise
<1>1. Init => \A c \in Calls : Call(c)!Init
  BY DEF Init, Call!Init
<1>2. TypeInv /\ SafeInv /\ LogInv /\ CallInv /\ [Next]_vars
        => [\A c \in Calls : [Call(c)!Next]_(Call(c)!vars)]_vars
  <2>1. SUFFICES ASSUME TypeInv, SafeInv, LogInv, CallInv, [Next]_vars, NEW c \in Calls
                 PROVE  [Call(c)!Next]_(Call(c)!vars)
    OBVIOUS
  <2>2. /\ NotStarted /\ entered[c] \in Nat /\ entered[c] <= 1
        /\ effect[c] \in {"none", "started", "failed", "done"} /\ RowHonest(c)
        /\ appr[c] # "none" => c \in ApprovalCalls
    BY <2>1 DEF TypeInv, TypeOK, WorldOK, SafeInv, RowInv, AtMostOnce, OnlyGatedAsked,
       CallInv, RowsHonest
  <2>3. Fate(c)
    BY <2>1, EveryFate
  <2>4. QED
    BY <2>2, <2>3, FateKeepsPromise
<1>3. QED
  BY <1>1, <1>2, TypeInvariant, SafeInvariant, LogInvariant, CallInvariant, PTL
     DEF Spec, CallsKeepPromise

===============================================================================
