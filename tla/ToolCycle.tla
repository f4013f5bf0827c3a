------------------------------- MODULE ToolCycle -------------------------------
(* One chat Session of Morrow executing the tool calls its model proposes.    *)
(* The driver (runtime/agent.py AgentLoop with runtime/tool_cycle.py) walks   *)
(* the calls of one assistant message in order; each of its steps is one      *)
(* SQLite transaction or one suspension point, so that the approvals API, a   *)
(* grant revocation issued from another process, or a crash may fall between  *)
(* any two of them.  Crash recovery is in module SessionRecovery.             *)
EXTENDS ExecutionModel

VARIABLES
    \* tool_executions rows
    state, disp, ver, cancel,
    \* approvals rows; sessioned: granted_scope starts with "session:";
    \* bound: its scope_revision is the current one
    appr, sessioned, bound,
    \* the capability grant row of the AgentRun
    grant,
    \* the conversation log: unresolved call ids, open turn, tool messages
    pending, turn, reply,
    \* the session row, and the stored projections a resumed run is built from
    health, corrupt,
    \* the latest recovery report, its items and the decisions on them; handled:
    \* calls acknowledged or aborted in earlier reports
    rstatus, class, resol, handled,
    \* process memory
    up, pc, live, res, lver, fin, resumable,
    \* the world outside: clocks, and what handlers really did
    lapsed, entered, effect,
    \* history: the session was quarantined after its open report was made
    quarantinedLater

rowVars      == <<state, disp, ver, cancel>>
approvalVars == <<appr, sessioned, bound>>
logVars      == <<pending, turn, reply>>
sessionVars  == <<health, corrupt>>
reportVars   == <<rstatus, class, resol, handled, quarantinedLater>>
driverVars   == <<up, pc, live, res, lver, fin, resumable>>
worldVars    == <<lapsed, entered, effect>>

vars == <<rowVars, approvalVars, grant, logVars, sessionVars, reportVars,
          driverVars, worldVars>>

(* Where the driver stands.  "idle": no driver; "ready": about to ask the     *)
(* model; "loop": at the head of the per-call loop; "precedent", "wait":      *)
(* gated; "admit": EXECUTING is durable, evidence not re-read yet; "run": in  *)
(* the handler; "record", "reply": the two commits of a result; "closing",    *)
(* "closemsg", "finish": closing an interrupted batch and its turn.           *)
InCall  == {"loop", "precedent", "wait", "admit", "run", "record", "reply"}
Closing == {"closing", "closemsg"}
PCs     == {"idle", "ready", "finish"} \cup InCall \cup Closing

Reasons == {"none", "interrupted", "cancelled", "error", "steered"}
Results == {"none", "ok", "failed", "unknown", "denied"}

Cur == Head(pending)

InBatch == {pending[i] : i \in DOMAIN pending}

Unused == {c \in Calls : state[c] = "none"}

RowsOK ==
    /\ state \in [Calls -> States]
    /\ disp \in [Calls -> Dispositions]
    /\ ver \in [Calls -> Nat]
    /\ cancel \in [Calls -> BOOLEAN]

ApprovalsOK ==
    /\ appr \in [Calls -> Resolutions]
    /\ sessioned \subseteq Calls
    /\ bound \subseteq Calls

LogOK ==
    /\ pending \in Seq(Calls)
    /\ turn \in {"active", "closed"}
    /\ reply \in [Calls -> {"none", "ok", "error", "lost"}]

SessionOK ==
    /\ health \in {"ok", "needs_recovery", "quarantined"}
    /\ corrupt \in BOOLEAN

ReportOK ==
    /\ rstatus \in {"none", "open", "resolved", "quarantined"}
    /\ class \in [Calls -> Classes \cup {"none"}]
    /\ resol \in [Calls -> {"none", "ack", "abort", "quarantine"}]
    /\ handled \subseteq Calls
    /\ quarantinedLater \in BOOLEAN

DriverOK ==
    /\ up \in BOOLEAN
    /\ pc \in PCs
    /\ live \in {"none", "approve", "reject"}
    /\ res \in Results
    /\ lver \in Nat
    /\ fin \in Reasons
    /\ resumable \in BOOLEAN

WorldOK ==
    /\ lapsed \in [Calls -> BOOLEAN]
    /\ entered \in [Calls -> Nat]
    /\ effect \in [Calls -> {"none", "started", "failed", "done"}]

(* Type invariant.                                                            *)
TypeOK ==
    /\ RowsOK /\ ApprovalsOK /\ grant \in {"active", "expired", "revoked"}
    /\ LogOK /\ SessionOK /\ ReportOK /\ DriverOK /\ WorldOK

(* A healthy session that has not done anything yet, its host running.        *)
Init ==
    /\ state = [c \in Calls |-> "none"]
    /\ disp = [c \in Calls |-> "pending"]
    /\ ver = [c \in Calls |-> 0]
    /\ cancel = [c \in Calls |-> FALSE]
    /\ appr = [c \in Calls |-> "none"]
    /\ sessioned = {} /\ bound = {}
    /\ grant = "active"
    /\ pending = << >> /\ turn = "closed"
    /\ reply = [c \in Calls |-> "none"]
    /\ health = "ok" /\ corrupt = FALSE
    /\ rstatus = "none"
    /\ class = [c \in Calls |-> "none"]
    /\ resol = [c \in Calls |-> "none"]
    /\ handled = {} /\ quarantinedLater = FALSE
    /\ up = TRUE /\ pc = "idle" /\ live = "none" /\ res = "none"
    /\ lver = 0 /\ fin = "none" /\ resumable = FALSE
    /\ lapsed = [c \in Calls |-> FALSE]
    /\ entered = [c \in Calls |-> 0]
    /\ effect = [c \in Calls |-> "none"]

-------------------------------------------------------------------------------
(* Row operations shared by the driver, the approvals API and recovery.       *)

(* transition_execution followed by save_execution: an illegal transition     *)
(* raises, a legal one takes the next row version.                            *)
MoveRow(c, to, d) ==
    /\ Legal(state[c], to)
    /\ state' = [state EXCEPT ![c] = to]
    /\ disp' = [disp EXCEPT ![c] = d]
    /\ ver' = [ver EXCEPT ![c] = @ + 1]
    /\ UNCHANGED cancel

(* What resolving a pending approval with "not approved" writes.              *)
Refusal(c) == IF lapsed[c] THEN "expired" ELSE "denied"

(* _close_before_handler: re-reads the row; a row already completed or closed *)
(* is returned as it is, any other is closed with the disposition, refusing   *)
(* its pending approval in the same transaction.                              *)
CloseBeforeHandler(c, d) ==
    \/ /\ state[c] \in {"completed", "closed"}
       /\ UNCHANGED <<rowVars, appr>>
    \/ /\ state[c] \notin {"completed", "closed"}
       /\ MoveRow(c, "closed", d)
       /\ appr' = IF appr[c] = "pending" THEN [appr EXCEPT ![c] = Refusal(c)] ELSE appr

(* The transaction that consumes an approval and starts the execution.        *)
ConsumeAndMarkExecuting(c) ==
    /\ appr' = [appr EXCEPT ![c] = "approved"]
    /\ MoveRow(c, "executing", disp[c])

(* assert_execution_permission: a call bound to a grant needs it active.      *)
Permitted(c) == c \in GrantCalls => grant = "active"

(* session_scopes.active: an approval given for the session counts only while *)
(* the scope has not been revoked since.                                      *)
ScopeActive(c) == c \in sessioned => c \in bound

\* Mutant: the scope of the approval is not read again.
MayEnterOnAnyScope(c) ==
    /\ state[c] = "executing" /\ ~cancel[c] /\ Permitted(c)
    /\ c \in ApprovalCalls => appr[c] = "approved" /\ ~lapsed[c]

(* The evidence assert_handler_may_enter demands of the rows as they are now. *)
MayEnter(c) ==
    /\ state[c] = "executing"
    /\ ~cancel[c]
    /\ Permitted(c)
    /\ c \in ApprovalCalls => appr[c] = "approved" /\ ~lapsed[c] /\ ScopeActive(c)

-------------------------------------------------------------------------------
(* The driver.  Goto: the step ends at another control point, and everything  *)
(* else in process memory keeps its value.  A variable of process memory no   *)
(* later step reads any more (live, res, lver, fin) takes its idle value.     *)
Goto(p) == pc' = p /\ UNCHANGED <<up, live, res, lver, fin, resumable>>

\* The call is over without its handler: only an error result is left to commit.
GotoReply(r) ==
    /\ pc' = "reply" /\ res' = r /\ live' = "none" /\ lver' = 0
    /\ UNCHANGED <<up, fin, resumable>>

\* EXECUTING is durable; the driver holds the row it wrote or re-read.
GotoAdmit(v) ==
    /\ pc' = "admit" /\ lver' = v /\ live' = "none"
    /\ UNCHANGED <<up, res, fin, resumable>>

GotoClosing(f) ==
    /\ pc' = "closing" /\ fin' = f /\ live' = "none" /\ res' = "none" /\ lver' = 0
    /\ UNCHANGED <<up, resumable>>

(* A user message opens a Turn of a healthy session.                          *)
StartTurn ==
    /\ up /\ pc = "idle" /\ turn = "closed" /\ health = "ok" /\ Unused # {}
    /\ turn' = "active"
    /\ Goto("ready")
    /\ UNCHANGED <<rowVars, approvalVars, grant, pending, reply, sessionVars,
                   reportVars, worldVars>>

Batches(S) ==
    {b \in UNION {[1..n -> S] : n \in 1..Cardinality(S)} :
        \A i, j \in DOMAIN b : b[i] = b[j] => i = j}

(* The model answered with tool calls: the assistant message and the prepared *)
(* execution of every call commit together.  A call is bound to a grant only  *)
(* while the grant is active.                                                 *)
CommitBatch(b) ==
    /\ pc = "ready" /\ pending = << >>
    /\ \A i \in DOMAIN b : Permitted(b[i])
    /\ pending' = b
    /\ LET new == {b[i] : i \in DOMAIN b} IN
       /\ state' = [c \in Calls |-> IF c \notin new THEN state[c]
                                    ELSE IF c \in ApprovalCalls THEN "awaiting"
                                    ELSE "prepared"]
       /\ ver' = [c \in Calls |-> IF c \in new THEN 1 ELSE ver[c]]
    /\ Goto("loop")
    /\ UNCHANGED <<disp, cancel, approvalVars, grant, turn, reply, sessionVars,
                   reportVars, worldVars>>

(* A resumed Turn whose log still has unresolved calls cannot build a model   *)
(* request, and its calls are in no active batch: closing them raises, and    *)
(* the driver ends with the Turn open.                                        *)
ContextRefused ==
    /\ pc = "ready" /\ pending # << >>
    /\ Goto("idle")
    /\ UNCHANGED <<rowVars, approvalVars, grant, logVars, sessionVars,
                   reportVars, worldVars>>

(* The final answer, a stop at a request boundary, or the end of a closing.   *)
FinishTurn ==
    /\ pc \in {"ready", "finish"} /\ pending = << >>
    /\ turn' = "closed"
    /\ pc' = "idle" /\ fin' = "none" /\ resumable' = FALSE
    /\ UNCHANGED <<up, live, res, lver>>
    /\ UNCHANGED <<rowVars, approvalVars, grant, pending, reply, sessionVars,
                   reportVars, worldVars>>

(* The gate refuses: the policy verdict is DENY, or the permission evidence   *)
(* of the execution does not hold any more.                                   *)
DenyAtGate ==
    /\ pc = "loop"
    /\ Cur \in DeniedCalls \/ ~Permitted(Cur)
    /\ CloseBeforeHandler(Cur, "denied")
    /\ GotoReply("denied")
    /\ UNCHANGED <<sessioned, bound, grant, logVars, sessionVars, reportVars, worldVars>>

PassesPolicy(c) == c \notin DeniedCalls /\ Permitted(c)

(* create_pending_approval: a session-scoped precedent resolves the new row   *)
(* at creation; otherwise the driver waits for a decision.                    *)
RequestApproval ==
    /\ pc = "loop" /\ PassesPolicy(Cur) /\ Cur \in ApprovalCalls
    /\ IF Cur \in ScopeCalls /\ bound # {}
       THEN /\ appr' = [appr EXCEPT ![Cur] = "granted"]
            /\ sessioned' = sessioned \cup {Cur}
            /\ bound' = bound \cup {Cur}
            /\ Goto("precedent")
       ELSE /\ appr' = [appr EXCEPT ![Cur] = "pending"]
            /\ pc' = "wait" /\ live' = "none"
            /\ UNCHANGED <<sessioned, bound, up, res, lver, fin, resumable>>
    /\ UNCHANGED <<rowVars, grant, logVars, sessionVars, reportVars, worldVars>>

(* The approval created from a precedent is consumed, unless the scope was    *)
(* revoked, the approval expired or the grant went away in between.           *)
ConsumePrecedent ==
    /\ pc = "precedent"
    /\ \/ /\ Permitted(Cur) /\ ScopeActive(Cur) /\ ~lapsed[Cur]
          /\ ConsumeAndMarkExecuting(Cur)
          /\ GotoAdmit(ver[Cur] + 1)
       \/ /\ ~(Permitted(Cur) /\ ScopeActive(Cur) /\ ~lapsed[Cur])
          /\ CloseBeforeHandler(Cur, "denied")
          /\ GotoReply("denied")
    /\ UNCHANGED <<sessioned, bound, grant, logVars, sessionVars, reportVars, worldVars>>

MarkExecuting ==
    /\ pc = "loop" /\ PassesPolicy(Cur) /\ Cur \notin ApprovalCalls
    /\ MoveRow(Cur, "executing", disp[Cur])
    /\ GotoAdmit(ver[Cur] + 1)
    /\ UNCHANGED <<approvalVars, grant, logVars, sessionVars, reportVars, worldVars>>

(* An in-process port (the terminal) answers without touching the rows.       *)
DecideInProcess(d) ==
    /\ pc = "wait" /\ live = "none"
    /\ live' = d
    /\ UNCHANGED <<up, pc, res, lver, fin, resumable>>
    /\ UNCHANGED <<rowVars, approvalVars, grant, logVars, sessionVars, reportVars, worldVars>>

(* The waiter wakes with "approve" and the row is still pending: resolve,     *)
(* consume and start in one transaction.                                      *)
ApproveHere ==
    /\ pc = "wait" /\ live = "approve" /\ appr[Cur] = "pending"
    /\ Permitted(Cur) /\ ~lapsed[Cur]
    /\ ConsumeAndMarkExecuting(Cur)
    /\ GotoAdmit(ver[Cur] + 1)
    /\ UNCHANGED <<sessioned, bound, grant, logVars, sessionVars, reportVars, worldVars>>

(* The approvals API already resolved it: the re-read rows must agree.        *)
ApprovedElsewhere == appr[Cur] = "approved" /\ state[Cur] = "executing"

\* Mutant: the wake-up is taken for a spurious one and the wait goes on.
AdoptApprovalLater ==
    /\ pc = "wait" /\ live = "approve" /\ ApprovedElsewhere
    /\ live' = "none"
    /\ UNCHANGED <<up, pc, res, lver, fin, resumable>>
    /\ UNCHANGED <<rowVars, approvalVars, grant, logVars, sessionVars, reportVars, worldVars>>

AdoptApproval ==
    /\ pc = "wait" /\ live = "approve" /\ ApprovedElsewhere
    /\ GotoAdmit(ver[Cur])
    /\ UNCHANGED <<rowVars, approvalVars, grant, logVars, sessionVars, reportVars, worldVars>>

(* A rejection, an approval that came too late, or a live decision that       *)
(* conflicts with the rows: the call is denied.                               *)
RefuseApproval ==
    /\ pc = "wait" /\ live # "none"
    /\ live = "approve" =>
         /\ appr[Cur] = "pending" => ~Permitted(Cur) \/ lapsed[Cur]
         /\ ~ApprovedElsewhere
    /\ CloseBeforeHandler(Cur, "denied")
    /\ GotoReply("denied")
    /\ UNCHANGED <<sessioned, bound, grant, logVars, sessionVars, reportVars, worldVars>>

(* Immediately before the handler every piece of evidence is read again.      *)
EnterHandler ==
    /\ pc = "admit" /\ MayEnter(Cur)
    /\ entered' = [entered EXCEPT ![Cur] = @ + 1]
    /\ effect' = [effect EXCEPT ![Cur] = "started"]
    /\ pc' = "run" /\ lver' = ver[Cur]
    /\ UNCHANGED <<up, live, res, fin, resumable, lapsed>>
    /\ UNCHANGED <<rowVars, approvalVars, grant, logVars, sessionVars, reportVars>>

RefuseEntry ==
    /\ pc = "admit" /\ ~MayEnter(Cur)
    /\ CloseBeforeHandler(Cur, "denied")
    /\ GotoReply("denied")
    /\ UNCHANGED <<sessioned, bound, grant, logVars, sessionVars, reportVars, worldVars>>

(* The handler comes back; a tool may itself report an unknown outcome.  The  *)
(* driver still holds the row it entered with.                                *)
HandlerReturns(r) ==
    /\ pc = "run"
    /\ effect' = [effect EXCEPT ![Cur] = CASE r = "ok" -> "done"
                                           [] r = "failed" -> "failed"
                                           [] OTHER -> "started"]
    /\ pc' = "record" /\ res' = r
    /\ UNCHANGED <<up, live, lver, fin, resumable, lapsed, entered>>
    /\ UNCHANGED <<rowVars, approvalVars, grant, logVars, sessionVars, reportVars>>

Interrupted(c) == IF UnknownAfterEntry(c) THEN "unknown" ELSE "failed"

\* Mutant: a tool that timed out is tried again.
HandlerTimesOutAndRetries ==
    /\ pc = "run"
    /\ GotoAdmit(lver)
    /\ UNCHANGED <<rowVars, approvalVars, grant, logVars, sessionVars, reportVars, worldVars>>

(* tool_timeout_seconds passed, or the 50 ms poll saw a cancellation request: *)
(* the handler task is cancelled.  Only the second re-reads the row.          *)
HandlerTimesOut ==
    /\ pc = "run"
    /\ pc' = "record" /\ res' = Interrupted(Cur)
    /\ UNCHANGED <<up, live, lver, fin, resumable>>
    /\ UNCHANGED <<rowVars, approvalVars, grant, logVars, sessionVars, reportVars, worldVars>>

HandlerCancelled ==
    /\ pc = "run" /\ cancel[Cur]
    /\ pc' = "record" /\ res' = Interrupted(Cur) /\ lver' = ver[Cur]
    /\ UNCHANGED <<up, live, fin, resumable>>
    /\ UNCHANGED <<rowVars, approvalVars, grant, logVars, sessionVars, reportVars, worldVars>>

\* Mutant: the error result of a handler that ran counts as a success.
RecordedOptimist(r) == IF r \in {"ok", "failed"} THEN "succeeded" ELSE "unknown"

Recorded(r) == CASE r = "ok" -> "succeeded" [] r = "failed" -> "failed" [] OTHER -> "unknown"

(* record_handler_completed against the row version the driver holds.         *)
RecordCompleted ==
    /\ pc = "record" /\ lver = ver[Cur]
    /\ MoveRow(Cur, "completed", Recorded(res))
    /\ pc' = "reply" /\ lver' = 0
    /\ UNCHANGED <<up, live, res, fin, resumable>>
    /\ UNCHANGED <<approvalVars, grant, logVars, sessionVars, reportVars, worldVars>>

(* The commit is refused (a stale row version: a cancellation was requested   *)
(* after the handler returned) or the store fails: the generic error path.    *)
CommitFails ==
    /\ pc \in {"record", "reply"}
    /\ GotoClosing("error")
    /\ UNCHANGED <<rowVars, approvalVars, grant, logVars, sessionVars, reportVars, worldVars>>

\* Mutant: the row is not closed with the message.
AppendReplyOnly(c, r) ==
    /\ pending' = Tail(pending)
    /\ reply' = [reply EXCEPT ![c] = r]
    /\ UNCHANGED rowVars
    /\ UNCHANGED turn

(* The tool message enters the log and the row is closed, in one transaction. *)
AppendReply(c, r) ==
    /\ pending' = Tail(pending)
    /\ reply' = [reply EXCEPT ![c] = r]
    /\ IF state[c] = "closed" THEN UNCHANGED rowVars
                              ELSE MoveRow(c, "closed", disp[c])
    /\ UNCHANGED turn

CommitReply ==
    /\ pc = "reply"
    /\ AppendReply(Cur, IF res = "ok" THEN "ok" ELSE "error")
    /\ pc' = (IF Len(pending) = 1 THEN "ready" ELSE "loop") /\ res' = "none"
    /\ UNCHANGED <<up, live, lver, fin, resumable>>
    /\ UNCHANGED <<approvalVars, grant, sessionVars, reportVars, worldVars>>

-------------------------------------------------------------------------------
(* Interruptions: a pause or a steering message at the head of the loop, a    *)
(* user cancellation, an exhausted deadline.  A pause also wakes the approval *)
(* wait; a running handler sees cancellation and deadline only.               *)
Interrupt(f) ==
    /\ \/ pc = "loop" /\ f # "none"
       \/ pc = "wait" /\ f \in {"interrupted", "cancelled", "error"}
       \/ pc = "run" /\ f \in {"cancelled", "error"}
    /\ GotoClosing(f)
    /\ UNCHANGED <<rowVars, approvalVars, grant, logVars, sessionVars, reportVars, worldVars>>

(* _close_unresolved, one call at a time in call order, two transactions      *)
(* each: settle the execution row, then commit a synthetic error message.     *)
SettleRow ==
    /\ pc = "closing"
    /\ CASE state[Cur] \in {"prepared", "awaiting"} -> CloseBeforeHandler(Cur, "cancelled")
         [] state[Cur] = "executing" ->
              MoveRow(Cur, "completed", "unknown") /\ UNCHANGED appr
         [] OTHER -> UNCHANGED <<rowVars, appr>>
    /\ Goto("closemsg")
    /\ UNCHANGED <<sessioned, bound, grant, logVars, sessionVars, reportVars, worldVars>>

CommitSynthetic ==
    /\ pc = "closemsg"
    /\ AppendReply(Cur, "error")
    /\ pc' = IF Len(pending) > 1 THEN "closing"
             ELSE IF fin = "steered" THEN "ready" ELSE "finish"
    /\ fin' = IF pc' = "ready" THEN "none" ELSE fin
    /\ UNCHANGED <<up, live, res, lver, resumable>>
    /\ UNCHANGED <<approvalVars, grant, sessionVars, reportVars, worldVars>>

(* The store fails while the batch is being closed: the error leaves the      *)
(* driver, the Turn stays open.                                               *)
ClosingFails ==
    /\ pc \in Closing \cup {"finish"}
    /\ pc' = "idle" /\ fin' = "none"
    /\ UNCHANGED <<up, live, res, lver, resumable>>
    /\ UNCHANGED <<rowVars, approvalVars, grant, logVars, sessionVars, reportVars, worldVars>>

-------------------------------------------------------------------------------
(* Other actors.                                                              *)

(* One transaction resolves a pending approval, and starts or closes its      *)
(* execution.  s: the user allows the whole session.                          *)
ResolveRows(c, d, s) ==
    /\ appr[c] = "pending" /\ Permitted(c)
    /\ s => d = "approve" /\ c \in ScopeCalls
    /\ IF d = "approve" /\ ~lapsed[c]
       THEN /\ ConsumeAndMarkExecuting(c)
            /\ sessioned' = IF s THEN sessioned \cup {c} ELSE sessioned
            /\ bound' = IF s THEN bound \cup {c} ELSE bound
       ELSE /\ MoveRow(c, "closed", "denied")
            /\ appr' = [appr EXCEPT ![c] = Refusal(c)]
            /\ UNCHANGED <<sessioned, bound>>

\* Mutant: only approvals are delivered.
WakeApprovals(S, d) ==
    /\ live' = IF d = "approve" /\ pc = "wait" /\ Cur \in S /\ live = "none" THEN d ELSE live
    /\ UNCHANGED <<up, pc, res, lver, fin, resumable>>

(* The host delivers a decision to the waiter of the approval, if the driver  *)
(* waits for it and nobody claimed the delivery before.                       *)
Wake(S, d) ==
    /\ live' = IF pc = "wait" /\ Cur \in S /\ live = "none" THEN d ELSE live
    /\ UNCHANGED <<up, pc, res, lver, fin, resumable>>

(* The approvals API: the decision commits, only then the waiter is woken.    *)
ApiResolve(c, d, s) ==
    /\ up
    /\ ResolveRows(c, d, s)
    /\ Wake({c}, d)
    /\ UNCHANGED <<grant, logVars, sessionVars, reportVars, worldVars>>

PendingGrantCalls == {c \in GrantCalls : appr[c] = "pending"}

\* Mutant: revoking the grant closes running executions, too.
RevokeRowsRunning ==
    /\ GrantCalls # {} /\ grant # "revoked"
    /\ grant' = "revoked"
    /\ LET closed == {c \in GrantCalls : state[c] \in {"prepared", "awaiting", "executing"}}
       IN /\ appr' = [c \in Calls |-> IF c \in PendingGrantCalls THEN "denied" ELSE appr[c]]
          /\ state' = [c \in Calls |-> IF c \in closed THEN "closed" ELSE state[c]]
          /\ disp' = [c \in Calls |-> IF c \in closed THEN "denied" ELSE disp[c]]
          /\ ver' = [c \in Calls |-> IF c \in closed THEN ver[c] + 1 ELSE ver[c]]
          /\ UNCHANGED cancel

(* Revoking the grant denies what it would have allowed and asks running      *)
(* handlers to stop, in one transaction.                                      *)
RevokeRows ==
    /\ GrantCalls # {} /\ grant # "revoked"
    /\ grant' = "revoked"
    /\ LET closed == {c \in GrantCalls : state[c] \in {"prepared", "awaiting"}}
           asked  == {c \in GrantCalls : state[c] = "executing"}
       IN /\ appr' = [c \in Calls |-> IF c \in PendingGrantCalls THEN "denied" ELSE appr[c]]
          /\ state' = [c \in Calls |-> IF c \in closed THEN "closed" ELSE state[c]]
          /\ disp' = [c \in Calls |-> IF c \in closed THEN "denied" ELSE disp[c]]
          /\ cancel' = [c \in Calls |-> cancel[c] \/ c \in asked]
          /\ ver' = [c \in Calls |-> IF c \in closed \cup asked THEN ver[c] + 1 ELSE ver[c]]

RevokeGrant ==
    /\ up
    /\ RevokeRows
    /\ Wake(PendingGrantCalls, "reject")
    /\ UNCHANGED <<sessioned, bound, logVars, sessionVars, reportVars, worldVars>>

(* The revision of the session scope advances: earlier approvals lose it.     *)
RevokeScope ==
    /\ up /\ bound # {} /\ bound' = {}
    /\ UNCHANGED <<rowVars, appr, sessioned, grant, logVars, sessionVars, reportVars,
                   driverVars, worldVars>>

(* Clocks: a grant expires; an approval passes its expires_at.                *)
GrantExpires ==
    /\ GrantCalls # {} /\ grant = "active" /\ grant' = "expired"
    /\ UNCHANGED <<rowVars, approvalVars, logVars, sessionVars, reportVars,
                   driverVars, worldVars>>

Lapse(c) ==
    /\ appr[c] \in {"pending", "granted", "approved"} /\ ~lapsed[c]
    /\ state[c] # "closed"
    /\ lapsed' = [lapsed EXCEPT ![c] = TRUE]
    /\ UNCHANGED <<entered, effect>>
    /\ UNCHANGED <<rowVars, approvalVars, grant, logVars, sessionVars, reportVars, driverVars>>

-------------------------------------------------------------------------------
(* Steps the driver takes on its own once it runs.                            *)
DriverStep ==
    \/ ContextRefused \/ FinishTurn
    \/ DenyAtGate \/ RequestApproval \/ ConsumePrecedent \/ MarkExecuting
    \/ ApproveHere \/ AdoptApproval \/ RefuseApproval
    \/ EnterHandler \/ RefuseEntry
    \/ \E r \in {"ok", "failed", "unknown"} : HandlerReturns(r)
    \/ HandlerTimesOut \/ HandlerCancelled
    \/ RecordCompleted \/ CommitFails \/ CommitReply
    \/ SettleRow \/ CommitSynthetic \/ ClosingFails

(* What users and clocks do.                                                  *)
EnvironmentStep ==
    \/ StartTurn
    \/ \E b \in Batches(Unused) : CommitBatch(b)
    \/ \E f \in Reasons : Interrupt(f)
    \/ \E d \in {"approve", "reject"} : DecideInProcess(d)
    \/ \E c \in Calls, d \in {"approve", "reject"}, s \in BOOLEAN : ApiResolve(c, d, s)
    \/ RevokeGrant \/ RevokeScope \/ GrantExpires
    \/ \E c \in Calls : Lapse(c)

===============================================================================
