---------------------------- MODULE SessionRecovery ----------------------------
(* Crash and recovery of the Session modelled by ToolCycle: what survives a   *)
(* crash, how the restored host discovers interrupted executions, and the     *)
(* decisions a user takes on the recovery report before work goes on          *)
(* (application/turn_lifecycle.py, application/recovery.py,                   *)
(* application/api_recovery.py).                                              *)
EXTENDS ToolCycle

CONSTANT MayCorrupt     \* the stored projection of a run may become unreadable

ASSUME CorruptAssumption == MayCorrupt \in BOOLEAN

(* The host dies, or only the driver task goes away without a user's cancel:  *)
(* either way process memory is lost and nothing durable is written.          *)
Crash ==
    /\ up
    /\ up' = FALSE /\ pc' = "idle" /\ live' = "none" /\ res' = "none"
    /\ lver' = 0 /\ fin' = "none" /\ resumable' = FALSE
    /\ UNCHANGED <<rowVars, approvalVars, grant, logVars, sessionVars, reportVars, worldVars>>

(* The stored projection a resumed run is built from becomes unreadable       *)
(* (StorageErrorCode.NEEDS_REPAIR); nothing in the program repairs it.        *)
Corrupt ==
    /\ MayCorrupt /\ ~corrupt /\ corrupt' = TRUE
    /\ UNCHANGED <<rowVars, approvalVars, grant, logVars, health, reportVars,
                   driverVars, worldVars>>

Decided(c) == resol[c] \in {"ack", "abort"}

(* What discover lists: every execution not closed, and every execution whose *)
(* outcome is unknown and that no earlier report settled.                     *)
Candidates ==
    {c \in Calls : state[c] \notin {"none", "closed"}}
        \cup {c \in Calls : /\ state[c] = "closed" /\ disp[c] = "unknown"
                            /\ c \notin handled /\ ~Decided(c)}

Items == {c \in Calls : class[c] # "none"}

(* All items of a report block: they were not closed, or unknown.             *)
Undecided == {c \in Items : resol[c] = "none"}

(* Files are observed for reconciled tools only.                              *)
Observations ==
    {obs \in [Calls -> ObservedClasses] :
        \A c \in Calls : Policy[c] # "requires_reconciliation" => obs[c] = "outcome_unknown"}

OpenReport(obs) ==
    /\ rstatus' = "open"
    /\ class' = [c \in Calls |-> IF c \in Candidates
                                 THEN Classify(state[c], disp[c], Policy[c], obs[c])
                                 ELSE "none"]
    /\ resol' = [c \in Calls |-> "none"]
    /\ handled' = handled \cup {c \in Calls : Decided(c)}

(* A restored Session rebuilds the projection of its last run only when there *)
(* is something to go on with.                                                *)
HasWork == rstatus = "open" \/ turn = "active"

(* What restore_into writes: an open report is kept, otherwise one is opened  *)
(* if there is anything to review; then the Session needs recovery.  An       *)
(* unreadable projection quarantines it.                                      *)
RestoreRows(obs) ==
    /\ UNCHANGED <<rowVars, approvalVars, grant, logVars, corrupt, worldVars>>
    /\ IF rstatus # "open" /\ Candidates # {}
       THEN OpenReport(obs) ELSE UNCHANGED <<rstatus, class, resol, handled>>
    /\ health' = IF health = "quarantined" \/ (corrupt /\ HasWork') THEN "quarantined"
                 ELSE IF rstatus' = "open" THEN "needs_recovery" ELSE health
    /\ quarantinedLater' =
         CASE rstatus # "open" /\ rstatus' = "open" -> FALSE
           [] rstatus = "open" /\ health # "quarantined" /\ health' = "quarantined" -> TRUE
           [] OTHER -> quarantinedLater

(* A restarted host restores the Session.  Without a report, an open Turn of  *)
(* a healthy Session may simply be resumed.                                   *)
Restore(obs) ==
    /\ ~up /\ up' = TRUE
    /\ RestoreRows(obs)
    /\ resumable' = (rstatus' # "open" /\ turn = "active" /\ health' = "ok")
    /\ UNCHANGED <<pc, live, res, lver, fin>>

(* The user asks a restored Session without a report to go on.                *)
Resume ==
    /\ up /\ pc = "idle" /\ resumable /\ turn = "active" /\ health = "ok"
    /\ Goto("ready")
    /\ UNCHANGED <<rowVars, approvalVars, grant, logVars, sessionVars, reportVars, worldVars>>

-------------------------------------------------------------------------------
(* Decisions on the open report.  Each is one transaction: the report as      *)
(* decided, the executions it closes, the error messages for their unresolved *)
(* calls, and the health of the Session.                                      *)

\* Mutants: the outcome already recorded, or the class as well, is ignored.
SettledByClass(c, r) ==
    IF class[c] = "outcome_unknown" THEN "unknown"
    ELSE IF r = "abort" THEN "cancelled" ELSE "interrupted"

SettledByChoice(c, r) == IF r = "abort" THEN "cancelled" ELSE "interrupted"

(* The disposition a decision writes into an execution not yet closed: what   *)
(* is unknown stays unknown.                                                  *)
Settled(c, r) ==
    IF class[c] = "outcome_unknown" \/ disp[c] = "unknown" THEN "unknown"
    ELSE IF r = "abort" THEN "cancelled" ELSE "interrupted"

\* Mutant: executions whose result is recorded are left as they are.
CloseUnrecorded(S, r) ==
    LET open == {c \in S : state[c] \notin {"completed", "closed"}} IN
    /\ state' = [c \in Calls |-> IF c \in open THEN "closed" ELSE state[c]]
    /\ disp' = [c \in Calls |-> IF c \in open THEN Settled(c, r) ELSE disp[c]]
    /\ ver' = [c \in Calls |-> IF c \in open THEN ver[c] + 1 ELSE ver[c]]
    /\ UNCHANGED cancel

(* _persist_closed_execution takes an EXECUTING row through HANDLER_COMPLETED *)
(* (two row versions) before it closes it.                                    *)
CloseSettled(S, r) ==
    LET open == {c \in S : state[c] # "closed"} IN
    /\ state' = [c \in Calls |-> IF c \in open THEN "closed" ELSE state[c]]
    /\ disp' = [c \in Calls |-> IF c \in open THEN Settled(c, r) ELSE disp[c]]
    /\ ver' = [c \in Calls |-> IF c \notin open THEN ver[c]
                               ELSE IF state[c] = "executing" THEN ver[c] + 2
                               ELSE ver[c] + 1]
    /\ UNCHANGED cancel

HealthFor(status) ==
    CASE status = "resolved" -> "ok"
      [] status = "quarantined" -> "quarantined"
      [] OTHER -> "needs_recovery"

(* A report is answered by a Session that is up and has no driver at work.    *)
Answering == up /\ pc = "idle" /\ rstatus = "open"

(* The program's answer to a report: the status it takes and the Session's    *)
(* health that follows from that status alone.                                *)
Answer(status) ==
    /\ Answering
    /\ rstatus' = status /\ health' = HealthFor(status)

QuarantineItem(c) ==
    /\ c \in Items /\ resol[c] \in {"none", "quarantine"}
    /\ "quarantine" \in Allowed(class[c], Policy[c])
    /\ Answer("quarantined")
    /\ resol' = [resol EXCEPT ![c] = "quarantine"]
    /\ UNCHANGED <<class, handled, quarantinedLater, corrupt, driverVars>>
    /\ UNCHANGED <<rowVars, approvalVars, grant, logVars, worldVars>>

QuarantineReport ==
    /\ Answer("quarantined")
    /\ UNCHANGED <<class, resol, handled, quarantinedLater, corrupt, driverVars>>
    /\ UNCHANGED <<rowVars, approvalVars, grant, logVars, worldVars>>

(* The abort that leaves nothing undecided also resolves the report and       *)
(* finishes the Turn.                                                         *)
LastAbort(c, r) == r = "abort" /\ Undecided \subseteq {c}

(* What an item takes: a choice its class allows, the same one again once it  *)
(* is decided.  The log takes tool messages in call order only, and a Turn is *)
(* finished without unresolved calls.                                         *)
MayDecide(c, r) ==
    /\ Answering
    /\ c \in Items /\ resol[c] \in {"none", r} /\ r \in Allowed(class[c], Policy[c])
    /\ c \in InBatch => Cur = c
    /\ LastAbort(c, r) => turn = "active" /\ pending \in {<< >>, <<c>>}

(* An unresolved call of the item gets its error message.                     *)
AppendLost(c) ==
    IF c \in InBatch
    THEN pending' = Tail(pending) /\ reply' = [reply EXCEPT ![c] = "lost"]
    ELSE UNCHANGED <<pending, reply>>

(* Acknowledge or abort one item.                                             *)
DecideItem(c, r) ==
    /\ MayDecide(c, r)
    /\ Answer(IF LastAbort(c, r) THEN "resolved" ELSE "open")
    /\ AppendLost(c)
    /\ turn' = IF LastAbort(c, r) THEN "closed" ELSE turn
    /\ resol' = [resol EXCEPT ![c] = r]
    /\ CloseSettled({c}, r)
    /\ UNCHANGED <<class, handled, quarantinedLater, corrupt, driverVars>>
    /\ UNCHANGED <<approvalVars, grant, worldVars>>

(* Abort the whole report: every item is settled, every unresolved call gets  *)
(* its error message and the Turn is finished.                                *)
MayAbort == Answering /\ turn = "active"

AbortReport ==
    /\ MayAbort
    /\ Answer("resolved")
    /\ resol' = [c \in Calls |-> IF c \in Undecided THEN ForcedChoice(class[c], Policy[c])
                                                    ELSE resol[c]]
    /\ CloseSettled(Items, "abort")
    /\ pending' = << >> /\ turn' = "closed"
    /\ reply' = [c \in Calls |-> IF c \in InBatch THEN "lost" ELSE reply[c]]
    /\ UNCHANGED <<class, handled, quarantinedLater, corrupt, driverVars>>
    /\ UNCHANGED <<approvalVars, grant, worldVars>>

(* Resume the report once every item is decided: a new AgentRun continues the *)
(* open Turn.  The run is built from the stored projection.                   *)
MayResume == Answering /\ Undecided = {} /\ ~corrupt

ResumeReport ==
    /\ MayResume
    /\ Answer("resolved")
    /\ pc' = IF turn = "active" THEN "ready" ELSE "idle"
    /\ UNCHANGED <<up, live, res, lver, fin, resumable>>
    /\ UNCHANGED <<class, resol, handled, quarantinedLater, corrupt>>
    /\ UNCHANGED <<rowVars, approvalVars, grant, logVars, worldVars>>

Decision ==
    \/ \E c \in Calls : QuarantineItem(c)
    \/ QuarantineReport
    \/ \E c \in Calls, r \in {"ack", "abort"} : DecideItem(c, r)
    \/ AbortReport \/ ResumeReport

RecoveryStep ==
    \/ Crash \/ Corrupt \/ Resume \/ Decision
    \/ \E obs \in Observations : Restore(obs)

Next == DriverStep \/ EnvironmentStep \/ RecoveryStep

(* The driver is a coroutine of the host's event loop: a step it can take is  *)
(* taken eventually, a handler ends at the latest with tool_timeout_seconds.  *)
(* Nothing is assumed of users, clocks or crashes.                            *)
Spec == Init /\ [][Next]_vars /\ WF_vars(DriverStep)

-------------------------------------------------------------------------------
(* What must hold.                                                            *)

(* Invariant.  A handler is entered at most once for a call, whatever crashes,*)
(* reports, resumes and approvals come after: recovery never replays a tool.  *)
AtMostOnce == \A c \in Calls : entered[c] <= 1

(* Invariant.  No handler ran that the policy denied or that needed an        *)
(* approval nobody gave: what entered is not a denied call, and its approval  *)
(* is consumed; and an execution recorded DENIED was never entered, whoever   *)
(* closed it (driver, approvals API or a revocation).                         *)
ConsentBeforeEffect ==
    \A c \in Calls :
        /\ entered[c] > 0 => c \notin DeniedCalls
        /\ entered[c] > 0 /\ c \in ApprovalCalls => appr[c] = "approved"
        /\ disp[c] = "denied" => entered[c] = 0

(* Invariant.  What the model is told and what the row says about success is  *)
(* what the handler did, across the two commits of a result.                  *)
SuccessIsReal ==
    \A c \in Calls :
        /\ disp[c] = "succeeded" => effect[c] = "done"
        /\ reply[c] = "ok" => state[c] = "closed" /\ disp[c] = "succeeded"

(* Invariant.  The tool cycle is closed call by call: a call outside the      *)
(* unresolved ones has its row closed and exactly one message in the log, and *)
(* a closed Turn leaves no unresolved call behind.                            *)
CycleClosed ==
    /\ turn = "closed" => pending = << >>
    /\ \A c \in Calls : IF state[c] = "none" \/ c \in InBatch
                         THEN reply[c] = "none"
                         ELSE state[c] = "closed" /\ reply[c] # "none"

(* Invariant.  A resolved report has settled everything it listed.            *)
ResolvedMeansSettled ==
    rstatus = "resolved" => \A c \in Items : state[c] = "closed" /\ Decided(c)

(* A reconciled call whose files were observed as they were before it: its    *)
(* item takes an abort or a quarantine, but no acknowledgement.               *)
FilesUntouched(c) ==
    Policy[c] = "requires_reconciliation" /\ class[c] = "safe_to_retry"

(* Invariant.  An open report can be answered without quarantining the        *)
(* Session: an undecided item takes a decision, or the report an abort or a   *)
(* resume.  The exception: the Turn is over, so that nothing can abort it,    *)
(* and every item left is that of a call whose files are untouched.           *)
ReportHasWayOut ==
    up /\ rstatus = "open" /\ ~corrupt =>
        \/ MayAbort \/ MayResume
        \/ \E c \in Undecided, r \in {"ack", "abort"} : MayDecide(c, r)
        \/ turn = "closed" /\ \A c \in Undecided : FilesUntouched(c)

(* Action property.  Evidence that went away between the decision and the      *)
(* handler stops the call: nothing enters on a revoked or expired grant, a    *)
(* lapsed approval, a revoked session scope or a requested cancellation.      *)
LostEvidenceStopsEntry ==
    [][\A c \in Calls : entered'[c] # entered[c] =>
            /\ c \in GrantCalls => grant = "active"
            /\ ~cancel[c] /\ ~lapsed[c] /\ (c \in sessioned => c \in bound)]_vars

(* Action property.  An outcome recorded UNKNOWN is never rewritten, and a    *)
(* closed row or a message of the log never changes: not by acknowledging or  *)
(* aborting its report.                                                       *)
UnknownSticky ==
    [][\A c \in Calls : /\ disp[c] = "unknown" => disp'[c] = "unknown"
                        /\ state[c] = "closed" =>
                             /\ state'[c] = "closed" /\ disp'[c] = disp[c]
                             /\ ver'[c] = ver[c]
                        /\ reply[c] # "none" => reply'[c] = reply[c]]_vars

(* Action property.  A Session quarantined after its open report was made is  *)
(* not set free by deciding that report.                                      *)
QuarantineKept ==
    [][quarantinedLater /\ health = "quarantined" => health' = "quarantined"]_vars

(* Action property.  A tool cycle the crash left open is handed to recovery:  *)
(* a restart that finds unresolved calls finds or opens a report about them.  *)
OpenCycleGoesToRecovery ==
    [][~up /\ up' /\ pending # << >> => rstatus' = "open"]_vars

(* Liveness.  A decision on the approval the driver waits for, committed by   *)
(* the approvals API or by a revocation, ends the wait.                       *)
DecisionReleasesWaiter ==
    \A c \in Calls :
        (pc = "wait" /\ Cur = c /\ appr[c] # "pending") ~> ~(pc = "wait" /\ Cur = c)

(* Liveness.  An execution in flight is closed by its driver, unless the      *)
(* driver goes away and leaves it to recovery.                                *)
HandlerSettles ==
    \A c \in Calls :
        (pc # "idle" /\ state[c] = "executing") ~> (state[c] = "closed" \/ pc = "idle")

-------------------------------------------------------------------------------
(* The promise of module ToolCall, read off the rows of a call.               *)
Call(c) == INSTANCE ToolCall WITH
    Denied <- c \in DeniedCalls,
    Gated <- c \in ApprovalCalls,
    Unrepeatable <- Policy[c] = "outcome_unknown",
    phase <- CASE state[c] = "none" -> "absent"
               [] state[c] = "closed" -> "settled"
               [] OTHER ->
                    IF entered[c] = 0 THEN "proposed" ELSE "entered",
    consent <- appr[c] \in {"granted", "approved"},
    happened <- IF effect[c] = "none" THEN "nothing" ELSE effect[c],
    verdict <- IF state[c] = "closed" THEN disp[c] ELSE "pending"

(* Refinement.  Every call of the Session keeps the promise of ToolCall: the  *)
(* driver, the approvals API, revocations, crashes and recovery together.     *)
(* This is \A c \in Calls : Call(c)!Spec, with the quantifier moved inside the *)
(* box: one step of the Session may be a step of several calls.               *)
CallsKeepPromise ==
    /\ \A c \in Calls : Call(c)!Init
    /\ [][\A c \in Calls : [Call(c)!Next]_(Call(c)!vars)]_vars

===============================================================================
