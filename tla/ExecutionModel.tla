---------------------------- MODULE ExecutionModel ----------------------------
(* The pure part of Morrow's durable tool execution: the record values of     *)
(* core/execution.py and core/recovery.py and the decision functions both     *)
(* components are built from.  No state lives here.                           *)
EXTENDS Naturals, FiniteSets, Sequences

CONSTANTS
    Calls,          \* the tool calls a run may ever propose
    DeniedCalls,    \* policy verdict DENY in the frozen intent
    ApprovalCalls,  \* intent.requires_approval
    GrantCalls,     \* executions bound to a capability grant (grant_id # None)
    ScopeCalls,     \* session_scope_allowed(effect_class, isolation)
    Policy          \* missing_handler_completed of the call's recovery declaration

(* A high-risk call (one that carries a grant) is never offered a session     *)
(* scope: session_scope_allowed is FALSE for the elevated isolation labels.   *)
ASSUME CallsAssumption ==
    /\ DeniedCalls \subseteq Calls
    /\ ApprovalCalls \subseteq Calls
    /\ GrantCalls \subseteq Calls
    /\ ScopeCalls \subseteq Calls
    /\ ScopeCalls \cap GrantCalls = {}
    /\ Policy \in [Calls -> {"safe_to_retry", "requires_reconciliation", "outcome_unknown"}]

-------------------------------------------------------------------------------
(* States of a durable execution row; "none" is the absent row.               *)
States == {"none", "prepared", "awaiting", "executing", "completed", "closed"}

Dispositions == {"pending", "denied", "succeeded", "failed", "cancelled",
                 "interrupted", "unknown"}

(* An approval row; "granted" is APPROVED but not yet consumed, "approved" is *)
(* APPROVED and consumed.                                                     *)
Resolutions == {"none", "pending", "granted", "approved", "denied", "expired"}

Transitions ==
    {"prepared"} \X {"awaiting", "executing", "closed"}
        \cup {"awaiting"} \X {"executing", "closed"}
        \cup {"executing"} \X {"completed", "closed"}
        \cup {"completed"} \X {"closed"}

Legal(from, to) == <<from, to>> \in Transitions

-------------------------------------------------------------------------------
(* Recovery: how an execution row found after a crash is classified, and      *)
(* which resolutions a user may choose for it.  obs is what the observations  *)
(* of the workspace files say, consulted for reconciled tools only.           *)
Classes == {"completed", "safe_to_retry", "never_started",
            "requires_reconciliation", "outcome_unknown"}

ObservedClasses == Classes \ {"never_started"}

Classify(s, d, policy, obs) ==
    CASE d = "unknown" ->
            IF policy = "requires_reconciliation" THEN obs ELSE "outcome_unknown"
      [] d # "unknown" /\ s \in {"completed", "closed"} -> "completed"
      [] d # "unknown" /\ s \in {"prepared", "awaiting"} -> "never_started"
      [] OTHER -> IF policy = "requires_reconciliation" THEN obs ELSE policy

\* Mutant: what is unknown may only be aborted.
AllowedWithoutAck(class, policy) ==
    IF class = "completed" THEN {"ack"} ELSE {"abort", "quarantine"}

Allowed(class, policy) ==
    CASE class = "completed" -> {"ack"}
      [] class = "safe_to_retry" -> {"abort", "quarantine"}
      [] class = "never_started" /\ policy # "outcome_unknown" -> {"abort", "quarantine"}
      [] OTHER -> {"ack", "abort", "quarantine"}

\* Mutant: the fallback is a resolution of the report, not of an item.
ForcedChoiceResumes(class, policy) ==
    IF "abort" \in Allowed(class, policy) THEN "abort" ELSE "resume"

(* The resolution a report-level abort writes into an item still undecided.   *)
ForcedChoice(class, policy) ==
    IF "abort" \in Allowed(class, policy) THEN "abort" ELSE "ack"

(* A result the handler may or may not have produced is recorded UNKNOWN for  *)
(* tools that are not safe to retry.                                          *)
UnknownAfterEntry(c) == Policy[c] \in {"outcome_unknown", "requires_reconciliation"}

===============================================================================
