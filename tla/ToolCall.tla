-------------------------------- MODULE ToolCall -------------------------------
(* What the durable tool execution promises of one call, whatever crashes,    *)
(* revocations, reports and resumes surround it: it is put to the user before *)
(* it runs, runs at most once, and is settled exactly once with a verdict     *)
(* that does not claim more than what happened.                               *)

CONSTANTS
    Denied,         \* the policy forbids the call
    Gated,          \* the call needs an approval
    Unrepeatable    \* its effect cannot be told from its absence

VARIABLES phase, consent, happened, verdict

vars == <<phase, consent, happened, verdict>>

Init ==
    /\ phase = "absent" /\ consent = FALSE
    /\ happened = "nothing" /\ verdict = "pending"

Propose ==
    /\ phase = "absent" /\ phase' = "proposed"
    /\ UNCHANGED <<consent, happened, verdict>>

Consent ==
    /\ phase = "proposed" /\ ~consent /\ consent' = TRUE
    /\ UNCHANGED <<phase, happened, verdict>>

Enter ==
    /\ phase = "proposed" /\ ~Denied /\ (Gated => consent)
    /\ phase' = "entered" /\ happened' = "started"
    /\ UNCHANGED <<consent, verdict>>

Happen ==
    /\ phase = "entered" /\ happened = "started"
    /\ happened' \in {"failed", "done"}
    /\ UNCHANGED <<phase, consent, verdict>>

(* The verdicts that are honest about a call.  An interruption may always     *)
(* lose the result of a call that ran, never turn one outcome into another.   *)
Honest ==
    CASE happened = "nothing" -> {"denied", "cancelled", "interrupted", "unknown"}
      [] happened = "done" -> {"succeeded", "cancelled", "interrupted", "unknown"}
      [] happened = "failed" -> {"failed", "cancelled", "interrupted", "unknown"}
      [] OTHER ->
            IF Unrepeatable THEN {"unknown"}
            ELSE {"failed", "cancelled", "interrupted", "unknown"}

Settle ==
    /\ phase \in {"proposed", "entered"} /\ phase' = "settled"
    /\ verdict' \in Honest
    /\ UNCHANGED <<consent, happened>>

Next == Propose \/ Consent \/ Enter \/ Happen \/ Settle

Spec == Init /\ [][Next]_vars

===============================================================================
