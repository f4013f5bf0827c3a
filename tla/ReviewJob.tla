------------------------------- MODULE ReviewJob -------------------------------
(* What the Preference Review queue promises of one job, whatever processes   *)
(* claim it, lose it, die or answer late: at any time one attempt at most     *)
(* owns it; only that attempt ends it, and completes it only with what it     *)
(* proposed stored; attempts are counted; a closed job stays closed until a   *)
(* user retries it.  Leases, their names, row versions and processes are how  *)
(* module ReviewWorker keeps this.                                            *)
EXTENDS Naturals

CONSTANTS
    Ops,            \* the proposals a reviewer may make
    MaxAttempts

VARIABLES
    status,         \* pending, running, completed, failed or exhausted
    live,           \* the time of the current attempt is not over
    attempts,
    retryable,      \* a user may retry the failure
    held,           \* the attempt has an owner that can still end it
    proposed,       \* what its reviewer proposed
    stored          \* the proposals stored for the job

vars == <<status, live, attempts, retryable, held, proposed, stored>>

Init ==
    /\ status = "pending" /\ ~live /\ attempts = 0 /\ ~retryable
    /\ ~held /\ proposed = {} /\ stored = {}

(* Nobody's: not attempted, or the time of the attempt is over.               *)
Claimable == status = "pending" \/ (status = "running" /\ ~live)

(* A new attempt.  Whoever owned the last one owns nothing any more.          *)
Claim ==
    /\ Claimable /\ attempts < MaxAttempts
    /\ status' = "running" /\ live' = TRUE /\ attempts' = attempts + 1
    /\ retryable' = FALSE /\ held' = TRUE /\ proposed' = {}
    /\ UNCHANGED stored

Propose ==
    /\ held /\ proposed = {} /\ proposed' \in SUBSET Ops
    /\ UNCHANGED <<status, live, attempts, retryable, held, stored>>

(* Proposals are stored, once each; a late attempt may still store its own.   *)
Store ==
    /\ stored' \in SUBSET Ops /\ stored \subseteq stored'
    /\ UNCHANGED <<status, live, attempts, retryable, held, proposed>>

(* The attempt is over for its owner.                                         *)
Released == held' = FALSE /\ proposed' = {} /\ UNCHANGED <<attempts, stored>>

Complete ==
    /\ held /\ status = "running" /\ proposed \subseteq stored
    /\ status' = "completed" /\ live' = FALSE /\ retryable' = FALSE
    /\ Released

(* A failure closes the job, or leaves it for another attempt after a while.  *)
Fail ==
    /\ held /\ status = "running"
    /\ \/ status' = "failed" /\ live' = FALSE /\ retryable' = FALSE
       \/ /\ attempts = MaxAttempts
          /\ status' = "exhausted" /\ live' = FALSE /\ retryable' = TRUE
       \/ attempts < MaxAttempts /\ live' = TRUE /\ UNCHANGED <<status, retryable>>
    /\ Released

(* Anybody closes a job whose last attempt ran out of time.                   *)
Exhaust ==
    /\ Claimable /\ attempts = MaxAttempts
    /\ status' = "exhausted" /\ live' = FALSE /\ retryable' = TRUE
    /\ Released

(* The owner goes away: its process dies, is cancelled, or gives up.          *)
Lose ==
    /\ held /\ Released
    /\ UNCHANGED <<status, live, retryable>>

TimeOut ==
    /\ live /\ live' = FALSE
    /\ UNCHANGED <<status, attempts, retryable, held, proposed, stored>>

Retry ==
    /\ status \in {"failed", "exhausted"} /\ retryable
    /\ status' = "pending" /\ attempts' = 0 /\ retryable' = FALSE
    /\ UNCHANGED <<live, held, proposed, stored>>

Next ==
    Claim \/ Propose \/ Store \/ Complete \/ Fail \/ Exhaust \/ Lose \/ TimeOut \/ Retry

Spec == Init /\ [][Next]_vars

================================================================================
