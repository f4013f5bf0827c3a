---------------------------- MODULE ReviewWorker ----------------------------
(* The durable Preference Review queue (application/preferences/worker.py)   *)
(* and the processes that drain it: the background loop of a REPL, and       *)
(* one-shot callers (the run-pending command, an explicit run of one job).   *)
(* Every process works on the same SQLite rows; the lease of a claim and the *)
(* row version are all that keeps them apart.  One action per transaction or *)
(* read of the store, so that the processes interleave between any two.      *)
(*                                                                           *)
(* Time is abstract: a lease is live until Expire ends it, at any moment.    *)
(* "leases_outlive_attempts" makes the lease longer than the model timeout,  *)
(* but a suspended host or a slow transaction outlives any lease.            *)
EXTENDS Integers, FiniteSets

CONSTANTS
  Jobs,          \* the jobs, oldest first (list order: created_at, job_id)
  Loops,         \* processes that run the background loop
  Callers,       \* one-shot processes
  Ops,           \* fingerprints of the operations a reviewer may propose
  MaxAttempts,   \* PREFERENCE_REVIEW_MAX_ATTEMPTS
  MaxRetries     \* bound: manual retries of one job

Workers == Loops \cup Callers
NoJob == 0

ASSUME JobsAssumption == Jobs \subseteq Nat \ {NoJob}
ASSUME WorkersAssumption == Loops \cap Callers = {}
ASSUME AttemptsAssumption == MaxAttempts \in Nat \ {0}
ASSUME RetriesAssumption == MaxRetries \in Nat

VARIABLES
  row,       \* the job rows: status, lease, live, attempts, retryable, version
  made,      \* made[j]: fingerprints of the proposals stored for job j
  retries,   \* retries[j]: manual retries so far (bounds the model)
  pc,        \* where each process is
  at,        \* the job it drains
  mine,      \* the lease it holds of that job, the version its claim wrote
  seen,      \* the row version it read last
  answer,    \* what its reviewer proposed
  why,       \* why it fails: the class of its failure code
  wake,      \* the wake event of each loop
  timers     \* the retry timers of each loop: <<job, lease>>

vars == <<row, made, retries, pc, at, mine, seen, answer, why, wake, timers>>

Terminal == {"completed", "failed", "exhausted"}
NoLease == 0
Row == [status : {"pending", "running"} \cup Terminal, lease : Nat,
        live : BOOLEAN, attempts : 0..MaxAttempts, retryable : BOOLEAN,
        version : Nat \ {0}]
Owning == {"claimed", "naming", "asking", "answered", "stored", "closing",
           "failing", "recording"}

TypeOK ==
  /\ row \in [Jobs -> Row]
  /\ made \in [Jobs -> SUBSET Ops]
  /\ retries \in [Jobs -> 0..MaxRetries]
  /\ pc \in [Workers -> {"off", "wait", "list", "chosen"} \cup Owning]
  /\ at \in [Workers -> Jobs \cup {NoJob}]
  /\ mine \in [Workers -> Nat]
  /\ seen \in [Workers -> Nat]
  /\ answer \in [Workers -> SUBSET Ops]
  /\ why \in [Workers -> {"none", "retryable", "fatal", "cancelled"}]
  /\ wake \in [Loops -> BOOLEAN]
  /\ timers \in [Loops -> SUBSET (Jobs \X Nat)]

-----------------------------------------------------------------------------
(* The rows                                                                  *)

\* Mutant: a lease that ended is not picked up again.
PendingOnly(j) == row[j].status = "pending"

\* Claimable to the queue and to an explicit run alike: pending, or running
\* under a lease that has expired.
Claimable(j) ==
  \/ row[j].status = "pending"
  \/ row[j].status = "running" /\ ~row[j].live

\* The oldest claimable job, the one a drain works on.
Oldest(j) == Claimable(j) /\ \A k \in Jobs : Claimable(k) => j <= k

\* Mutant: whoever runs the job is taken for the owner of its lease.
StillRunning(w) == row[at[w]].status = "running"

\* _assert_lease: the row is still running under the claim of w.
HoldsLease(w) ==
  LET r == row[at[w]]
  IN  r.status = "running" /\ r.lease = mine[w] /\ r.live

\* Mutant: the save does not compare versions.
AnyVersion(w) == at[w] \in Jobs

\* A save commits only when nobody saved since w read the row.
Unchanged(w) == row[at[w]].version = seen[w]

\* The row of a job after a save that changes fields as in "new".
Saved(j, new) == row' = [row EXCEPT ![j] = [new EXCEPT !.version = @ + 1]]

Closed(r, status, retryable) ==
  [r EXCEPT !.status = status, !.lease = NoLease, !.live = FALSE,
            !.retryable = retryable]

Goto(w, where) == pc' = [pc EXCEPT ![w] = where]

\* A process that has finished with a job forgets it.
Forget(w) ==
  /\ at' = [at EXCEPT ![w] = NoJob]
  /\ mine' = [mine EXCEPT ![w] = NoLease]
  /\ seen' = [seen EXCEPT ![w] = 0]
  /\ answer' = [answer EXCEPT ![w] = {}]
  /\ why' = [why EXCEPT ![w] = "none"]

\* Where a process goes after a drain: the loop drains again; a caller drains
\* again, or has reached its limit or run the one job it was asked for.
After(w) == IF w \in Loops THEN {"list"} ELSE {"list", "off"}

\* Where it goes when there was nothing to do, or the job was busy.
Rest(w) == IF w \in Loops THEN "wait" ELSE "off"

-----------------------------------------------------------------------------
(* The background loop                                                       *)

\* start: the loop task is created and woken.
Start(w) ==
  /\ w \in Loops /\ pc[w] = "off"
  /\ Goto(w, "wait")
  /\ wake' = [wake EXCEPT ![w] = TRUE]
  /\ UNCHANGED <<row, made, retries, at, mine, seen, answer, why, timers>>

\* wake: a prompt of the REPL has been served, or a task has been accepted.
Wake(w) ==
  /\ w \in Loops /\ pc[w] # "off" /\ ~wake[w]
  /\ wake' = [wake EXCEPT ![w] = TRUE]
  /\ UNCHANGED <<row, made, retries, pc, at, mine, seen, answer, why, timers>>

\* The loop consumes the event and starts to drain.
Awake(w) ==
  /\ w \in Loops /\ pc[w] = "wait" /\ wake[w]
  /\ wake' = [wake EXCEPT ![w] = FALSE]
  /\ Goto(w, "list")
  /\ UNCHANGED <<row, made, retries, at, mine, seen, answer, why, timers>>

\* A retry timer wakes the loop once its lease has ended.
TimerFires(w) ==
  /\ w \in Loops
  /\ \E t \in timers[w] :
       /\ ~(row[t[1]].lease = t[2] /\ row[t[1]].live)
       /\ timers' = [timers EXCEPT ![w] = @ \ {t}]
  /\ wake' = [wake EXCEPT ![w] = TRUE]
  /\ UNCHANGED <<row, made, retries, pc, at, mine, seen, answer, why>>

-----------------------------------------------------------------------------
(* One-shot callers                                                          *)

\* run_pending: drains from the head of the queue.
RunPending(w) ==
  /\ w \in Callers /\ pc[w] = "off"
  /\ Goto(w, "list")
  /\ UNCHANGED <<row, made, retries, at, mine, seen, answer, why, wake, timers>>

\* run_job: picks one claimable job, whatever its place in the queue.
RunJob(w) ==
  /\ w \in Callers /\ pc[w] = "off"
  /\ \E j \in Jobs :
       /\ Claimable(j)
       /\ at' = [at EXCEPT ![w] = j]
       /\ seen' = [seen EXCEPT ![w] = row[j].version]
  /\ Goto(w, "chosen")
  /\ UNCHANGED <<row, made, retries, mine, answer, why, wake, timers>>

\* retry: a failed or exhausted job with a retryable failure code is pending
\* again, with its attempts reset.  The loop of the calling process is woken.
Retry(j) ==
  /\ row[j].status \in {"failed", "exhausted"} /\ row[j].retryable
  /\ retries[j] < MaxRetries
  /\ Saved(j, [row[j] EXCEPT !.status = "pending", !.lease = NoLease,
                             !.live = FALSE, !.attempts = 0,
                             !.retryable = FALSE])
  /\ retries' = [retries EXCEPT ![j] = @ + 1]
  /\ UNCHANGED <<made, pc, at, mine, seen, answer, why, wake, timers>>

-----------------------------------------------------------------------------
(* One drain                                                                 *)

\* drain_once reads the oldest claimable job, or finds none.
Choose(w) ==
  /\ pc[w] = "list"
  /\ \/ /\ \E j \in Jobs :
             /\ Oldest(j)
             /\ at' = [at EXCEPT ![w] = j]
             /\ seen' = [seen EXCEPT ![w] = row[j].version]
        /\ Goto(w, "chosen")
     \/ /\ \A j \in Jobs : ~Claimable(j)
        /\ Goto(w, Rest(w))
        /\ UNCHANGED <<at, seen>>
  /\ UNCHANGED <<row, made, retries, mine, answer, why, wake, timers>>

\* _exhaust_expired: the last attempt was lost with its lease.
ExhaustExpired(w) ==
  LET j == at[w] IN
  /\ pc[w] = "chosen" /\ Unchanged(w) /\ row[j].attempts >= MaxAttempts
  /\ Saved(j, Closed(row[j], "exhausted", TRUE))
  /\ \E there \in After(w) : Goto(w, there)
  /\ Forget(w)
  /\ UNCHANGED <<made, retries, wake, timers>>

\* Mutants: a claim past the last attempt; leases named by the attempt.
ClaimAgain(w) ==
  LET j == at[w] IN
  /\ pc[w] = "chosen" /\ Unchanged(w) /\ Claimable(j)
  /\ Saved(j, [row[j] EXCEPT !.status = "running",
                             !.lease = row[j].version + 1, !.live = TRUE,
                             !.attempts = @ + 1, !.retryable = FALSE])
  /\ mine' = [mine EXCEPT ![w] = row[j].version + 1]
  /\ Goto(w, "claimed")
  /\ UNCHANGED <<made, retries, at, seen, answer, why, wake, timers>>

ClaimByAttempt(w) ==
  LET j == at[w] IN
  /\ pc[w] = "chosen" /\ Unchanged(w) /\ Claimable(j)
  /\ row[j].attempts < MaxAttempts
  /\ Saved(j, [row[j] EXCEPT !.status = "running",
                             !.lease = row[j].attempts + 1, !.live = TRUE,
                             !.attempts = @ + 1, !.retryable = FALSE])
  /\ mine' = [mine EXCEPT ![w] = row[j].attempts + 1]
  /\ Goto(w, "claimed")
  /\ UNCHANGED <<made, retries, at, seen, answer, why, wake, timers>>

\* claim_preference_review_job: the lease is named by the version it writes.
Claim(w) ==
  LET j == at[w] IN
  /\ pc[w] = "chosen" /\ Unchanged(w) /\ Claimable(j)
  /\ row[j].attempts < MaxAttempts
  /\ Saved(j, [row[j] EXCEPT !.status = "running",
                             !.lease = row[j].version + 1, !.live = TRUE,
                             !.attempts = @ + 1, !.retryable = FALSE])
  /\ mine' = [mine EXCEPT ![w] = row[j].version + 1]
  /\ Goto(w, "claimed")
  /\ UNCHANGED <<made, retries, at, seen, answer, why, wake, timers>>

\* Another process saved the row first: the drain ends "busy".
Busy(w) ==
  /\ pc[w] = "chosen" /\ ~Unchanged(w)
  /\ Goto(w, Rest(w))
  /\ Forget(w)
  /\ UNCHANGED <<row, made, retries, wake, timers>>

\* A step raises: the drain will record the failure.
Fails(w, reason) ==
  /\ why' = [why EXCEPT ![w] = reason]
  /\ Goto(w, "failing")

\* _record_reviewer and _complete read the row and assert the lease ...
ReadOwn(w) ==
  /\ pc[w] \in {"claimed", "stored"}
  /\ \/ /\ HoldsLease(w)
        /\ seen' = [seen EXCEPT ![w] = row[at[w]].version]
        /\ Goto(w, IF pc[w] = "claimed" THEN "naming" ELSE "closing")
        /\ UNCHANGED why
     \/ /\ ~HoldsLease(w)
        /\ Fails(w, "retryable")
        /\ UNCHANGED seen
  /\ UNCHANGED <<row, made, retries, at, mine, answer, wake, timers>>

\* ... and save under the version they read.
NameReviewer(w) ==
  /\ pc[w] = "naming"
  /\ \/ /\ Unchanged(w)
        /\ Saved(at[w], row[at[w]])
        /\ Goto(w, "asking")
        /\ UNCHANGED why
     \/ ~Unchanged(w) /\ Fails(w, "retryable") /\ UNCHANGED row
  /\ UNCHANGED <<made, retries, at, mine, seen, answer, wake, timers>>

\* runner.run: the context is built and the reviewer answers, or one of them
\* fails with a retryable or a fatal failure code.
Ask(w) ==
  /\ pc[w] = "asking"
  /\ \/ /\ \E out \in SUBSET Ops : answer' = [answer EXCEPT ![w] = out]
        /\ Goto(w, "answered")
        /\ UNCHANGED why
     \/ /\ \E reason \in {"retryable", "fatal"} : Fails(w, reason)
        /\ UNCHANGED answer
  /\ UNCHANGED <<row, made, retries, at, mine, seen, wake, timers>>

\* PreferenceProposalPipeline.persist: one transaction stores the operations
\* whose fingerprint the job does not have yet.  It does not look at the lease.
Persist(w) ==
  /\ pc[w] = "answered"
  /\ made' = [made EXCEPT ![at[w]] = @ \cup answer[w]]
  /\ Goto(w, "stored")
  /\ UNCHANGED <<row, retries, at, mine, seen, answer, why, wake, timers>>

\* _complete saves under the version it read.
Complete(w) ==
  /\ pc[w] = "closing"
  /\ \/ /\ Unchanged(w)
        /\ Saved(at[w], Closed(row[at[w]], "completed", FALSE))
        /\ \E there \in After(w) : Goto(w, there)
        /\ Forget(w)
     \/ /\ ~Unchanged(w)
        /\ Fails(w, "retryable")
        /\ UNCHANGED <<row, at, mine, seen, answer>>
  /\ UNCHANGED <<made, retries, wake, timers>>

\* The drain returns "deferred" with the row as it is now: a loop sets a timer
\* for the lease the row carries, in place of an earlier timer for that job.
Deferred(w, lease) ==
  /\ timers' = IF w \in Loops /\ lease # NoLease
               THEN [timers EXCEPT ![w] =
                       {t \in @ : t[1] # at[w]} \cup {<<at[w], lease>>}]
               ELSE timers
  /\ \E there \in After(w) : Goto(w, there)
  /\ Forget(w)

\* The end of a drain that failed: a cancelled task goes away, a drain that
\* finds the job closed reports that, any other is deferred.
FailedDrain(w, lease, closed) ==
  \/ why[w] = "cancelled" /\ Goto(w, "off") /\ Forget(w) /\ UNCHANGED timers
  \/ /\ why[w] # "cancelled" /\ closed
     /\ \E there \in After(w) : Goto(w, there)
     /\ Forget(w)
     /\ UNCHANGED timers
  \/ why[w] # "cancelled" /\ ~closed /\ Deferred(w, lease)

\* _record_failure reads the row; a worker that lost its lease writes nothing.
ReadFailure(w) ==
  LET r == row[at[w]] IN
  /\ pc[w] = "failing"
  /\ \/ /\ HoldsLease(w)
        /\ seen' = [seen EXCEPT ![w] = r.version]
        /\ Goto(w, "recording")
        /\ UNCHANGED <<at, mine, answer, why, timers>>
     \/ /\ ~HoldsLease(w)
        /\ FailedDrain(w, r.lease, r.status \in {"failed", "exhausted"})
  /\ UNCHANGED <<row, made, retries, wake>>

\* It keeps a retryable job running under the same lease until the backoff is
\* over, or closes it.
FailureRow(w) ==
  LET r == row[at[w]] IN
  IF why[w] = "fatal" THEN Closed(r, "failed", FALSE)
  ELSE IF r.attempts >= MaxAttempts THEN Closed(r, "exhausted", TRUE)
  ELSE [r EXCEPT !.live = TRUE]

RecordFailure(w) ==
  LET j == at[w] IN
  /\ pc[w] = "recording"
  /\ \/ /\ Unchanged(w)
        /\ Saved(j, FailureRow(w))
        /\ FailedDrain(w, FailureRow(w).lease, FailureRow(w).status # "running")
     \/ /\ ~Unchanged(w)
        /\ UNCHANGED row
        /\ FailedDrain(w, row[j].lease, FALSE)
  /\ UNCHANGED <<made, retries, wake>>

-----------------------------------------------------------------------------
(* The environment                                                           *)

\* Time passes the end of a lease.
Expire(j) ==
  /\ row[j].live
  /\ row' = [row EXCEPT ![j].live = FALSE]
  /\ UNCHANGED <<made, retries, pc, at, mine, seen, answer, why, wake, timers>>

\* stop, or an interrupt of a command: the task is cancelled where it is
\* suspended, on the wake event or in the reviewer's call.
Cancel(w) ==
  /\ \/ pc[w] = "wait" /\ Goto(w, "off") /\ UNCHANGED why
     \/ pc[w] = "asking" /\ Fails(w, "cancelled")
  /\ timers' = IF w \in Loops THEN [timers EXCEPT ![w] = {}] ELSE timers
  /\ UNCHANGED <<row, made, retries, at, mine, seen, answer, wake>>

\* The process dies: whatever is not in the store is lost.
Crash(w) ==
  /\ pc[w] # "off"
  /\ Goto(w, "off")
  /\ Forget(w)
  /\ timers' = IF w \in Loops THEN [timers EXCEPT ![w] = {}] ELSE timers
  /\ UNCHANGED <<row, made, retries, wake>>

-----------------------------------------------------------------------------
\* A job is enqueued with the terminal record of its Turn, pending.
Init ==
  /\ row = [j \in Jobs |-> [status |-> "pending", lease |-> NoLease,
                            live |-> FALSE, attempts |-> 0,
                            retryable |-> FALSE, version |-> 1]]
  /\ made = [j \in Jobs |-> {}]
  /\ retries = [j \in Jobs |-> 0]
  /\ pc = [w \in Workers |-> "off"]
  /\ at = [w \in Workers |-> NoJob]
  /\ mine = [w \in Workers |-> NoLease]
  /\ seen = [w \in Workers |-> 0]
  /\ answer = [w \in Workers |-> {}]
  /\ why = [w \in Workers |-> "none"]
  /\ wake = [w \in Loops |-> FALSE]
  /\ timers = [w \in Loops |-> {}]

\* What the code of a drain does once it is under way.
Drain(w) ==
  \/ Choose(w) \/ ExhaustExpired(w) \/ Claim(w) \/ Busy(w) \/ ReadOwn(w)
  \/ NameReviewer(w) \/ Ask(w) \/ Persist(w) \/ Complete(w)
  \/ ReadFailure(w) \/ RecordFailure(w)

Next ==
  \/ \E w \in Workers : Drain(w)
  \/ \E w \in Workers : Start(w) \/ Wake(w) \/ Awake(w) \/ TimerFires(w)
  \/ \E w \in Workers : RunPending(w) \/ RunJob(w)
  \/ \E w \in Workers : Cancel(w) \/ Crash(w)
  \/ \E j \in Jobs : Retry(j) \/ Expire(j)

\* The event loop runs what can run, timers fire, leases end; nobody has to
\* start a process, and a one-shot process may be suspended for good.
Fairness ==
  /\ \A w \in Loops : WF_vars(Drain(w)) /\ WF_vars(Awake(w))
                      /\ WF_vars(TimerFires(w))
  /\ \A j \in Jobs : WF_vars(Expire(j))

Spec == Init /\ [][Next]_vars /\ Fairness

-----------------------------------------------------------------------------
(* Properties                                                                *)

\* A row has a lease exactly while it is running, the state a backup refuses
\* otherwise (preference_job_lease_state); attempts are spent by claims only.
LeaseState ==
  \A j \in Jobs :
    /\ (row[j].status = "running") = (row[j].lease # NoLease)
    /\ row[j].live => row[j].status = "running"
    /\ row[j].status = "pending" => row[j].attempts = 0

\* However leases end and claims race, no two processes hold the same claim.
OneOwner ==
  \A w, v \in Workers :
    w # v /\ mine[w] # NoLease /\ at[w] = at[v] => mine[w] # mine[v]

\* While a lease lives, nobody but its owner changes the row, whatever other
\* processes read before or go on doing after they lost their own lease.
OnlyTheOwnerMoves ==
  [][\A j \in Jobs :
       row[j].live /\ row'[j].version # row[j].version =>
         \E w \in Workers : /\ at[w] = j /\ mine[w] = row[j].lease
                            /\ pc'[w] # pc[w]]_vars

\* A closed job stays as it is until a user retries a retryable failure: a
\* late answer, failure or exhaustion never reopens or recloses it.
ClosedStays ==
  [][\A j \in Jobs :
       row[j].status \in Terminal /\ row'[j] # row[j] =>
         /\ row[j].status # "completed" /\ row[j].retryable
         /\ row'[j].status = "pending" /\ row'[j].attempts = 0]_vars

\* A job completes by the process that holds its claim, and only once the
\* proposals of that very process are stored.
CompletesWithProposals ==
  [][\A j \in Jobs :
       row'[j].status = "completed" /\ row[j].status # "completed" =>
         \E w \in Workers : /\ at[w] = j /\ mine[w] = row[j].lease
                            /\ pc[w] = "closing" /\ answer[w] \subseteq made[j]]_vars

\* The processes whose claim is the one in the row.
Owners(j) ==
  {w \in Workers : at[w] = j /\ mine[w] # NoLease /\ mine[w] = row[j].lease}

\* The promise of module ReviewJob, read off the row of a job and its owner.
Job(j) == INSTANCE ReviewJob WITH
  status <- row[j].status, live <- row[j].live, attempts <- row[j].attempts,
  retryable <- row[j].retryable,
  held <- Owners(j) # {},
  proposed <- UNION {answer[w] : w \in Owners(j)},
  stored <- made[j]

\* Refinement.  Every job is kept as module ReviewJob promises, by any number of
\* processes that know only its row: the names of leases and the versions of
\* rows make one of them the owner (\A j \in Jobs : Job(j)!Spec).
JobsKeepPromise ==
  /\ \A j \in Jobs : Job(j)!Init
  /\ [][\A j \in Jobs : [Job(j)!Next]_(Job(j)!vars)]_vars

\* As long as some loop is woken again and again and processes stop dying, no
\* job stays pending or running for ever, whichever process left it behind.
JobsSettle ==
  (/\ \E w \in Loops : []<>(pc[w] = "list")
   /\ <>[][\A w \in Workers : ~Crash(w)]_vars) =>
  \A j \in Jobs : []<>(row[j].status \in Terminal)

=============================================================================
