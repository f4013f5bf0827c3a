-------------------------- MODULE ReviewWorker_proofs --------------------------
(* The claims of the Preference Review queue, for any number of jobs and      *)
(* processes, any limit of attempts and any number of retries.                *)
EXTENDS ReviewWorker, TLAPS

(* What is true of a row: its lease is one of the versions it went through.   *)
RowOK(j) ==
    /\ (row[j].status = "running") = (row[j].lease # NoLease)
    /\ row[j].live => row[j].status = "running"
    /\ row[j].status = "pending" => row[j].attempts = 0
    /\ row[j].lease <= row[j].version

(* What a process knows of the row it works on: its claim is a version of the *)
(* row, and while nobody has saved since it read the row, what it checked then*)
(* is still so.                                                               *)
Knows(w) ==
    /\ pc[w] \in Owning \cup {"chosen"} => at[w] \in Jobs
    /\ pc[w] \notin Owning => mine[w] = NoLease
    /\ pc[w] \in Owning => mine[w] # NoLease /\ mine[w] <= row[at[w]].version
    /\ at[w] \in Jobs => seen[w] <= row[at[w]].version
    /\ pc[w] = "chosen" /\ Unchanged(w) => Claimable(at[w])
    /\ pc[w] \in {"naming", "closing", "recording"} /\ Unchanged(w) =>
         row[at[w]].status = "running" /\ row[at[w]].lease = mine[w]
    /\ pc[w] \in {"stored", "closing"} => answer[w] \subseteq made[at[w]]

(* The inductive invariant.  OneOwner needs that every claim is at most the   *)
(* version of its row: the next claim is named by a larger version.           *)
ReviewInv ==
    /\ TypeOK
    /\ \A j \in Jobs : RowOK(j)
    /\ \A w \in Workers : Knows(w)
    /\ OneOwner

(* What other processes do to a row: nothing, save it, or see its lease end.  *)
RowMoves(j) ==
    \/ row'[j] = row[j]
    \/ row'[j].version = row[j].version + 1
    \/ row'[j] = [row[j] EXCEPT !.live = FALSE]

(* A process that stands still goes on knowing what it knew.                  *)
LEMMA OthersKnow ==
    ASSUME TypeOK, NEW v \in Workers, Knows(v),
           \A j \in Jobs : RowMoves(j) /\ made[j] \subseteq made'[j],
           row' \in [Jobs -> Row],
           pc'[v] = pc[v], at'[v] = at[v], mine'[v] = mine[v],
           seen'[v] = seen[v], answer'[v] = answer[v]
    PROVE  Knows(v)'
<1>1. CASE at[v] \in Jobs
  <2> DEFINE j == at[v]
  <2>1. /\ row[j].version \in Nat /\ row'[j].version \in Nat
        /\ row[j] \in Row /\ row'[j] \in Row
        /\ seen[v] \in Nat /\ mine[v] \in Nat
    BY <1>1 DEF TypeOK, Row
  <2>2. row[j].version <= row'[j].version
    BY <1>1, <2>1 DEF RowMoves, Row
  <2>3. row'[j].version = row[j].version =>
          /\ row'[j].status = row[j].status /\ row'[j].lease = row[j].lease
          /\ row'[j].live => row[j].live
    BY <1>1, <2>1 DEF RowMoves, Row
  <2>4. Unchanged(v)' => Unchanged(v) /\ row'[j].version = row[j].version
    BY <1>1, <2>1, <2>2 DEF Unchanged, Knows
  <2> QED BY <1>1, <2>1, <2>2, <2>3, <2>4 DEF Knows, Unchanged, Claimable
<1>2. CASE at[v] \notin Jobs
  BY <1>2 DEF Knows, Owning
<1> QED BY <1>1, <1>2

(* The frame of a step of one process: it writes its own place and at most    *)
(* one row, and the rows and proposals only grow.                             *)
Frame(w) ==
    /\ row' \in [Jobs -> Row]
    /\ \A j \in Jobs : RowMoves(j) /\ made[j] \subseteq made'[j]
    /\ \A v \in Workers \ {w} :
         /\ pc'[v] = pc[v] /\ at'[v] = at[v] /\ mine'[v] = mine[v]
         /\ seen'[v] = seen[v] /\ answer'[v] = answer[v]

(* A step keeps the invariant if it keeps the types and the rows, its process *)
(* knows what it should, and either keeps its claim, gives it up, or makes one*)
(* no other process can have.                                                 *)
LEMMA OneStep ==
    ASSUME ReviewInv, TypeOK', NEW w \in Workers, Frame(w),
           \A j \in Jobs : RowOK(j)', Knows(w)',
           \/ mine'[w] = NoLease
           \/ mine'[w] = mine[w] /\ at'[w] = at[w]
           \/ at'[w] \in Jobs /\ mine'[w] > row[at'[w]].version
    PROVE  ReviewInv'
<1>1. ASSUME NEW v \in Workers, v # w PROVE Knows(v)'
  BY <1>1, OthersKnow DEF Frame, ReviewInv
<1>2. \A v \in Workers : Knows(v)'
  BY <1>1
<1>3. OneOwner'
  <2> SUFFICES ASSUME NEW u \in Workers, NEW v \in Workers, u # v,
                      mine'[u] # NoLease, at'[u] = at'[v]
               PROVE  mine'[u] # mine'[v]
    BY DEF OneOwner
  <2>1. CASE u # w /\ v # w
    BY <2>1 DEF Frame, ReviewInv, OneOwner
  <2>2. ASSUME NEW x \in Workers, x # w, at'[x] = at'[w], mine'[x] # NoLease
        PROVE  mine'[x] # mine'[w]
    <3>1. at'[x] = at[x] /\ mine'[x] = mine[x] /\ pc'[x] = pc[x]
      BY <2>2 DEF Frame
    <3>2. CASE mine'[w] = NoLease
      BY <3>2, <2>2
    <3>3. CASE mine'[w] = mine[w] /\ at'[w] = at[w]
      BY <3>1, <3>3, <2>2 DEF ReviewInv, OneOwner
    <3>4. CASE at'[w] \in Jobs /\ mine'[w] > row[at'[w]].version
      <4>1. pc[x] \in Owning
        BY <3>1, <2>2 DEF ReviewInv, Knows
      <4>2. mine[x] <= row[at[x]].version
        BY <4>1 DEF ReviewInv, Knows
      <4>3. mine[x] \in Nat /\ row[at[x]].version \in Nat /\ mine'[w] \in Nat
        BY <3>1, <3>4, <2>2 DEF ReviewInv, TypeOK, Row
      <4> QED BY <3>1, <3>4, <2>2, <4>2, <4>3
    <3> QED BY <3>2, <3>3, <3>4
  <2> QED BY <2>1, <2>2
<1> QED BY <1>2, <1>3 DEF ReviewInv

(* A save writes one row under its next version.                              *)
LEMMA Saving ==
    ASSUME TypeOK, NEW j \in Jobs, NEW new \in Row, new.version = row[j].version,
           Saved(j, new)
    PROVE  /\ row' \in [Jobs -> Row]
           /\ \A k \in Jobs : RowMoves(k)
           /\ \A k \in Jobs \ {j} : row'[k] = row[k]
           /\ row'[j] = [new EXCEPT !.version = @ + 1]
           /\ row'[j].version = row[j].version + 1
<1>1. row' = [row EXCEPT ![j] = [new EXCEPT !.version = @ + 1]]
  BY DEF Saved
<1>2. /\ [new EXCEPT !.version = @ + 1] \in Row
      /\ [new EXCEPT !.version = @ + 1].version = row[j].version + 1
  BY DEF Row
<1> QED BY <1>1, <1>2 DEF RowMoves, TypeOK

(* One field of a row after the other.                                        *)
LEMMA RowFields ==
    ASSUME NEW r \in Row, NEW s \in {"pending", "running"} \cup Terminal,
           NEW l \in Nat, NEW v \in BOOLEAN, NEW n \in 0..MaxAttempts
    PROVE  /\ [r EXCEPT !.status = s] \in Row
           /\ [r EXCEPT !.lease = l] \in Row
           /\ [r EXCEPT !.live = v] \in Row
           /\ [r EXCEPT !.attempts = n] \in Row
           /\ [r EXCEPT !.retryable = v] \in Row
<1>1. [r EXCEPT !.status = s] \in Row
  BY DEF Row
<1>2. [r EXCEPT !.lease = l] \in Row
  BY DEF Row
<1>3. [r EXCEPT !.live = v] \in Row /\ [r EXCEPT !.retryable = v] \in Row
  BY DEF Row
<1>4. [r EXCEPT !.attempts = n] \in Row
  BY DEF Row
<1> QED BY <1>1, <1>2, <1>3, <1>4

(* The rows a drain or a retry writes: a closed, a claimed and a reset one.   *)
LEMMA ClosedRow ==
    ASSUME NEW r \in Row, NEW s \in Terminal, NEW b \in BOOLEAN
    PROVE  /\ Closed(r, s, b) \in Row
           /\ Closed(r, s, b).version = r.version /\ Closed(r, s, b).status = s
           /\ Closed(r, s, b).lease = NoLease /\ ~Closed(r, s, b).live
<1> DEFINE x == [r EXCEPT !.status = s]
           y == [x EXCEPT !.lease = NoLease]
           z == [y EXCEPT !.live = FALSE]
<1>1. 0 \in 0..MaxAttempts
  BY AttemptsAssumption
<1>2. x \in Row
  BY <1>1, RowFields
<1>3. y \in Row
  BY <1>1, <1>2, RowFields DEF NoLease
<1>4. z \in Row
  BY <1>1, <1>3, RowFields
<1>5. [z EXCEPT !.retryable = b] \in Row
  BY <1>1, <1>4, RowFields
<1>6. Closed(r, s, b) \in Row
  BY <1>5 DEF Closed
<1>7. /\ Closed(r, s, b).version = r.version /\ Closed(r, s, b).status = s
      /\ Closed(r, s, b).lease = NoLease /\ ~Closed(r, s, b).live
  BY DEF Closed, Row
<1> QED BY <1>6, <1>7

ClaimedRow(r) ==
  [r EXCEPT !.status = "running", !.lease = r.version + 1, !.live = TRUE,
            !.attempts = r.attempts + 1, !.retryable = FALSE]

LEMMA ClaimWrites ==
    ASSUME NEW r \in Row, r.attempts < MaxAttempts
    PROVE  /\ ClaimedRow(r) \in Row
           /\ ClaimedRow(r).version = r.version
           /\ ClaimedRow(r).status = "running" /\ ClaimedRow(r).lease = r.version + 1
           /\ ClaimedRow(r).attempts = r.attempts + 1
<1> DEFINE x == [r EXCEPT !.status = "running"]
           y == [x EXCEPT !.lease = r.version + 1]
           z == [y EXCEPT !.live = TRUE]
           u == [z EXCEPT !.attempts = r.attempts + 1]
<1>1. r.attempts + 1 \in 0..MaxAttempts /\ r.version + 1 \in Nat
  BY AttemptsAssumption DEF Row, NoLease
<1>2. x \in Row
  BY <1>1, RowFields
<1>3. y \in Row
  BY <1>1, <1>2, RowFields
<1>4. z \in Row
  BY <1>1, <1>3, RowFields
<1>5. u \in Row
  BY <1>1, <1>4, RowFields
<1>6. [u EXCEPT !.retryable = FALSE] \in Row
  BY <1>1, <1>5, RowFields
<1>7. ClaimedRow(r) \in Row
  BY <1>6 DEF ClaimedRow
<1>8. /\ ClaimedRow(r).version = r.version
      /\ ClaimedRow(r).status = "running" /\ ClaimedRow(r).lease = r.version + 1
      /\ ClaimedRow(r).attempts = r.attempts + 1
  BY DEF ClaimedRow, Row
<1> QED BY <1>7, <1>8

ResetRow(r) ==
  [r EXCEPT !.status = "pending", !.lease = NoLease, !.live = FALSE,
            !.attempts = 0, !.retryable = FALSE]

LEMMA RetryWrites ==
    ASSUME NEW r \in Row
    PROVE  /\ ResetRow(r) \in Row
           /\ ResetRow(r).version = r.version
           /\ ResetRow(r).status = "pending" /\ ResetRow(r).lease = NoLease
           /\ ResetRow(r).attempts = 0 /\ ~ResetRow(r).live
<1> DEFINE x == [r EXCEPT !.status = "pending"]
           y == [x EXCEPT !.lease = NoLease]
           z == [y EXCEPT !.live = FALSE]
           u == [z EXCEPT !.attempts = 0]
<1>1. 0 \in 0..MaxAttempts /\ NoLease \in Nat
  BY AttemptsAssumption DEF Row, NoLease
<1>2. x \in Row
  BY <1>1, RowFields
<1>3. y \in Row
  BY <1>1, <1>2, RowFields
<1>4. z \in Row
  BY <1>1, <1>3, RowFields
<1>5. u \in Row
  BY <1>1, <1>4, RowFields
<1>6. [u EXCEPT !.retryable = FALSE] \in Row
  BY <1>1, <1>5, RowFields
<1>7. ResetRow(r) \in Row
  BY <1>6 DEF ResetRow
<1>8. /\ ResetRow(r).version = r.version
      /\ ResetRow(r).status = "pending" /\ ResetRow(r).lease = NoLease
      /\ ResetRow(r).attempts = 0 /\ ~ResetRow(r).live
  BY DEF ResetRow, Row
<1> QED BY <1>7, <1>8

(* A save keeps what is true of the rows if it writes a row that is closed,   *)
(* pending afresh, or running under a version that is not after its own.      *)
LEMMA SavedOK ==
    ASSUME TypeOK, \A k \in Jobs : RowOK(k), NEW j \in Jobs, NEW new \in Row,
           new.version = row[j].version, Saved(j, new),
           (new.status = "running") = (new.lease # NoLease),
           new.live => new.status = "running",
           new.status = "pending" => new.attempts = 0,
           new.lease <= row[j].version + 1
    PROVE  \A k \in Jobs : RowOK(k)'
<1>1. /\ \A k \in Jobs \ {j} : row'[k] = row[k]
      /\ row'[j] = [new EXCEPT !.version = @ + 1]
      /\ row'[j].version = row[j].version + 1
  BY Saving
<1>2. /\ row'[j].status = new.status /\ row'[j].lease = new.lease
      /\ row'[j].live = new.live /\ row'[j].attempts = new.attempts
  BY <1>1 DEF Row
<1>3. RowOK(j)'
  BY <1>1, <1>2 DEF RowOK
<1>4. ASSUME NEW k \in Jobs \ {j}
      PROVE  RowOK(k)'
  <2>1. row'[k] = row[k] /\ RowOK(k)
    BY <1>1
  <2> QED BY <2>1 DEF RowOK
<1> QED BY <1>3, <1>4

(* A step that writes no row.                                                 *)
LEMMA QuietStep ==
    ASSUME ReviewInv, TypeOK', NEW w \in Workers, row' = row,
           \A j \in Jobs : made[j] \subseteq made'[j],
           \A v \in Workers \ {w} :
             /\ pc'[v] = pc[v] /\ at'[v] = at[v] /\ mine'[v] = mine[v]
             /\ seen'[v] = seen[v] /\ answer'[v] = answer[v],
           Knows(w)',
           mine'[w] = NoLease \/ (mine'[w] = mine[w] /\ at'[w] = at[w])
    PROVE  ReviewInv'
<1>1. Frame(w)
  BY DEF Frame, RowMoves, ReviewInv, TypeOK
<1>2. \A j \in Jobs : RowOK(j)'
  BY DEF ReviewInv, RowOK
<1> QED BY <1>1, <1>2, OneStep

(* The steps of the loop and of one-shot callers, and those of a drain before *)
(* it claims.                                                                 *)
LEMMA IdleStep ==
    ASSUME ReviewInv, NEW w \in Workers,
           \/ Start(w) \/ Wake(w) \/ Awake(w) \/ TimerFires(w)
           \/ RunPending(w) \/ RunJob(w) \/ Choose(w) \/ Busy(w)
    PROVE  ReviewInv'
<1> USE DEF Goto
<1>1. TypeOK /\ Knows(w)
  BY DEF ReviewInv
<1>2. CASE Start(w) \/ Wake(w) \/ Awake(w) \/ TimerFires(w) \/ RunPending(w)
  <2>1. TypeOK'
    <3>1. CASE Start(w) \/ Wake(w) \/ Awake(w) \/ RunPending(w)
      BY <1>1, <3>1 DEF Start, Wake, Awake, RunPending, TypeOK
    <3>2. CASE TimerFires(w)
      <4>1. w \in Loops /\ timers[w] \in SUBSET (Jobs \X Nat)
        BY <1>1, <3>2 DEF TimerFires, TypeOK
      <4>2. PICK t \in timers[w] : timers' = [timers EXCEPT ![w] = timers[w] \ {t}]
        BY <3>2 DEF TimerFires
      <4>3. timers[w] \ {t} \in SUBSET (Jobs \X Nat)
        BY <4>1
      <4>4. timers' \in [Loops -> SUBSET (Jobs \X Nat)]
        BY <1>1, <4>1, <4>2, <4>3 DEF TypeOK
      <4> QED BY <1>1, <3>2, <4>4 DEF TimerFires, TypeOK
    <3> QED BY <1>2, <3>1, <3>2
  <2>2. Knows(w)' /\ row' = row /\ made' = made /\ mine' = mine /\ at' = at
    BY <1>1, <1>2 DEF Start, Wake, Awake, TimerFires, RunPending, Knows, TypeOK,
                      Unchanged, Claimable, Owning
  <2>3. \A v \in Workers \ {w} :
          pc'[v] = pc[v] /\ seen'[v] = seen[v] /\ answer'[v] = answer[v]
    BY <1>1, <1>2 DEF Start, Wake, Awake, TimerFires, RunPending, TypeOK
  <2> QED BY <2>1, <2>2, <2>3, QuietStep
<1>3. CASE RunJob(w) \/ Choose(w)
  <2>1. TypeOK'
    BY <1>1, <1>3 DEF RunJob, Choose, TypeOK, Row, Rest
  <2>2. Knows(w)'
    BY <1>1, <1>3 DEF RunJob, Choose, Oldest, Knows, TypeOK, Row, Unchanged,
                      Claimable, Owning, Rest
  <2>3. mine'[w] = NoLease /\ row' = row /\ made' = made
    BY <1>1, <1>3 DEF RunJob, Choose, Knows, Owning
  <2>4. \A v \in Workers \ {w} :
          /\ pc'[v] = pc[v] /\ at'[v] = at[v] /\ mine'[v] = mine[v]
          /\ seen'[v] = seen[v] /\ answer'[v] = answer[v]
    BY <1>1, <1>3 DEF RunJob, Choose, TypeOK
  <2> QED BY <2>1, <2>2, <2>3, <2>4, QuietStep
<1>4. CASE Busy(w)
  <2>1. TypeOK'
    BY <1>1, <1>4 DEF Busy, Forget, TypeOK, Rest, NoLease
  <2>2. Knows(w)' /\ mine'[w] = NoLease /\ row' = row /\ made' = made
    BY <1>1, <1>4, JobsAssumption
       DEF Busy, Forget, Knows, TypeOK, Owning, Rest, NoLease, NoJob
  <2>3. \A v \in Workers \ {w} :
          /\ pc'[v] = pc[v] /\ at'[v] = at[v] /\ mine'[v] = mine[v]
          /\ seen'[v] = seen[v] /\ answer'[v] = answer[v]
    BY <1>1, <1>4 DEF Busy, Forget, TypeOK
  <2> QED BY <2>1, <2>2, <2>3, QuietStep
<1> QED BY <1>2, <1>3, <1>4

(* The steps of a process that holds a claim and writes no row.               *)
LEMMA OwningStep ==
    ASSUME ReviewInv, NEW w \in Workers,
           ReadOwn(w) \/ Ask(w) \/ Persist(w)
    PROVE  ReviewInv'
<1> USE DEF Goto, Fails
<1>1. TypeOK /\ Knows(w)
  BY DEF ReviewInv
<1>2. CASE ReadOwn(w) \/ Ask(w)
  <2>1. TypeOK'
    BY <1>1, <1>2 DEF ReadOwn, Ask, TypeOK, Row, Knows, Owning
  <2>2. Knows(w)'
    <3>1. CASE ReadOwn(w)
      BY <1>1, <3>1 DEF ReadOwn, HoldsLease, Knows, TypeOK, Row, Unchanged, Owning
    <3>2. CASE Ask(w)
      BY <1>1, <3>2 DEF Ask, Knows, TypeOK, Owning
    <3> QED BY <1>2, <3>1, <3>2
  <2>3. row' = row /\ made' = made /\ mine' = mine /\ at' = at
    BY <1>2 DEF ReadOwn, Ask
  <2>4. \A v \in Workers \ {w} :
          pc'[v] = pc[v] /\ seen'[v] = seen[v] /\ answer'[v] = answer[v]
    BY <1>1, <1>2 DEF ReadOwn, Ask, TypeOK
  <2> QED BY <2>1, <2>2, <2>3, <2>4, QuietStep
<1>3. CASE Persist(w)
  <2>1. at[w] \in Jobs /\ answer[w] \in SUBSET Ops
    BY <1>1, <1>3 DEF Persist, Knows, TypeOK, Owning
  <2>2. made' = [made EXCEPT ![at[w]] = @ \cup answer[w]]
    BY <1>3 DEF Persist
  <2>3. TypeOK'
    <3>1. made[at[w]] \cup answer[w] \in SUBSET Ops
      BY <1>1, <2>1 DEF TypeOK
    <3>2. made' \in [Jobs -> SUBSET Ops]
      BY <1>1, <2>1, <2>2, <3>1 DEF TypeOK
    <3>3. /\ pc' = [pc EXCEPT ![w] = "stored"] /\ row' = row /\ retries' = retries
          /\ at' = at /\ mine' = mine /\ seen' = seen /\ answer' = answer
          /\ why' = why /\ wake' = wake /\ timers' = timers
      BY <1>3 DEF Persist
    <3> QED BY <1>1, <3>2, <3>3 DEF TypeOK, Owning
  <2>4. \A j \in Jobs : made[j] \subseteq made'[j]
    BY <1>1, <2>2 DEF TypeOK
  <2>5. Knows(w)' /\ row' = row /\ mine' = mine /\ at' = at
    BY <1>1, <1>3, <2>1 DEF Persist, Knows, TypeOK, Owning, Unchanged
  <2>6. \A v \in Workers \ {w} :
          pc'[v] = pc[v] /\ seen'[v] = seen[v] /\ answer'[v] = answer[v]
    BY <1>1, <1>3 DEF Persist, TypeOK
  <2> QED BY <2>3, <2>4, <2>5, <2>6, QuietStep
<1> QED BY <1>2, <1>3

(* A process that dies or is cancelled.                                       *)
LEMMA StopStep ==
    ASSUME ReviewInv, NEW w \in Workers, Cancel(w) \/ Crash(w)
    PROVE  ReviewInv'
<1> USE DEF Goto, Fails
<1>1. TypeOK /\ Knows(w)
  BY DEF ReviewInv
<1>2. TypeOK'
  <2>1. timers' \in [Loops -> SUBSET (Jobs \X Nat)]
    <3>1. {} \in SUBSET (Jobs \X Nat)
      OBVIOUS
    <3>2. timers' = timers \/ timers' = [timers EXCEPT ![w] = {}]
      BY DEF Cancel, Crash
    <3> QED BY <1>1, <3>1, <3>2 DEF TypeOK
  <2>2. CASE Cancel(w)
    <3>1. /\ \/ pc' = [pc EXCEPT ![w] = "off"] /\ why' = why
             \/ pc' = [pc EXCEPT ![w] = "failing"]
                /\ why' = [why EXCEPT ![w] = "cancelled"]
          /\ row' = row /\ made' = made /\ retries' = retries /\ at' = at
          /\ mine' = mine /\ seen' = seen /\ answer' = answer /\ wake' = wake
      BY <2>2 DEF Cancel
    <3> QED BY <1>1, <2>1, <3>1 DEF TypeOK, Owning
  <2>3. CASE Crash(w)
    BY <1>1, <2>1, <2>3 DEF Crash, Forget, TypeOK, NoLease
  <2> QED BY <2>2, <2>3
<1>3. Knows(w)' /\ (mine'[w] = NoLease \/ (mine'[w] = mine[w] /\ at'[w] = at[w]))
  BY <1>1, JobsAssumption
     DEF Cancel, Crash, Forget, Knows, TypeOK, Owning, NoLease, NoJob
<1>4. row' = row /\ made' = made
  BY DEF Cancel, Crash
<1>5. \A v \in Workers \ {w} :
        /\ pc'[v] = pc[v] /\ at'[v] = at[v] /\ mine'[v] = mine[v]
        /\ seen'[v] = seen[v] /\ answer'[v] = answer[v]
  BY <1>1 DEF Cancel, Crash, Forget, TypeOK
<1> QED BY <1>2, <1>3, <1>4, <1>5, QuietStep

(* A save by process w: what is left to show is about w itself.               *)
LEMMA SaveStep ==
    ASSUME ReviewInv, NEW w \in Workers, at[w] \in Jobs, NEW new \in Row,
           new.version = row[at[w]].version, Saved(at[w], new),
           (new.status = "running") = (new.lease # NoLease),
           new.live => new.status = "running",
           new.status = "pending" => new.attempts = 0,
           new.lease <= row[at[w]].version + 1,
           made' = made,
           \A v \in Workers \ {w} :
             /\ pc'[v] = pc[v] /\ at'[v] = at[v] /\ mine'[v] = mine[v]
             /\ seen'[v] = seen[v] /\ answer'[v] = answer[v],
           TypeOK', Knows(w)',
           \/ mine'[w] = NoLease
           \/ mine'[w] = mine[w] /\ at'[w] = at[w]
           \/ at'[w] \in Jobs /\ mine'[w] > row[at'[w]].version
    PROVE  ReviewInv'
<1>1. Frame(w)
  BY Saving DEF Frame, ReviewInv
<1>2. \A j \in Jobs : RowOK(j)'
  BY SavedOK DEF ReviewInv
<1> QED BY <1>1, <1>2, OneStep

(* A claim is named by the version it writes, after every earlier claim.      *)
LEMMA ClaimStep ==
    ASSUME ReviewInv, NEW w \in Workers, Claim(w)
    PROVE  ReviewInv'
<1> DEFINE j == at[w]
           new == ClaimedRow(row[j])
<1>1. TypeOK /\ Knows(w) /\ j \in Jobs /\ row[j] \in Row
  BY DEF ReviewInv, Claim, Knows, TypeOK
<1>2. row[j].version + 1 \in Nat /\ row[j].attempts < MaxAttempts
  BY <1>1 DEF Claim, Row
<1>3. /\ new \in Row /\ new.version = row[j].version /\ new.status = "running"
      /\ new.lease = row[j].version + 1
  BY <1>1, <1>2, ClaimWrites
<1>4. Saved(j, new)
  BY DEF Claim, ClaimedRow
<1> HIDE DEF new
<1>5. /\ row' \in [Jobs -> Row] /\ row'[j].version = row[j].version + 1
  BY <1>1, <1>3, <1>4, Saving
<1>6. /\ pc' = [pc EXCEPT ![w] = "claimed"]
      /\ mine' = [mine EXCEPT ![w] = row[j].version + 1]
      /\ made' = made /\ retries' = retries /\ at' = at /\ seen' = seen
      /\ answer' = answer /\ why' = why /\ wake' = wake /\ timers' = timers
  BY DEF Claim, Goto
<1>7. TypeOK'
  BY <1>1, <1>2, <1>5, <1>6 DEF TypeOK, Owning
<1>8. Knows(w)'
  BY <1>1, <1>5, <1>6 DEF Knows, TypeOK, Row, Owning, NoLease
<1>9. at'[w] \in Jobs /\ mine'[w] > row[at'[w]].version
  BY <1>1, <1>6 DEF TypeOK, Row
<1>10. \A v \in Workers \ {w} :
         /\ pc'[v] = pc[v] /\ at'[v] = at[v] /\ mine'[v] = mine[v]
         /\ seen'[v] = seen[v] /\ answer'[v] = answer[v]
  BY <1>1, <1>6 DEF TypeOK
<1>11. /\ (new.status = "running") = (new.lease # NoLease)
       /\ new.status = "pending" => new.attempts = 0
       /\ new.live => new.status = "running"
       /\ new.lease <= row[at[w]].version + 1
  BY <1>1, <1>3 DEF Row, NoLease
<1> QED BY <1>1, <1>3, <1>4, <1>6, <1>7, <1>8, <1>9, <1>10, <1>11, SaveStep

(* A process that is done with its job: it forgets it and goes on elsewhere.  *)
LEMMA Forgets ==
    ASSUME TypeOK, NEW w \in Workers, Forget(w),
           NEW place \in {"off", "wait", "list"}, Goto(w, place)
    PROVE  /\ pc' \in [Workers -> {"off", "wait", "list", "chosen"} \cup Owning]
           /\ at' \in [Workers -> Jobs \cup {NoJob}]
           /\ mine' \in [Workers -> Nat] /\ seen' \in [Workers -> Nat]
           /\ answer' \in [Workers -> SUBSET Ops]
           /\ why' \in [Workers -> {"none", "retryable", "fatal", "cancelled"}]
           /\ Knows(w)' /\ mine'[w] = NoLease
           /\ \A v \in Workers \ {w} :
                /\ pc'[v] = pc[v] /\ at'[v] = at[v] /\ mine'[v] = mine[v]
                /\ seen'[v] = seen[v] /\ answer'[v] = answer[v]
<1>1. /\ pc' = [pc EXCEPT ![w] = place]
      /\ at' = [at EXCEPT ![w] = NoJob] /\ mine' = [mine EXCEPT ![w] = NoLease]
      /\ seen' = [seen EXCEPT ![w] = 0] /\ answer' = [answer EXCEPT ![w] = {}]
      /\ why' = [why EXCEPT ![w] = "none"]
  BY DEF Forget, Goto
<1>2. pc' \in [Workers -> {"off", "wait", "list", "chosen"} \cup Owning]
  BY <1>1 DEF TypeOK
<1>3. /\ at' \in [Workers -> Jobs \cup {NoJob}]
      /\ mine' \in [Workers -> Nat] /\ seen' \in [Workers -> Nat]
      /\ answer' \in [Workers -> SUBSET Ops]
      /\ why' \in [Workers -> {"none", "retryable", "fatal", "cancelled"}]
  BY <1>1 DEF TypeOK, NoLease
<1>4. Knows(w)' /\ mine'[w] = NoLease
  BY <1>1, JobsAssumption DEF Knows, TypeOK, Owning, NoLease, NoJob
<1>5. \A v \in Workers \ {w} :
        /\ pc'[v] = pc[v] /\ at'[v] = at[v] /\ mine'[v] = mine[v]
        /\ seen'[v] = seen[v] /\ answer'[v] = answer[v]
  BY <1>1 DEF TypeOK
<1> QED BY <1>2, <1>3, <1>4, <1>5

(* The last attempt was lost: the row is closed and the process goes on.      *)
LEMMA ExhaustStep ==
    ASSUME ReviewInv, NEW w \in Workers, ExhaustExpired(w)
    PROVE  ReviewInv'
<1> DEFINE new == Closed(row[at[w]], "exhausted", TRUE)
<1>1. TypeOK /\ at[w] \in Jobs /\ row[at[w]] \in Row
  BY DEF ReviewInv, ExhaustExpired, Knows, TypeOK
<1>2. /\ new \in Row /\ new.version = row[at[w]].version
      /\ new.status = "exhausted" /\ new.lease = NoLease /\ ~new.live
  BY <1>1, ClosedRow DEF Terminal
<1>3. Saved(at[w], new) /\ made' = made /\ retries' = retries
      /\ wake' = wake /\ timers' = timers /\ Forget(w)
  BY DEF ExhaustExpired
<1> HIDE DEF new
<1>4. PICK place \in {"off", "wait", "list"} : Goto(w, place)
  BY DEF ExhaustExpired, After
<1>5. row' \in [Jobs -> Row]
  BY <1>1, <1>2, <1>3, Saving
<1>6. TypeOK'
  BY <1>1, <1>3, <1>4, <1>5, Forgets DEF TypeOK
<1>7. /\ Knows(w)' /\ mine'[w] = NoLease
      /\ \A v \in Workers \ {w} :
           /\ pc'[v] = pc[v] /\ at'[v] = at[v] /\ mine'[v] = mine[v]
           /\ seen'[v] = seen[v] /\ answer'[v] = answer[v]
  BY <1>1, <1>3, <1>4, Forgets
<1>8. /\ (new.status = "running") = (new.lease # NoLease)
      /\ new.status = "pending" => new.attempts = 0
      /\ new.live => new.status = "running"
      /\ new.lease <= row[at[w]].version + 1
  BY <1>1, <1>2 DEF Row, NoLease
<1> QED BY <1>1, <1>2, <1>3, <1>6, <1>7, <1>8, SaveStep

(* A save of the reviewer's name, or a row that was saved since.              *)
LEMMA NameStep ==
    ASSUME ReviewInv, NEW w \in Workers, NameReviewer(w)
    PROVE  ReviewInv'
<1>1. TypeOK /\ Knows(w) /\ at[w] \in Jobs /\ row[at[w]] \in Row /\ RowOK(at[w])
  BY DEF ReviewInv, NameReviewer, Knows, TypeOK, Owning
<1>2. /\ made' = made /\ retries' = retries /\ at' = at /\ mine' = mine
      /\ seen' = seen /\ answer' = answer /\ wake' = wake /\ timers' = timers
  BY DEF NameReviewer
<1>3. CASE Unchanged(w)
  <2>1. Saved(at[w], row[at[w]]) /\ pc' = [pc EXCEPT ![w] = "asking"] /\ why' = why
    BY <1>3 DEF NameReviewer, Goto
  <2>2. row' \in [Jobs -> Row] /\ row'[at[w]].version = row[at[w]].version + 1
    BY <1>1, <2>1, Saving
  <2>3. TypeOK'
    BY <1>1, <1>2, <2>1, <2>2 DEF TypeOK, Owning
  <2>4. Knows(w)'
    <3>1. pc'[w] = "asking" /\ pc[w] = "naming"
      BY <1>1, <2>1 DEF TypeOK, NameReviewer
    <3>2. row[at[w]].version \in Nat /\ row'[at[w]].version \in Nat
          /\ mine[w] \in Nat /\ seen[w] \in Nat
      BY <1>1, <2>2 DEF TypeOK, Row
    <3> QED BY <1>1, <1>2, <2>2, <3>1, <3>2 DEF Knows, Owning
  <2>5. \A v \in Workers \ {w} : pc'[v] = pc[v]
    BY <1>1, <2>1 DEF TypeOK
  <2>6. row[at[w]].lease <= row[at[w]].version + 1
    BY <1>1 DEF RowOK, Row
  <2> QED BY <1>1, <1>2, <2>1, <2>3, <2>4, <2>5, <2>6, SaveStep DEF RowOK
<1>4. CASE ~Unchanged(w)
  <2>1. /\ row' = row /\ pc' = [pc EXCEPT ![w] = "failing"]
        /\ why' = [why EXCEPT ![w] = "retryable"]
    BY <1>4 DEF NameReviewer, Fails, Goto
  <2>2. TypeOK'
    BY <1>1, <1>2, <2>1 DEF TypeOK, Owning
  <2>3. Knows(w)'
    BY <1>1, <1>2, <2>1 DEF Knows, TypeOK, Owning, NameReviewer
  <2>4. \A v \in Workers \ {w} : pc'[v] = pc[v]
    BY <1>1, <2>1 DEF TypeOK
  <2> QED BY <1>2, <2>1, <2>2, <2>3, <2>4, QuietStep
<1> QED BY <1>3, <1>4

(* The owner closes the row, or finds that it was saved since.                *)
LEMMA CompleteStep ==
    ASSUME ReviewInv, NEW w \in Workers, Complete(w)
    PROVE  ReviewInv'
<1>1. TypeOK /\ Knows(w) /\ at[w] \in Jobs /\ row[at[w]] \in Row
  BY DEF ReviewInv, Complete, Knows, TypeOK, Owning
<1>2. made' = made /\ retries' = retries /\ wake' = wake /\ timers' = timers
  BY DEF Complete
<1>3. CASE Unchanged(w)
  <2> DEFINE new == Closed(row[at[w]], "completed", FALSE)
  <2>1. /\ new \in Row /\ new.version = row[at[w]].version
        /\ new.status = "completed" /\ new.lease = NoLease /\ ~new.live
    BY <1>1, ClosedRow DEF Terminal
  <2>2. Saved(at[w], new) /\ Forget(w)
    BY <1>3 DEF Complete
  <2>3. PICK place \in {"off", "wait", "list"} : Goto(w, place)
    BY <1>3 DEF Complete, After
  <2> HIDE DEF new
  <2>4. row' \in [Jobs -> Row]
    BY <1>1, <2>1, <2>2, Saving
  <2>5. TypeOK'
    BY <1>1, <1>2, <2>2, <2>3, <2>4, Forgets DEF TypeOK
  <2>6. /\ Knows(w)' /\ mine'[w] = NoLease
        /\ \A v \in Workers \ {w} :
             /\ pc'[v] = pc[v] /\ at'[v] = at[v] /\ mine'[v] = mine[v]
             /\ seen'[v] = seen[v] /\ answer'[v] = answer[v]
    BY <1>1, <2>2, <2>3, Forgets
  <2>7. /\ (new.status = "running") = (new.lease # NoLease)
        /\ new.status = "pending" => new.attempts = 0
        /\ new.live => new.status = "running"
        /\ new.lease <= row[at[w]].version + 1
    BY <1>1, <2>1 DEF Row, NoLease
  <2> QED BY <1>1, <1>2, <2>1, <2>2, <2>5, <2>6, <2>7, SaveStep
<1>4. CASE ~Unchanged(w)
  <2>1. /\ row' = row /\ pc' = [pc EXCEPT ![w] = "failing"]
        /\ why' = [why EXCEPT ![w] = "retryable"] /\ at' = at /\ mine' = mine
        /\ seen' = seen /\ answer' = answer
    BY <1>4 DEF Complete, Fails, Goto
  <2>2. TypeOK'
    BY <1>1, <1>2, <2>1 DEF TypeOK, Owning
  <2>3. Knows(w)'
    BY <1>1, <1>2, <2>1 DEF Knows, TypeOK, Owning, Complete
  <2>4. \A v \in Workers \ {w} : pc'[v] = pc[v]
    BY <1>1, <2>1 DEF TypeOK
  <2> QED BY <1>2, <2>1, <2>2, <2>3, <2>4, QuietStep
<1> QED BY <1>3, <1>4

(* However a failed drain ends, the process forgets the job.                  *)
LEMMA FailedDrainEnds ==
    ASSUME TypeOK, NEW w \in Workers, at[w] \in Jobs, NEW lease \in Nat,
           NEW closed \in BOOLEAN, FailedDrain(w, lease, closed)
    PROVE  /\ Forget(w) /\ timers' \in [Loops -> SUBSET (Jobs \X Nat)]
           /\ \E place \in {"off", "wait", "list"} : Goto(w, place)
<1>1. Forget(w)
  BY DEF FailedDrain, Deferred
<1>2. \E place \in {"off", "wait", "list"} : Goto(w, place)
  BY DEF FailedDrain, Deferred, After
<1>3. timers' \in [Loops -> SUBSET (Jobs \X Nat)]
  <2>1. CASE timers' = timers
    BY <2>1 DEF TypeOK
  <2>2. CASE w \in Loops /\ timers' = [timers EXCEPT ![w] =
               {t \in timers[w] : t[1] # at[w]} \cup {<<at[w], lease>>}]
    <3>1. {t \in timers[w] : t[1] # at[w]} \cup {<<at[w], lease>>}
            \in SUBSET (Jobs \X Nat)
      BY <2>2 DEF TypeOK
    <3> QED BY <2>2, <3>1 DEF TypeOK
  <2> QED BY <2>1, <2>2 DEF FailedDrain, Deferred
<1> QED BY <1>1, <1>2, <1>3

(* A failure is read by the owner, or dropped by who lost the claim.          *)
LEMMA ReadFailureStep ==
    ASSUME ReviewInv, NEW w \in Workers, ReadFailure(w)
    PROVE  ReviewInv'
<1>1. TypeOK /\ Knows(w) /\ at[w] \in Jobs /\ row[at[w]] \in Row
  BY DEF ReviewInv, ReadFailure, Knows, TypeOK, Owning
<1>2. row' = row /\ made' = made /\ retries' = retries /\ wake' = wake
  BY DEF ReadFailure
<1>3. CASE HoldsLease(w)
  <2>1. /\ seen' = [seen EXCEPT ![w] = row[at[w]].version]
        /\ pc' = [pc EXCEPT ![w] = "recording"] /\ at' = at /\ mine' = mine
        /\ answer' = answer /\ why' = why /\ timers' = timers
    BY <1>3 DEF ReadFailure, Goto
  <2>2. TypeOK'
    BY <1>1, <1>2, <2>1 DEF TypeOK, Owning, Row
  <2>3. Knows(w)'
    BY <1>1, <1>2, <1>3, <2>1
       DEF Knows, TypeOK, Row, Owning, HoldsLease, Unchanged, ReadFailure
  <2>4. \A v \in Workers \ {w} : pc'[v] = pc[v] /\ seen'[v] = seen[v]
    BY <1>1, <2>1 DEF TypeOK
  <2> QED BY <1>2, <2>1, <2>2, <2>3, <2>4, QuietStep
<1>4. CASE ~HoldsLease(w)
  <2> DEFINE closed == row[at[w]].status \in {"failed", "exhausted"}
  <2>1. FailedDrain(w, row[at[w]].lease, closed)
    BY <1>4 DEF ReadFailure
  <2>2. row[at[w]].lease \in Nat /\ closed \in BOOLEAN
    BY <1>1 DEF Row
  <2> HIDE DEF closed
  <2>3. Forget(w) /\ timers' \in [Loops -> SUBSET (Jobs \X Nat)]
    BY <1>1, <2>1, <2>2, FailedDrainEnds
  <2>4. PICK place \in {"off", "wait", "list"} : Goto(w, place)
    BY <1>1, <2>1, <2>2, FailedDrainEnds
  <2>5. TypeOK'
    BY <1>1, <1>2, <2>3, <2>4, Forgets DEF TypeOK
  <2>6. /\ Knows(w)' /\ mine'[w] = NoLease
        /\ \A v \in Workers \ {w} :
             /\ pc'[v] = pc[v] /\ at'[v] = at[v] /\ mine'[v] = mine[v]
             /\ seen'[v] = seen[v] /\ answer'[v] = answer[v]
    BY <1>1, <2>3, <2>4, Forgets
  <2> QED BY <1>2, <2>5, <2>6, QuietStep
<1> QED BY <1>3, <1>4

(* A failure recorded under the claim keeps the row running under it, or      *)
(* closes it; a failure that comes too late writes nothing.                   *)
LEMMA RecordFailureStep ==
    ASSUME ReviewInv, NEW w \in Workers, RecordFailure(w)
    PROVE  ReviewInv'
<1> DEFINE j == at[w]
<1>1. TypeOK /\ Knows(w) /\ j \in Jobs /\ row[j] \in Row /\ RowOK(j)
  BY DEF ReviewInv, RecordFailure, Knows, TypeOK, Owning
<1>2. made' = made /\ retries' = retries /\ wake' = wake
  BY DEF RecordFailure
<1>3. CASE Unchanged(w)
  <2>1. row[j].status = "running" /\ row[j].lease # NoLease
    BY <1>1, <1>3 DEF Knows, RecordFailure, RowOK
  <2>2. /\ FailureRow(w) \in Row /\ FailureRow(w).version = row[j].version
        /\ (FailureRow(w).status = "running") = (FailureRow(w).lease # NoLease)
        /\ FailureRow(w).live => FailureRow(w).status = "running"
        /\ FailureRow(w).status # "pending"
        /\ FailureRow(w).lease <= row[j].version + 1
    <3>1. CASE why[w] = "fatal"
      <4>1. FailureRow(w) = Closed(row[j], "failed", FALSE)
        BY <3>1 DEF FailureRow
      <4> DEFINE c == Closed(row[j], "failed", FALSE)
      <4>2. /\ c \in Row /\ c.version = row[j].version
            /\ c.status = "failed" /\ c.lease = NoLease /\ ~c.live
        BY <1>1, ClosedRow DEF Terminal
      <4> HIDE DEF c
      <4>3. NoLease <= row[j].version + 1
        BY <1>1 DEF Row, NoLease
      <4>4. FailureRow(w) = c
        BY <4>1 DEF c
      <4> QED BY <4>2, <4>3, <4>4
    <3>2. CASE why[w] # "fatal" /\ row[j].attempts >= MaxAttempts
      <4>1. FailureRow(w) = Closed(row[j], "exhausted", TRUE)
        BY <3>2 DEF FailureRow
      <4> DEFINE c == Closed(row[j], "exhausted", TRUE)
      <4>2. /\ c \in Row /\ c.version = row[j].version
            /\ c.status = "exhausted" /\ c.lease = NoLease /\ ~c.live
        BY <1>1, ClosedRow DEF Terminal
      <4> HIDE DEF c
      <4>3. NoLease <= row[j].version + 1
        BY <1>1 DEF Row, NoLease
      <4>4. FailureRow(w) = c
        BY <4>1 DEF c
      <4> QED BY <4>2, <4>3, <4>4
    <3>3. CASE why[w] # "fatal" /\ ~(row[j].attempts >= MaxAttempts)
      <4>1. FailureRow(w) = [row[j] EXCEPT !.live = TRUE]
        BY <3>3 DEF FailureRow
      <4>2. [row[j] EXCEPT !.live = TRUE] \in Row
        BY <1>1 DEF Row
      <4>3. /\ [row[j] EXCEPT !.live = TRUE].version = row[j].version
            /\ [row[j] EXCEPT !.live = TRUE].status = row[j].status
            /\ [row[j] EXCEPT !.live = TRUE].lease = row[j].lease
        BY <1>1 DEF Row
      <4>4. row[j].lease <= row[j].version + 1
        BY <1>1 DEF Row, RowOK
      <4> QED BY <2>1, <4>1, <4>2, <4>3, <4>4
    <3> QED BY <3>1, <3>2, <3>3
  <2> DEFINE open == FailureRow(w).status # "running"
  <2>3. Saved(j, FailureRow(w)) /\ FailedDrain(w, FailureRow(w).lease, open)
    BY <1>3 DEF RecordFailure
  <2>4. FailureRow(w).lease \in Nat /\ open \in BOOLEAN
    BY <2>2 DEF Row
  <2> HIDE DEF open
  <2>5. Forget(w) /\ timers' \in [Loops -> SUBSET (Jobs \X Nat)]
    BY <1>1, <2>3, <2>4, FailedDrainEnds
  <2>6. PICK place \in {"off", "wait", "list"} : Goto(w, place)
    BY <1>1, <2>3, <2>4, FailedDrainEnds
  <2>7. row' \in [Jobs -> Row]
    BY <1>1, <2>2, <2>3, Saving
  <2>8. TypeOK'
    BY <1>1, <1>2, <2>5, <2>6, <2>7, Forgets DEF TypeOK
  <2>9. /\ Knows(w)' /\ mine'[w] = NoLease
        /\ \A v \in Workers \ {w} :
             /\ pc'[v] = pc[v] /\ at'[v] = at[v] /\ mine'[v] = mine[v]
             /\ seen'[v] = seen[v] /\ answer'[v] = answer[v]
    BY <1>1, <2>5, <2>6, Forgets
  <2> QED BY <1>1, <1>2, <2>2, <2>3, <2>8, <2>9, SaveStep
<1>4. CASE ~Unchanged(w)
  <2>1. row' = row /\ FailedDrain(w, row[j].lease, FALSE)
    BY <1>4 DEF RecordFailure
  <2>2. row[j].lease \in Nat /\ FALSE \in BOOLEAN
    BY <1>1 DEF Row
  <2>3. Forget(w) /\ timers' \in [Loops -> SUBSET (Jobs \X Nat)]
    BY <1>1, <2>1, <2>2, FailedDrainEnds
  <2>4. PICK place \in {"off", "wait", "list"} : Goto(w, place)
    BY <1>1, <2>1, <2>2, FailedDrainEnds
  <2>5. TypeOK'
    BY <1>1, <1>2, <2>1, <2>3, <2>4, Forgets DEF TypeOK
  <2>6. /\ Knows(w)' /\ mine'[w] = NoLease
        /\ \A v \in Workers \ {w} :
             /\ pc'[v] = pc[v] /\ at'[v] = at[v] /\ mine'[v] = mine[v]
             /\ seen'[v] = seen[v] /\ answer'[v] = answer[v]
    BY <1>1, <2>3, <2>4, Forgets
  <2> QED BY <1>2, <2>1, <2>5, <2>6, QuietStep
<1> QED BY <1>3, <1>4

(* What the user and the clock do to a row.                                   *)
LEMMA RowStep ==
    ASSUME ReviewInv, NEW j \in Jobs, Retry(j) \/ Expire(j)
    PROVE  ReviewInv'
<1>1. TypeOK /\ row[j] \in Row /\ RowOK(j)
  BY DEF ReviewInv, TypeOK
<1>2. /\ made' = made /\ pc' = pc /\ at' = at /\ mine' = mine /\ seen' = seen
      /\ answer' = answer /\ why' = why /\ wake' = wake /\ timers' = timers
  BY DEF Retry, Expire
<1>3. /\ row' \in [Jobs -> Row] /\ \A k \in Jobs : RowMoves(k)
      /\ \A k \in Jobs : RowOK(k)'
  <2>1. CASE Retry(j)
    <3>1. Saved(j, ResetRow(row[j]))
      BY <2>1 DEF Retry, ResetRow
    <3>2. /\ ResetRow(row[j]) \in Row
          /\ ResetRow(row[j]).version = row[j].version
          /\ ResetRow(row[j]).status = "pending"
          /\ ResetRow(row[j]).lease = NoLease
          /\ ResetRow(row[j]).attempts = 0 /\ ~ResetRow(row[j]).live
      BY <1>1, RetryWrites
    <3>3. NoLease <= row[j].version + 1
      BY <1>1 DEF Row, NoLease
    <3>4. row' \in [Jobs -> Row] /\ \A k \in Jobs : RowMoves(k)
      BY <1>1, <3>1, <3>2, Saving
    <3>5. \A k \in Jobs : RowOK(k)'
      BY <1>1, <3>1, <3>2, <3>3, SavedOK DEF ReviewInv
    <3> QED BY <3>4, <3>5
  <2>2. CASE Expire(j)
    <3>1. /\ \A k \in Jobs \ {j} : row'[k] = row[k]
          /\ row'[j] = [row[j] EXCEPT !.live = FALSE]
      BY <1>1, <2>2 DEF Expire, TypeOK
    <3>2. [row[j] EXCEPT !.live = FALSE] \in Row
      BY <1>1 DEF Row
    <3>3. row' \in [Jobs -> Row]
      BY <1>1, <2>2, <3>2 DEF Expire, TypeOK
    <3>4. /\ row'[j].status = row[j].status /\ row'[j].lease = row[j].lease
          /\ row'[j].attempts = row[j].attempts /\ ~row'[j].live
          /\ row'[j].version = row[j].version
      BY <1>1, <3>1 DEF Row
    <3>5. \A k \in Jobs : RowMoves(k)
      BY <3>1 DEF RowMoves
    <3>6. \A k \in Jobs : RowOK(k)'
      <4>1. RowOK(j)'
        BY <1>1, <3>4 DEF RowOK
      <4>2. ASSUME NEW k \in Jobs, k # j PROVE RowOK(k)'
        <5>1. row'[k] = row[k] /\ RowOK(k)
          BY <4>2, <3>1 DEF ReviewInv
        <5> QED BY <5>1 DEF RowOK
      <4> QED BY <4>1, <4>2
    <3> QED BY <3>3, <3>5, <3>6
  <2> QED BY <2>1, <2>2
<1>4. TypeOK'
  <2>1. retries' \in [Jobs -> 0..MaxRetries]
    BY <1>1, RetriesAssumption DEF Retry, Expire, TypeOK
  <2> QED BY <1>1, <1>2, <1>3, <2>1 DEF TypeOK
<1>5. \A w \in Workers : Knows(w)'
  BY <1>2, <1>3, OthersKnow DEF ReviewInv
<1>6. OneOwner'
  BY <1>2 DEF ReviewInv, OneOwner
<1> QED BY <1>3, <1>4, <1>5, <1>6 DEF ReviewInv

(* Every step keeps the invariant.                                            *)
LEMMA ReviewStep == ReviewInv /\ [Next]_vars => ReviewInv'
<1> SUFFICES ASSUME ReviewInv, [Next]_vars PROVE ReviewInv'
  OBVIOUS
<1>1. ASSUME NEW w \in Workers, Drain(w) PROVE ReviewInv'
  BY <1>1, IdleStep, OwningStep, ClaimStep, ExhaustStep, NameStep, CompleteStep,
     ReadFailureStep, RecordFailureStep DEF Drain
<1>2. ASSUME NEW w \in Workers, Start(w) \/ Wake(w) \/ Awake(w) \/ TimerFires(w)
                                \/ RunPending(w) \/ RunJob(w)
      PROVE  ReviewInv'
  BY <1>2, IdleStep
<1>3. ASSUME NEW w \in Workers, Cancel(w) \/ Crash(w) PROVE ReviewInv'
  BY <1>3, StopStep
<1>4. ASSUME NEW j \in Jobs, Retry(j) \/ Expire(j) PROVE ReviewInv'
  BY <1>4, RowStep
<1>5. CASE UNCHANGED vars
  BY <1>5 DEF vars, ReviewInv, TypeOK, RowOK, Knows, OneOwner, Unchanged, Claimable
<1> QED BY <1>1, <1>2, <1>3, <1>4, <1>5 DEF Next

(* Every job starts pending, and no process has claimed one.                  *)
LEMMA ReviewStart == Init => ReviewInv
<1> SUFFICES ASSUME Init PROVE ReviewInv
  OBVIOUS
<1>1. TypeOK
  <2>1. [status |-> "pending", lease |-> NoLease, live |-> FALSE, attempts |-> 0,
         retryable |-> FALSE, version |-> 1] \in Row
    BY AttemptsAssumption DEF Row, NoLease
  <2> QED BY <2>1, RetriesAssumption DEF Init, TypeOK, NoLease
<1>2. \A j \in Jobs : RowOK(j)
  BY DEF Init, RowOK, NoLease
<1>3. \A w \in Workers : Knows(w)
  BY JobsAssumption DEF Init, Knows, Owning, NoLease, NoJob
<1>4. OneOwner
  BY DEF Init, OneOwner
<1> QED BY <1>1, <1>2, <1>3, <1>4 DEF ReviewInv

LEMMA ReviewAlways == Spec => []ReviewInv
  BY ReviewStart, ReviewStep, PTL DEF Spec

(* The rows, the claims and the places of the processes are always of their   *)
(* types: in particular no job is attempted more than the limit allows.       *)
THEOREM ReviewTypes == Spec => []TypeOK
<1>1. ReviewInv => TypeOK
  BY DEF ReviewInv
<1> QED BY <1>1, ReviewAlways, PTL

(* A row has a lease exactly while it is running.                             *)
THEOREM LeasesFollowStatus == Spec => []LeaseState
<1>1. ReviewInv => LeaseState
  BY DEF ReviewInv, RowOK, LeaseState
<1> QED BY <1>1, ReviewAlways, PTL

(* No two processes ever hold the same claim of a job.                        *)
THEOREM ClaimsAreExclusive == Spec => []OneOwner
<1>1. ReviewInv => OneOwner
  BY DEF ReviewInv
<1> QED BY <1>1, ReviewAlways, PTL

(* The row of a job at a step: who writes it, and how.  A process that writes *)
(* it chose it as claimable and finds it so, or owns it; or a user retries it,*)
(* or its lease ends.                                                         *)
LEMMA WhoWrites ==
    ASSUME ReviewInv, Next, NEW j \in Jobs, row'[j] # row[j]
    PROVE  \/ \E w \in Workers : at[w] = j /\ pc[w] = "chosen" /\ Claimable(j)
           \/ \E w \in Workers : /\ at[w] = j /\ mine[w] = row[j].lease
                                 /\ pc'[w] # pc[w] /\ row[j].status = "running"
           \/ Retry(j) \/ Expire(j)
<1>1. TypeOK /\ \A w \in Workers : Knows(w)
  BY DEF ReviewInv
<1>2. ASSUME NEW w \in Workers, ExhaustExpired(w) \/ Claim(w)
      PROVE  at[w] = j /\ pc[w] = "chosen" /\ Claimable(j)
  <2>1. pc[w] = "chosen" /\ Unchanged(w) /\ at[w] \in Jobs
    BY <1>1, <1>2 DEF ExhaustExpired, Claim, Knows
  <2>2. at[w] = j
    BY <1>1, <1>2, <2>1 DEF ExhaustExpired, Claim, Saved, TypeOK
  <2> QED BY <1>1, <2>1, <2>2 DEF Knows
<1>3. ASSUME NEW w \in Workers, NameReviewer(w) \/ Complete(w) \/ RecordFailure(w)
      PROVE  /\ at[w] = j /\ mine[w] = row[j].lease
             /\ pc'[w] # pc[w] /\ row[j].status = "running"
  <2>1. Unchanged(w)
    BY <1>3 DEF NameReviewer, Complete, RecordFailure
  <2>2. pc[w] \in {"naming", "closing", "recording"} /\ at[w] \in Jobs
    BY <1>1, <1>3 DEF NameReviewer, Complete, RecordFailure, Knows, Owning
  <2>3. at[w] = j
    BY <1>1, <1>3, <2>2 DEF NameReviewer, Complete, RecordFailure, Saved, TypeOK
  <2>4. PICK place \in {"off", "wait", "list", "asking"} : Goto(w, place)
    BY <1>3, <2>1 DEF NameReviewer, Complete, RecordFailure, FailedDrain,
                      Deferred, After
  <2>5. pc'[w] # pc[w]
    BY <1>1, <2>2, <2>4 DEF Goto, TypeOK
  <2> QED BY <1>1, <2>1, <2>2, <2>3, <2>5 DEF Knows
<1>4. ASSUME NEW w \in Workers,
             \/ Start(w) \/ Wake(w) \/ Awake(w) \/ TimerFires(w) \/ RunPending(w)
             \/ RunJob(w) \/ Choose(w) \/ Busy(w) \/ ReadOwn(w) \/ Ask(w)
             \/ Persist(w) \/ ReadFailure(w) \/ Cancel(w) \/ Crash(w)
      PROVE  FALSE
  BY <1>4 DEF Start, Wake, Awake, TimerFires, RunPending, RunJob, Choose, Busy,
              ReadOwn, Ask, Persist, ReadFailure, Cancel, Crash
<1>5. ASSUME NEW k \in Jobs, Retry(k) \/ Expire(k) PROVE Retry(j) \/ Expire(j)
  <2>1. k = j
    BY <1>1, <1>5 DEF Retry, Expire, Saved, TypeOK
  <2> QED BY <1>5, <2>1
<1> QED BY <1>2, <1>3, <1>4, <1>5 DEF Next, Drain

(* While a lease lives, only the process that holds it changes its row.       *)
THEOREM OwnersMove == Spec => OnlyTheOwnerMoves
<1>1. ASSUME ReviewInv, Next, NEW j \in Jobs, row[j].live,
             row'[j].version # row[j].version
      PROVE  \E w \in Workers : at[w] = j /\ mine[w] = row[j].lease /\ pc'[w] # pc[w]
  <2>1. row[j] \in Row /\ row[j].status = "running" /\ row'[j] # row[j]
    BY <1>1 DEF ReviewInv, TypeOK, RowOK
  <2>2. ~Claimable(j) /\ ~Retry(j)
    BY <1>1, <2>1 DEF Claimable, Retry
  <2>3. ~Expire(j)
    BY <1>1, <2>1 DEF Expire, ReviewInv, TypeOK, Row
  <2> QED BY <1>1, <2>1, <2>2, <2>3, WhoWrites
<1>2. ReviewInv /\ [Next]_vars =>
        [\A j \in Jobs :
           row[j].live /\ row'[j].version # row[j].version =>
             \E w \in Workers : /\ at[w] = j /\ mine[w] = row[j].lease
                                /\ pc'[w] # pc[w]]_vars
  BY <1>1
<1> QED BY <1>2, ReviewAlways, PTL DEF Spec, OnlyTheOwnerMoves

(* A closed job changes only when a user retries a retryable failure.         *)
THEOREM ClosedJobsStay == Spec => ClosedStays
<1>1. ASSUME ReviewInv, Next, NEW j \in Jobs, row[j].status \in Terminal,
             row'[j] # row[j]
      PROVE  /\ row[j].status # "completed" /\ row[j].retryable
             /\ row'[j].status = "pending" /\ row'[j].attempts = 0
  <2>1. row[j] \in Row /\ row[j].status \notin {"pending", "running"} /\ ~row[j].live
    BY <1>1 DEF ReviewInv, TypeOK, RowOK, Terminal
  <2>2. ~Claimable(j) /\ ~Expire(j)
    BY <2>1 DEF Claimable, Expire
  <2>3. Retry(j)
    BY <1>1, <2>1, <2>2, WhoWrites
  <2>4. Saved(j, ResetRow(row[j]))
    BY <2>3 DEF Retry, ResetRow
  <2>5. /\ ResetRow(row[j]) \in Row
        /\ ResetRow(row[j]).version = row[j].version
        /\ ResetRow(row[j]).status = "pending" /\ ResetRow(row[j]).attempts = 0
    BY <2>1, RetryWrites
  <2>6. row'[j] = [ResetRow(row[j]) EXCEPT !.version = @ + 1]
    BY <1>1, <2>4, <2>5, Saving DEF ReviewInv
  <2>7. row'[j].status = "pending" /\ row'[j].attempts = 0
    BY <2>5, <2>6 DEF Row
  <2> QED BY <2>3, <2>7 DEF Retry
<1>2. ReviewInv /\ [Next]_vars =>
        [\A j \in Jobs :
           row[j].status \in Terminal /\ row'[j] # row[j] =>
             /\ row[j].status # "completed" /\ row[j].retryable
             /\ row'[j].status = "pending" /\ row'[j].attempts = 0]_vars
  BY <1>1
<1> QED BY <1>2, ReviewAlways, PTL DEF Spec, ClosedStays

(* A row is completed by the process that closes it, under its own claim.     *)
LEMMA WhoCompletes ==
    ASSUME ReviewInv, Next, NEW j \in Jobs,
           row'[j].status = "completed", row[j].status # "completed"
    PROVE  \E w \in Workers : /\ at[w] = j /\ mine[w] = row[j].lease
                              /\ pc[w] = "closing" /\ answer[w] \subseteq made[j]
<1>1. TypeOK /\ (\A w \in Workers : Knows(w)) /\ row[j] \in Row
  BY DEF ReviewInv, TypeOK
<1>2. ASSUME NEW k \in Jobs, NEW new \in Row, new.version = row[k].version,
             Saved(k, new)
      PROVE  k = j /\ new.status = "completed"
  <2>1. /\ \A x \in Jobs \ {k} : row'[x] = row[x]
        /\ row'[k] = [new EXCEPT !.version = @ + 1]
    BY <1>1, <1>2, Saving
  <2>2. row'[k].status = new.status
    BY <2>1 DEF Row
  <2> QED BY <2>1, <2>2
<1>3. ASSUME NEW w \in Workers, ExhaustExpired(w)
      PROVE  FALSE
  <2>1. at[w] \in Jobs /\ row[at[w]] \in Row
    BY <1>1, <1>3 DEF ExhaustExpired, Knows, TypeOK
  <2> DEFINE new == Closed(row[at[w]], "exhausted", TRUE)
  <2>2. /\ new \in Row /\ new.version = row[at[w]].version
        /\ new.status = "exhausted" /\ Saved(at[w], new)
    BY <1>3, <2>1, ClosedRow DEF Terminal, ExhaustExpired
  <2> HIDE DEF new
  <2> QED BY <1>2, <2>1, <2>2
<1>4. ASSUME NEW w \in Workers, Claim(w)
      PROVE  FALSE
  <2>1. at[w] \in Jobs /\ row[at[w]] \in Row /\ row[at[w]].attempts < MaxAttempts
    BY <1>1, <1>4 DEF Claim, Knows, TypeOK
  <2>2. Saved(at[w], ClaimedRow(row[at[w]]))
    BY <1>4 DEF Claim, ClaimedRow
  <2>3. /\ ClaimedRow(row[at[w]]) \in Row
        /\ ClaimedRow(row[at[w]]).version = row[at[w]].version
        /\ ClaimedRow(row[at[w]]).status = "running"
    BY <2>1, ClaimWrites
  <2> QED BY <1>2, <2>1, <2>2, <2>3
<1>5. ASSUME NEW w \in Workers, NameReviewer(w) \/ RecordFailure(w)
      PROVE  FALSE
  <2>1. /\ at[w] \in Jobs /\ row[at[w]] \in Row /\ Unchanged(w)
        /\ row[at[w]].status = "running"
    BY <1>1, <1>5
      DEF NameReviewer, RecordFailure, Knows, Owning, TypeOK
  <2>2. CASE NameReviewer(w)
    <3>1. Saved(at[w], row[at[w]])
      BY <2>1, <2>2 DEF NameReviewer
    <3> QED BY <1>2, <2>1, <3>1
  <2>3. CASE RecordFailure(w)
    <3>1. Saved(at[w], FailureRow(w))
      BY <2>1, <2>3 DEF RecordFailure
    <3>2. \/ \E s \in {"failed", "exhausted"}, b \in BOOLEAN :
               FailureRow(w) = Closed(row[at[w]], s, b)
          \/ FailureRow(w) = [row[at[w]] EXCEPT !.live = TRUE]
      BY DEF FailureRow
    <3>3. ASSUME NEW s \in {"failed", "exhausted"}, NEW b \in BOOLEAN,
                 FailureRow(w) = Closed(row[at[w]], s, b)
          PROVE  FALSE
      <4> DEFINE new == Closed(row[at[w]], s, b)
      <4>1. /\ new \in Row /\ new.version = row[at[w]].version /\ new.status = s
            /\ Saved(at[w], new)
        BY <2>1, <3>1, <3>3, ClosedRow DEF Terminal
      <4> HIDE DEF new
      <4> QED BY <1>2, <2>1, <4>1
    <3>4. ASSUME FailureRow(w) = [row[at[w]] EXCEPT !.live = TRUE]
          PROVE  FALSE
      <4> DEFINE new == [row[at[w]] EXCEPT !.live = TRUE]
      <4>1. /\ new \in Row /\ new.version = row[at[w]].version
            /\ new.status = "running" /\ Saved(at[w], new)
        BY <2>1, <3>1, <3>4 DEF Row
      <4> HIDE DEF new
      <4> QED BY <1>2, <2>1, <4>1
    <3> QED BY <3>2, <3>3, <3>4
  <2> QED BY <1>5, <2>2, <2>3
<1>6. ASSUME NEW w \in Workers, Complete(w)
      PROVE  /\ at[w] = j /\ mine[w] = row[j].lease
             /\ pc[w] = "closing" /\ answer[w] \subseteq made[j]
  <2>1. /\ at[w] \in Jobs /\ row[at[w]] \in Row /\ Unchanged(w) /\ pc[w] = "closing"
        /\ row[at[w]].lease = mine[w] /\ answer[w] \subseteq made[at[w]]
    BY <1>1, <1>6 DEF Complete, Knows, Owning, TypeOK
  <2>2. Saved(at[w], Closed(row[at[w]], "completed", FALSE))
    BY <1>6, <2>1 DEF Complete
  <2>3. at[w] = j
    BY <1>1, <2>1, <2>2 DEF Saved, TypeOK
  <2> QED BY <2>1, <2>3
<1>7. ASSUME NEW w \in Workers,
             \/ Start(w) \/ Wake(w) \/ Awake(w) \/ TimerFires(w) \/ RunPending(w)
             \/ RunJob(w) \/ Choose(w) \/ Busy(w) \/ ReadOwn(w) \/ Ask(w)
             \/ Persist(w) \/ ReadFailure(w) \/ Cancel(w) \/ Crash(w)
      PROVE  FALSE
  BY <1>7 DEF Start, Wake, Awake, TimerFires, RunPending, RunJob, Choose, Busy,
              ReadOwn, Ask, Persist, ReadFailure, Cancel, Crash
<1>8. ASSUME NEW k \in Jobs, Retry(k)
      PROVE  FALSE
  <2>1. row[k] \in Row /\ Saved(k, ResetRow(row[k]))
    BY <1>1, <1>8 DEF Retry, ResetRow, TypeOK
  <2>2. /\ ResetRow(row[k]) \in Row /\ ResetRow(row[k]).version = row[k].version
        /\ ResetRow(row[k]).status = "pending"
    BY <2>1, RetryWrites
  <2> QED BY <1>2, <2>1, <2>2
<1>9. ASSUME NEW k \in Jobs, Expire(k)
      PROVE  FALSE
  <2>1. row'[j].status = row[j].status
    BY <1>1, <1>9 DEF Expire, TypeOK, Row
  <2> QED BY <2>1
<1> QED BY <1>3, <1>4, <1>5, <1>6, <1>7, <1>8, <1>9 DEF Next, Drain

(* A job completes by the process that holds its claim, and only once the     *)
(* proposals of that very process are stored.                                 *)
THEOREM CompletesStored == Spec => CompletesWithProposals
<1>1. ReviewInv /\ [Next]_vars =>
        [\A j \in Jobs :
           row'[j].status = "completed" /\ row[j].status # "completed" =>
             \E w \in Workers : /\ at[w] = j /\ mine[w] = row[j].lease
                                /\ pc[w] = "closing" /\ answer[w] \subseteq made[j]]_vars
  BY WhoCompletes
<1> QED BY <1>1, ReviewAlways, PTL DEF Spec, CompletesWithProposals

--------------------------------------------------------------------------------
(* The promise of module ReviewJob                                            *)

(* A process has an answer only from its reviewer's call on, until it forgets *)
(* the job.                                                                   *)
Answering == {"answered", "stored", "closing", "failing", "recording"}

NothingYet == \A w \in Workers : pc[w] \notin Answering => answer[w] = {}

(* The processes that stand still in a step of w.                             *)
Standing(w) ==
    \A v \in Workers \ {w} :
        /\ pc'[v] = pc[v] /\ at'[v] = at[v] /\ mine'[v] = mine[v]
        /\ answer'[v] = answer[v]

(* A process that forgets its job has neither claim nor answer.               *)
LEMMA Forgotten ==
    ASSUME TypeOK, NEW w \in Workers, Forget(w),
           NEW place \in {"off", "wait", "list"}, Goto(w, place)
    PROVE  /\ mine'[w] = NoLease /\ answer'[w] = {} /\ pc'[w] = place
           /\ Standing(w)
  BY DEF TypeOK, Forget, Goto, Standing

(* Where a drain ends the process forgets its job.                            *)
LEMMA DrainForgets ==
    ASSUME ReviewInv, NEW w \in Workers,
           \/ ExhaustExpired(w) \/ Busy(w) \/ Crash(w)
           \/ ReadFailure(w) /\ ~HoldsLease(w)
           \/ RecordFailure(w)
           \/ Complete(w) /\ Unchanged(w)
    PROVE  /\ mine'[w] = NoLease /\ answer'[w] = {} /\ Standing(w)
<1>1. TypeOK /\ Forget(w)
  BY DEF ReviewInv, ExhaustExpired, Busy, Crash, ReadFailure, RecordFailure,
         Complete, FailedDrain, Deferred
<1>2. \E place \in {"off", "wait", "list"} : Goto(w, place)
  BY DEF ExhaustExpired, Busy, Crash, ReadFailure, RecordFailure, Complete,
         FailedDrain, Deferred, After, Rest
<1> QED BY <1>1, <1>2, Forgotten

(* The steps that keep claim and answer of every process.                     *)
Keeping(w) ==
    \/ Start(w) \/ Wake(w) \/ Awake(w) \/ TimerFires(w) \/ RunPending(w)
    \/ ReadOwn(w) \/ NameReviewer(w) \/ Persist(w) \/ Cancel(w)
    \/ Ask(w) /\ UNCHANGED answer
    \/ Complete(w) /\ ~Unchanged(w)
    \/ ReadFailure(w) /\ HoldsLease(w)

LEMMA KeepingKeeps ==
    ASSUME ReviewInv, NEW w \in Workers, Keeping(w)
    PROVE  /\ UNCHANGED <<at, mine, answer>> /\ Standing(w)
           /\ pc'[w] \notin Answering => pc[w] \notin Answering
<1>1. TypeOK
  BY DEF ReviewInv
<1>2. UNCHANGED <<at, mine, answer>>
  BY DEF Keeping, Start, Wake, Awake, TimerFires, RunPending, ReadOwn, NameReviewer,
         Persist, Cancel, Ask, Complete, ReadFailure
<1>3. \E place : pc' = [pc EXCEPT ![w] = place]
  <2>1. CASE Wake(w) \/ TimerFires(w)
    <3>1. pc' = pc /\ pc = [pc EXCEPT ![w] = pc[w]]
      BY <1>1, <2>1 DEF Wake, TimerFires, TypeOK
    <3> QED BY <3>1
  <2>2. CASE \/ Start(w) \/ Awake(w) \/ RunPending(w) \/ Persist(w) \/ ReadOwn(w)
             \/ NameReviewer(w)
    BY <2>2 DEF Start, Awake, RunPending, Persist, ReadOwn, NameReviewer, Fails, Goto
  <2>3. CASE Cancel(w)
    BY <2>3 DEF Cancel, Fails, Goto
  <2>4. CASE Ask(w)
    BY <2>4 DEF Ask, Fails, Goto
  <2>5. CASE Complete(w) /\ ~Unchanged(w)
    <3>1. Goto(w, "failing")
      BY <2>5 DEF Complete, Fails
    <3> QED BY <3>1 DEF Goto
  <2>6. CASE ReadFailure(w) /\ HoldsLease(w)
    <3>1. Goto(w, "recording")
      BY <2>6 DEF ReadFailure
    <3> QED BY <3>1 DEF Goto
  <2> QED BY <2>1, <2>2, <2>3, <2>4, <2>5, <2>6 DEF Keeping
<1>4. \A v \in Workers \ {w} : pc'[v] = pc[v]
  BY <1>1, <1>3 DEF TypeOK
<1>5. pc'[w] \notin Answering => pc[w] \notin Answering
  <2>1. CASE Wake(w) \/ TimerFires(w) \/ ReadOwn(w) \/ NameReviewer(w)
    BY <1>1, <2>1 DEF Wake, TimerFires, ReadOwn, NameReviewer, Fails, Goto, TypeOK,
                      Answering
  <2>2. CASE Start(w) \/ Awake(w) \/ RunPending(w) \/ Persist(w) \/ Cancel(w) \/ Ask(w)
    BY <1>1, <2>2 DEF Start, Awake, RunPending, Persist, Cancel, Ask, Fails, Goto,
                      TypeOK, Answering
  <2>3. CASE Complete(w) /\ ~Unchanged(w)
    <3>1. Goto(w, "failing")
      BY <2>3 DEF Complete, Fails
    <3> QED BY <1>1, <3>1 DEF Goto, TypeOK, Answering
  <2>4. CASE ReadFailure(w) /\ HoldsLease(w)
    <3>1. Goto(w, "recording")
      BY <2>4 DEF ReadFailure
    <3> QED BY <1>1, <3>1 DEF Goto, TypeOK, Answering
  <2> QED BY <2>1, <2>2, <2>3, <2>4 DEF Keeping
<1> QED BY <1>2, <1>4, <1>5 DEF Standing

(* The steps in which a process without a claim looks for a job.              *)
LEMMA Looking ==
    ASSUME ReviewInv, NEW w \in Workers, RunJob(w) \/ Choose(w)
    PROVE  /\ mine[w] = NoLease /\ mine' = mine /\ answer' = answer /\ Standing(w)
           /\ pc[w] \notin Answering
<1>1. TypeOK /\ Knows(w) /\ pc[w] \in {"off", "list"}
  BY DEF ReviewInv, RunJob, Choose
<1>2. mine[w] = NoLease /\ mine' = mine /\ answer' = answer /\ pc[w] \notin Answering
  BY <1>1 DEF Knows, Owning, RunJob, Choose, Answering
<1>3. Standing(w)
  BY <1>1 DEF RunJob, Choose, Goto, Standing, TypeOK
<1> QED BY <1>2, <1>3

LEMMA Claiming ==
    ASSUME ReviewInv, NEW w \in Workers, Claim(w)
    PROVE  /\ at' = at /\ answer' = answer /\ Standing(w) /\ pc[w] \notin Answering
           /\ mine'[w] = row[at[w]].version + 1 /\ mine[w] = NoLease
<1>1. TypeOK /\ Knows(w)
  BY DEF ReviewInv
<1> QED BY <1>1 DEF Claim, Goto, Standing, TypeOK, Answering, Knows, Owning

LEMMA Answers ==
    ASSUME ReviewInv, NEW w \in Workers, Ask(w), answer' # answer
    PROVE  /\ UNCHANGED <<row, made, at, mine>> /\ Standing(w)
           /\ pc[w] \notin Answering /\ pc'[w] \in Answering
           /\ answer'[w] \in SUBSET Ops
<1>1. TypeOK
  BY DEF ReviewInv
<1>2. PICK out \in SUBSET Ops : answer' = [answer EXCEPT ![w] = out]
  BY DEF Ask
<1>3. pc' = [pc EXCEPT ![w] = "answered"] /\ pc[w] = "asking"
  BY DEF Ask, Goto
<1> QED BY <1>1, <1>2, <1>3 DEF Ask, Standing, TypeOK, Answering

(* Every step of a process is one of these.                                   *)
LEMMA StepsOf ==
    ASSUME NEW w \in Workers,
           \/ Drain(w) \/ Start(w) \/ Wake(w) \/ Awake(w) \/ TimerFires(w)
           \/ RunPending(w) \/ RunJob(w) \/ Cancel(w) \/ Crash(w)
    PROVE  \/ Keeping(w) \/ RunJob(w) \/ Choose(w) \/ Claim(w)
           \/ Ask(w) /\ answer' # answer
           \/ ExhaustExpired(w) \/ Busy(w) \/ Crash(w) \/ RecordFailure(w)
           \/ ReadFailure(w) /\ ~HoldsLease(w)
           \/ Complete(w) /\ Unchanged(w)
  BY DEF Drain, Keeping

LEMMA NothingYetStep == ReviewInv /\ NothingYet /\ [Next]_vars => NothingYet'
<1> SUFFICES ASSUME ReviewInv, NothingYet, [Next]_vars PROVE NothingYet'
  OBVIOUS
<1>1. ASSUME NEW w \in Workers, Standing(w),
             pc'[w] \notin Answering => answer'[w] = {}
      PROVE  NothingYet'
  BY <1>1 DEF NothingYet, Standing
<1>2. ASSUME NEW w \in Workers,
             \/ Drain(w) \/ Start(w) \/ Wake(w) \/ Awake(w) \/ TimerFires(w)
             \/ RunPending(w) \/ RunJob(w) \/ Cancel(w) \/ Crash(w)
      PROVE  NothingYet'
  <2>1. CASE Keeping(w)
    BY <1>1, <2>1, KeepingKeeps DEF NothingYet
  <2>2. CASE RunJob(w) \/ Choose(w)
    BY <1>1, <2>2, Looking DEF NothingYet
  <2>3. CASE Claim(w)
    BY <1>1, <2>3, Claiming DEF NothingYet
  <2>4. CASE Ask(w) /\ answer' # answer
    BY <1>1, <2>4, Answers
  <2>5. CASE \/ ExhaustExpired(w) \/ Busy(w) \/ Crash(w) \/ RecordFailure(w)
             \/ ReadFailure(w) /\ ~HoldsLease(w)
             \/ Complete(w) /\ Unchanged(w)
    BY <1>1, <2>5, DrainForgets
  <2> QED BY <1>2, <2>1, <2>2, <2>3, <2>4, <2>5, StepsOf
<1>3. ASSUME NEW j \in Jobs, Retry(j) \/ Expire(j) PROVE NothingYet'
  BY <1>3 DEF Retry, Expire, NothingYet
<1>4. CASE UNCHANGED vars
  BY <1>4 DEF vars, NothingYet
<1> QED BY <1>2, <1>3, <1>4 DEF Next

(* Owner and proposals of a job, as module ReviewJob sees them.               *)
Proposed(j) == UNION {answer[w] : w \in Owners(j)}

LEMMA Sole ==
    ASSUME OneOwner, NEW j \in Jobs, NEW w \in Owners(j)
    PROVE  Owners(j) = {w} /\ Proposed(j) = answer[w]
<1>1. Owners(j) = {w}
  BY DEF OneOwner, Owners
<1> QED BY <1>1 DEF Proposed

(* A row without a lease has no owner.                                        *)
LEMMA NoOwner ==
    ASSUME NEW j \in Jobs
    PROVE  /\ row[j].lease = NoLease => Owners(j) = {} /\ Proposed(j) = {}
           /\ row'[j].lease = NoLease => Owners(j)' = {} /\ Proposed(j)' = {}
  BY DEF Owners, Proposed

(* What module ReviewJob sees of the row of a job.                            *)
SameRow(j) ==
    /\ row'[j].status = row[j].status /\ row'[j].live = row[j].live
    /\ row'[j].attempts = row[j].attempts /\ row'[j].retryable = row[j].retryable
    /\ row'[j].lease = row[j].lease

(* While a lease stays, the owners but w stay.                                *)
LEMMA OwnersStay ==
    ASSUME NEW j \in Jobs, NEW w \in Workers, Standing(w),
           row'[j].lease = row[j].lease,
           w \in Owners(j)' <=> w \in Owners(j),
           w \in Owners(j) => answer'[w] = answer[w]
    PROVE  Owners(j)' = Owners(j) /\ Proposed(j)' = Proposed(j)
<1>1. \A v \in Workers : v \in Owners(j)' <=> v \in Owners(j)
  BY DEF Standing, Owners
<1>2. Owners(j) \subseteq Workers /\ Owners(j)' \subseteq Workers
  BY DEF Owners
<1>3. Owners(j)' = Owners(j)
  BY <1>1, <1>2
<1>4. \A v \in Owners(j) : answer'[v] = answer[v]
  BY <1>2 DEF Standing
<1>5. {answer'[v] : v \in Owners(j)'} = {answer[v] : v \in Owners(j)}
  BY <1>3, <1>4
<1> QED BY <1>3, <1>5 DEF Proposed

(* A step that changes nothing module ReviewJob sees.                         *)
LEMMA Silent ==
    ASSUME NEW j \in Jobs, SameRow(j), made'[j] = made[j],
           Owners(j)' = Owners(j), Proposed(j)' = Proposed(j)
    PROVE  UNCHANGED Job(j)!vars
  BY DEF SameRow, Proposed, Job!vars

(* A process forgets its job, and does nothing else to it.                    *)
LEMMA Forgetting ==
    ASSUME OneOwner, NEW j \in Jobs, NEW w \in Workers, Standing(w), SameRow(j),
           made'[j] = made[j], mine'[w] = NoLease
    PROVE  [Job(j)!Next]_(Job(j)!vars)
<1>1. w \notin Owners(j)'
  BY DEF Owners
<1>2. CASE w \in Owners(j)
  <2>1. Owners(j) = {w}
    BY <1>2, Sole
  <2>2. Owners(j)' = {}
    BY <1>1, <2>1 DEF SameRow, Standing, Owners
  <2>3. Job(j)!Lose
    BY <2>1, <2>2 DEF SameRow, Job!Lose, Job!Released
  <2> QED BY <2>3 DEF Job!Next
<1>3. CASE w \notin Owners(j)
  <2>1. Owners(j)' = Owners(j) /\ Proposed(j)' = Proposed(j)
    BY <1>1, <1>3, OwnersStay DEF SameRow
  <2> QED BY <2>1, Silent
<1> QED BY <1>2, <1>3

(* A claim is named by a version no process has seen: its process owns the job *)
(* alone, and whoever had claimed it before has lost it.                      *)
LEMMA ClaimKeepsPromise ==
    ASSUME ReviewInv, NothingYet, NEW j \in Jobs, NEW w \in Workers, Claim(w)
    PROVE  [Job(j)!Next]_(Job(j)!vars)
<1>1. /\ TypeOK /\ Knows(w) /\ OneOwner /\ \A v \in Workers : Knows(v)
      /\ at[w] \in Jobs /\ row[at[w]] \in Row /\ row[at[w]].attempts < MaxAttempts
      /\ made' = made
  BY DEF ReviewInv, Claim, Knows, TypeOK
<1>2. /\ at' = at /\ answer' = answer /\ Standing(w) /\ answer[w] = {}
      /\ mine'[w] = row[at[w]].version + 1 /\ mine[w] = NoLease
  BY Claiming DEF NothingYet
<1>3. Saved(at[w], ClaimedRow(row[at[w]]))
  BY DEF Claim, ClaimedRow
<1>4. /\ \A k \in Jobs \ {at[w]} : row'[k] = row[k]
      /\ row'[at[w]] = [ClaimedRow(row[at[w]]) EXCEPT !.version = @ + 1]
  BY <1>1, <1>3, ClaimWrites, Saving
<1>5. CASE j = at[w]
  <2>1. /\ row'[j].status = "running" /\ row'[j].live = TRUE
        /\ row'[j].attempts = row[j].attempts + 1 /\ row'[j].retryable = FALSE
        /\ row'[j].lease = row[j].version + 1
    BY <1>1, <1>4, <1>5 DEF ClaimedRow, Row
  <2>2. w \in Owners(j)'
    BY <1>1, <1>2, <1>5, <2>1 DEF Owners, NoLease, Row
  <2>3. ASSUME NEW v \in Workers, v # w PROVE v \notin Owners(j)'
    <3> SUFFICES ASSUME at[v] = j, mine[v] # NoLease, mine[v] = row[j].version + 1
                 PROVE  FALSE
      BY <1>2, <2>1, <2>3 DEF Owners, Standing
    <3>1. mine[v] <= row[j].version
      BY <1>1 DEF Knows
    <3> QED BY <1>1, <1>5, <3>1 DEF Row
  <2>4. Owners(j)' = {w}
    BY <2>2, <2>3 DEF Owners
  <2>5. (UNION {answer[v] : v \in Owners(j)})' = {}
    BY <1>2, <2>4
  <2>6. Job(j)!Claimable
    BY <1>5 DEF Claim, Claimable, Job!Claimable
  <2>7. Job(j)!Claim
    BY <1>1, <1>5, <2>1, <2>4, <2>5, <2>6 DEF Job!Claim
  <2> QED BY <2>7 DEF Job!Next
<1>6. CASE j # at[w]
  <2>1. row'[j] = row[j] /\ w \notin Owners(j) /\ w \notin Owners(j)'
    BY <1>2, <1>4, <1>6 DEF Owners
  <2>2. Owners(j)' = Owners(j) /\ Proposed(j)' = Proposed(j)
    BY <1>2, <2>1, OwnersStay
  <2> QED BY <1>1, <2>1, <2>2, Silent DEF SameRow
<1> QED BY <1>5, <1>6

(* A process in its reviewer's call proposes once, and only for its claim.    *)
LEMMA AskKeepsPromise ==
    ASSUME ReviewInv, NothingYet, NEW j \in Jobs, NEW w \in Workers,
           Ask(w), answer' # answer
    PROVE  [Job(j)!Next]_(Job(j)!vars)
<1>1. /\ UNCHANGED <<row, made, at, mine>> /\ Standing(w) /\ answer[w] = {}
      /\ answer'[w] \in SUBSET Ops
  BY Answers DEF NothingYet
<1>2. OneOwner /\ Owners(j)' = Owners(j)
  BY <1>1 DEF ReviewInv, Owners
<1>3. CASE w \in Owners(j)
  <2>1. Owners(j) = {w}
    BY <1>2, <1>3, Sole
  <2>2. /\ UNION {answer[v] : v \in Owners(j)} = {}
        /\ (UNION {answer[v] : v \in Owners(j)})' = answer'[w]
    BY <1>1, <1>2, <2>1
  <2>3. Job(j)!Propose
    BY <1>1, <1>2, <2>1, <2>2 DEF Job!Propose
  <2> QED BY <2>3 DEF Job!Next
<1>4. CASE w \notin Owners(j)
  <2>1. Proposed(j)' = Proposed(j)
    BY <1>1, <1>2, <1>4, OwnersStay
  <2> QED BY <1>1, <1>2, <2>1, Silent DEF SameRow
<1> QED BY <1>3, <1>4

(* The steps that keep claims and answers store proposals at most.            *)
LEMMA KeepingKeepsPromise ==
    ASSUME ReviewInv, NEW j \in Jobs, NEW w \in Workers, Keeping(w)
    PROVE  [Job(j)!Next]_(Job(j)!vars)
<1>1. TypeOK /\ Knows(w)
  BY DEF ReviewInv
<1>2. UNCHANGED <<at, mine, answer>> /\ Standing(w)
  BY KeepingKeeps
<1>3. SameRow(j)
  <2>1. CASE NameReviewer(w) /\ Unchanged(w)
    <3>1. at[w] \in Jobs /\ row[at[w]] \in Row /\ Saved(at[w], row[at[w]])
      BY <1>1, <2>1 DEF NameReviewer, Knows, Owning, TypeOK
    <3>2. /\ \A k \in Jobs \ {at[w]} : row'[k] = row[k]
          /\ row'[at[w]] = [row[at[w]] EXCEPT !.version = @ + 1]
      BY <1>1, <3>1, Saving
    <3>3. CASE j = at[w]
      BY <3>1, <3>2, <3>3 DEF Row, SameRow
    <3>4. CASE j # at[w]
      BY <3>2, <3>4 DEF SameRow
    <3> QED BY <3>3, <3>4
  <2>2. CASE ~(NameReviewer(w) /\ Unchanged(w))
    <3>1. row' = row
      BY <2>2 DEF Keeping, Start, Wake, Awake, TimerFires, RunPending, ReadOwn,
                  NameReviewer, Persist, Cancel, Ask, Complete, ReadFailure
    <3> QED BY <3>1 DEF SameRow
  <2> QED BY <2>1, <2>2
<1>4. Owners(j)' = Owners(j) /\ Proposed(j)' = Proposed(j)
  BY <1>2, <1>3 DEF Owners, Proposed, SameRow
<1>5. CASE made'[j] = made[j]
  BY <1>3, <1>4, <1>5, Silent
<1>6. CASE made'[j] # made[j]
  <2>1. Persist(w)
    BY <1>6 DEF Keeping, Start, Wake, Awake, TimerFires, RunPending, ReadOwn,
                NameReviewer, Cancel, Ask, Complete, ReadFailure
  <2>2. made'[j] = made[j] \cup answer[w]
    BY <1>1, <1>6, <2>1 DEF Persist, TypeOK
  <2>3. made[j] \subseteq Ops /\ answer[w] \subseteq Ops
    BY <1>1 DEF TypeOK
  <2>4. Job(j)!Store
    BY <1>3, <1>4, <2>2, <2>3 DEF SameRow, Proposed, Job!Store
  <2> QED BY <2>4 DEF Job!Next
<1> QED BY <1>5, <1>6

(* A process that finds no job, or looks for one, owns none.                  *)
LEMMA LookingKeepsPromise ==
    ASSUME ReviewInv, NEW j \in Jobs, NEW w \in Workers, RunJob(w) \/ Choose(w)
    PROVE  [Job(j)!Next]_(Job(j)!vars)
<1>1. mine[w] = NoLease /\ mine' = mine /\ answer' = answer /\ Standing(w)
  BY Looking
<1>2. row' = row /\ made' = made
  BY DEF RunJob, Choose
<1>3. w \notin Owners(j) /\ w \notin Owners(j)'
  BY <1>1 DEF Owners
<1>4. Owners(j)' = Owners(j) /\ Proposed(j)' = Proposed(j)
  BY <1>1, <1>2, <1>3, OwnersStay
<1> QED BY <1>2, <1>4, Silent DEF SameRow

(* A step that closes a job, or leaves it for later, by the process that owns *)
(* its claim: the other jobs lose nothing.                                    *)
LEMMA EndingElsewhere ==
    ASSUME ReviewInv, NEW j \in Jobs, NEW w \in Workers, at[w] # j,
           Standing(w), mine'[w] = NoLease, row'[j] = row[j], made'[j] = made[j]
    PROVE  [Job(j)!Next]_(Job(j)!vars)
  BY Forgetting DEF ReviewInv, SameRow

LEMMA CompleteKeepsPromise ==
    ASSUME ReviewInv, NEW j \in Jobs, NEW w \in Workers,
           Complete(w), Unchanged(w)
    PROVE  [Job(j)!Next]_(Job(j)!vars)
<1>1. /\ TypeOK /\ OneOwner /\ at[w] \in Jobs /\ row[at[w]] \in Row
      /\ row[at[w]].status = "running" /\ row[at[w]].lease = mine[w]
      /\ mine[w] # NoLease /\ answer[w] \subseteq made[at[w]] /\ made' = made
  BY DEF ReviewInv, Complete, Knows, Owning, TypeOK
<1>2. mine'[w] = NoLease /\ Standing(w)
  BY DrainForgets
<1>3. /\ Saved(at[w], Closed(row[at[w]], "completed", FALSE))
      /\ Closed(row[at[w]], "completed", FALSE) \in Row
      /\ Closed(row[at[w]], "completed", FALSE).version = row[at[w]].version
  BY <1>1, ClosedRow DEF Complete, Terminal
<1>4. /\ \A k \in Jobs \ {at[w]} : row'[k] = row[k]
      /\ row'[at[w]] = [Closed(row[at[w]], "completed", FALSE) EXCEPT !.version = @ + 1]
  BY <1>1, <1>3, Saving
<1>5. CASE at[w] = j
  <2>1. /\ row'[j].status = "completed" /\ row'[j].live = FALSE
        /\ row'[j].attempts = row[j].attempts /\ row'[j].retryable = FALSE
        /\ row'[j].lease = NoLease
    BY <1>1, <1>4, <1>5 DEF Closed, Row
  <2>2. Owners(j) = {w}
    BY <1>1, <1>5, Sole DEF Owners
  <2>3. UNION {answer[v] : v \in Owners(j)} = answer[w]
    BY <2>2
  <2>4. Owners(j)' = {} /\ (UNION {answer[v] : v \in Owners(j)})' = {}
    BY <2>1, NoOwner DEF Proposed
  <2>5. Job(j)!Complete
    BY <1>1, <1>5, <2>1, <2>2, <2>3, <2>4 DEF Job!Complete, Job!Released
  <2> QED BY <2>5 DEF Job!Next
<1>6. CASE at[w] # j
  BY <1>1, <1>2, <1>4, <1>6, EndingElsewhere
<1> QED BY <1>5, <1>6

LEMMA ExhaustKeepsPromise ==
    ASSUME ReviewInv, NEW j \in Jobs, NEW w \in Workers, ExhaustExpired(w)
    PROVE  [Job(j)!Next]_(Job(j)!vars)
<1>1. /\ TypeOK /\ at[w] \in Jobs /\ row[at[w]] \in Row /\ Claimable(at[w])
      /\ row[at[w]].attempts >= MaxAttempts /\ made' = made
  BY DEF ReviewInv, ExhaustExpired, Knows, TypeOK
<1>2. mine'[w] = NoLease /\ Standing(w)
  BY DrainForgets
<1>3. /\ Saved(at[w], Closed(row[at[w]], "exhausted", TRUE))
      /\ Closed(row[at[w]], "exhausted", TRUE) \in Row
      /\ Closed(row[at[w]], "exhausted", TRUE).version = row[at[w]].version
  BY <1>1, ClosedRow DEF ExhaustExpired, Terminal
<1>4. /\ \A k \in Jobs \ {at[w]} : row'[k] = row[k]
      /\ row'[at[w]] = [Closed(row[at[w]], "exhausted", TRUE) EXCEPT !.version = @ + 1]
  BY <1>1, <1>3, Saving
<1>5. CASE at[w] = j
  <2>1. /\ row'[j].status = "exhausted" /\ row'[j].live = FALSE
        /\ row'[j].attempts = row[j].attempts /\ row'[j].retryable = TRUE
        /\ row'[j].lease = NoLease
    BY <1>1, <1>4, <1>5 DEF Closed, Row
  <2>2. Owners(j)' = {} /\ (UNION {answer[v] : v \in Owners(j)})' = {}
    BY <2>1, NoOwner DEF Proposed
  <2>3. row[j].attempts = MaxAttempts
    BY <1>1, <1>5, AttemptsAssumption DEF Row
  <2>4. Job(j)!Exhaust
    BY <1>1, <1>5, <2>1, <2>2, <2>3
      DEF Claimable, Job!Exhaust, Job!Claimable, Job!Released
  <2> QED BY <2>4 DEF Job!Next
<1>6. CASE at[w] # j
  BY <1>1, <1>2, <1>4, <1>6, EndingElsewhere
<1> QED BY <1>5, <1>6

(* A failure is recorded under the version the process read, so by the owner  *)
(* of the claim; it closes the job or keeps its lease for the backoff.        *)
LEMMA FailureKeepsPromise ==
    ASSUME ReviewInv, NEW j \in Jobs, NEW w \in Workers,
           RecordFailure(w), Unchanged(w)
    PROVE  [Job(j)!Next]_(Job(j)!vars)
<1>1. /\ TypeOK /\ OneOwner /\ at[w] \in Jobs /\ row[at[w]] \in Row
      /\ row[at[w]].status = "running" /\ row[at[w]].lease = mine[w]
      /\ mine[w] # NoLease /\ made' = made
  BY DEF ReviewInv, RecordFailure, Knows, Owning, TypeOK
<1>2. mine'[w] = NoLease /\ Standing(w)
  BY DrainForgets
<1>3. Saved(at[w], FailureRow(w))
  BY DEF RecordFailure
<1>4. FailureRow(w) \in Row /\ FailureRow(w).version = row[at[w]].version
  <2>1. \/ FailureRow(w) = Closed(row[at[w]], "failed", FALSE)
        \/ FailureRow(w) = Closed(row[at[w]], "exhausted", TRUE)
        \/ FailureRow(w) = [row[at[w]] EXCEPT !.live = TRUE]
    BY DEF FailureRow
  <2>2. /\ Closed(row[at[w]], "failed", FALSE) \in Row
        /\ Closed(row[at[w]], "failed", FALSE).version = row[at[w]].version
        /\ Closed(row[at[w]], "exhausted", TRUE) \in Row
        /\ Closed(row[at[w]], "exhausted", TRUE).version = row[at[w]].version
    BY <1>1, ClosedRow DEF Terminal
  <2>3. /\ [row[at[w]] EXCEPT !.live = TRUE] \in Row
        /\ [row[at[w]] EXCEPT !.live = TRUE].version = row[at[w]].version
    BY <1>1 DEF Row
  <2> QED BY <2>1, <2>2, <2>3
<1>5. /\ \A k \in Jobs \ {at[w]} : row'[k] = row[k]
      /\ row'[at[w]] = [FailureRow(w) EXCEPT !.version = @ + 1]
  BY <1>1, <1>3, <1>4, Saving
<1>6. CASE at[w] = j
  <2>1. Owners(j) = {w}
    BY <1>1, <1>6, Sole DEF Owners
  <2>2. w \notin Owners(j)'
    BY <1>2 DEF Owners
  <2>3. /\ row'[j].status = FailureRow(w).status /\ row'[j].live = FailureRow(w).live
        /\ row'[j].attempts = FailureRow(w).attempts
        /\ row'[j].retryable = FailureRow(w).retryable
        /\ row'[j].lease = FailureRow(w).lease
    BY <1>4, <1>5, <1>6 DEF Row
  <2>4. CASE FailureRow(w) = Closed(row[j], "failed", FALSE)
    <3>1. /\ row'[j].status = "failed" /\ row'[j].live = FALSE
          /\ row'[j].attempts = row[j].attempts /\ row'[j].retryable = FALSE
          /\ row'[j].lease = NoLease
      BY <1>1, <1>6, <2>3, <2>4 DEF Closed, Row
    <3>2. Owners(j)' = {} /\ (UNION {answer[v] : v \in Owners(j)})' = {}
      BY <3>1, NoOwner DEF Proposed
    <3>3. Job(j)!Fail
      BY <1>1, <1>6, <2>1, <3>1, <3>2 DEF Job!Fail, Job!Released
    <3> QED BY <3>3 DEF Job!Next
  <2>5. CASE row[j].attempts >= MaxAttempts /\ FailureRow(w) = Closed(row[j], "exhausted", TRUE)
    <3>1. /\ row'[j].status = "exhausted" /\ row'[j].live = FALSE
          /\ row'[j].attempts = row[j].attempts /\ row'[j].retryable = TRUE
          /\ row'[j].lease = NoLease
      BY <1>1, <1>6, <2>3, <2>5 DEF Closed, Row
    <3>2. Owners(j)' = {} /\ (UNION {answer[v] : v \in Owners(j)})' = {}
      BY <3>1, NoOwner DEF Proposed
    <3>3. row[j].attempts = MaxAttempts
      BY <1>1, <1>6, <2>5, AttemptsAssumption DEF Row
    <3>4. Job(j)!Fail
      BY <1>1, <1>6, <2>1, <3>1, <3>2, <3>3 DEF Job!Fail, Job!Released
    <3> QED BY <3>4 DEF Job!Next
  <2>6. CASE ~(row[j].attempts >= MaxAttempts) /\ FailureRow(w) = [row[j] EXCEPT !.live = TRUE]
    <3>1. /\ row'[j].status = row[j].status /\ row'[j].live = TRUE
          /\ row'[j].attempts = row[j].attempts /\ row'[j].retryable = row[j].retryable
          /\ row'[j].lease = row[j].lease
      BY <1>1, <1>6, <2>3, <2>6 DEF Row
    <3>2. Owners(j)' = {}
      BY <1>2, <2>1, <2>2, <3>1 DEF Owners, Standing
    <3>3. (UNION {answer[v] : v \in Owners(j)})' = {}
      BY <3>2
    <3>4. row[j].attempts < MaxAttempts
      BY <1>1, <1>6, <2>6, AttemptsAssumption DEF Row
    <3>5. Job(j)!Fail
      BY <1>1, <1>6, <2>1, <3>1, <3>2, <3>3, <3>4 DEF Job!Fail, Job!Released
    <3> QED BY <3>5 DEF Job!Next
  <2> QED BY <1>6, <2>4, <2>5, <2>6 DEF FailureRow
<1>7. CASE at[w] # j
  BY <1>1, <1>2, <1>5, <1>7, EndingElsewhere
<1> QED BY <1>6, <1>7

(* The process goes away, or finds that it has lost the job.                  *)
LEMMA LosingKeepsPromise ==
    ASSUME ReviewInv, NEW j \in Jobs, NEW w \in Workers,
           \/ Busy(w) \/ Crash(w) \/ (ReadFailure(w) /\ ~HoldsLease(w))
           \/ RecordFailure(w) /\ ~Unchanged(w)
    PROVE  [Job(j)!Next]_(Job(j)!vars)
<1>1. mine'[w] = NoLease /\ Standing(w)
  BY DrainForgets
<1>2. row' = row /\ made' = made
  BY DEF Busy, Crash, ReadFailure, RecordFailure
<1> QED BY <1>1, <1>2, Forgetting DEF SameRow, ReviewInv

(* A lease ends, a user retries: no process moves.                            *)
LEMMA UserKeepsPromise ==
    ASSUME ReviewInv, NEW j \in Jobs, NEW k \in Jobs, Retry(k) \/ Expire(k)
    PROVE  [Job(j)!Next]_(Job(j)!vars)
<1>1. /\ TypeOK /\ OneOwner /\ RowOK(j) /\ row[j] \in Row
      /\ UNCHANGED <<made, at, mine, answer>>
  BY DEF ReviewInv, TypeOK, Retry, Expire
<1>2. row'[j].lease = row[j].lease => Owners(j)' = Owners(j) /\ Proposed(j)' = Proposed(j)
  BY <1>1 DEF Owners, Proposed
<1>3. CASE row'[j] = row[j]
  BY <1>1, <1>2, <1>3, Silent DEF SameRow
<1>4. CASE row'[j] # row[j] /\ Expire(k)
  <2>1. /\ row[j].live /\ row'[j].status = row[j].status /\ row'[j].live = FALSE
        /\ row'[j].attempts = row[j].attempts /\ row'[j].retryable = row[j].retryable
        /\ row'[j].lease = row[j].lease
    BY <1>1, <1>4 DEF Expire, TypeOK, Row
  <2>2. Job(j)!TimeOut
    BY <1>1, <1>2, <2>1 DEF Proposed, Job!TimeOut
  <2> QED BY <2>2 DEF Job!Next
<1>5. CASE row'[j] # row[j] /\ Retry(k)
  <2>1. /\ Saved(k, ResetRow(row[k])) /\ row[k] \in Row
        /\ ResetRow(row[k]) \in Row /\ ResetRow(row[k]).version = row[k].version
    BY <1>1, <1>5, RetryWrites DEF Retry, ResetRow, TypeOK
  <2>2. /\ \A x \in Jobs \ {k} : row'[x] = row[x]
        /\ row'[k] = [ResetRow(row[k]) EXCEPT !.version = @ + 1]
    BY <1>1, <2>1, Saving
  <2>3. k = j
    BY <1>5, <2>2
  <2>4. /\ row'[j].status = "pending" /\ row'[j].live = FALSE
        /\ row'[j].attempts = 0 /\ row'[j].retryable = FALSE
        /\ row'[j].lease = NoLease
    BY <1>1, <2>2, <2>3 DEF ResetRow, Row
  <2>5. row[j].status \in {"failed", "exhausted"} /\ row[j].retryable
    BY <1>5, <2>3 DEF Retry
  <2>6. row[j].live = FALSE /\ row[j].lease = NoLease
    BY <1>1, <2>5 DEF RowOK, Row
  <2>7. /\ Owners(j) = {} /\ Proposed(j) = {}
        /\ Owners(j)' = {} /\ Proposed(j)' = {}
    BY <2>4, <2>6, NoOwner
  <2>8. Job(j)!Retry
    BY <1>1, <2>4, <2>5, <2>6, <2>7 DEF Proposed, Job!Retry
  <2> QED BY <2>8 DEF Job!Next
<1> QED BY <1>3, <1>4, <1>5

LEMMA StepKeepsPromise ==
    ASSUME ReviewInv, NothingYet, [Next]_vars, NEW j \in Jobs
    PROVE  [Job(j)!Next]_(Job(j)!vars)
<1>1. ASSUME NEW w \in Workers,
             \/ Drain(w) \/ Start(w) \/ Wake(w) \/ Awake(w) \/ TimerFires(w)
             \/ RunPending(w) \/ RunJob(w) \/ Cancel(w) \/ Crash(w)
      PROVE  [Job(j)!Next]_(Job(j)!vars)
  <2>1. CASE Keeping(w) \/ RunJob(w) \/ Choose(w)
    BY <2>1, KeepingKeepsPromise, LookingKeepsPromise
  <2>2. CASE Claim(w) \/ (Ask(w) /\ answer' # answer)
    BY <2>2, ClaimKeepsPromise, AskKeepsPromise
  <2>3. CASE ExhaustExpired(w) \/ (Complete(w) /\ Unchanged(w))
    BY <2>3, ExhaustKeepsPromise, CompleteKeepsPromise
  <2>4. CASE RecordFailure(w)
    BY <2>4, FailureKeepsPromise, LosingKeepsPromise
  <2>5. CASE Busy(w) \/ Crash(w) \/ (ReadFailure(w) /\ ~HoldsLease(w))
    BY <2>5, LosingKeepsPromise
  <2>6. \/ Keeping(w) \/ RunJob(w) \/ Choose(w) \/ Claim(w)
        \/ Ask(w) /\ answer' # answer
        \/ ExhaustExpired(w) \/ Busy(w) \/ Crash(w) \/ RecordFailure(w)
        \/ ReadFailure(w) /\ ~HoldsLease(w)
        \/ Complete(w) /\ Unchanged(w)
    BY <1>1, StepsOf
  <2> QED BY <2>1, <2>2, <2>3, <2>4, <2>5, <2>6
<1>2. CASE UNCHANGED vars
  <2>1. Owners(j)' = Owners(j) /\ Proposed(j)' = Proposed(j)
    BY <1>2 DEF vars, Owners, Proposed
  <2> QED BY <1>2, <2>1, Silent DEF vars, SameRow
<1> QED BY <1>1, <1>2, UserKeepsPromise DEF Next

(* Refinement: every job is kept as module ReviewJob promises, by any number  *)
(* of processes that know only the rows.  The names of leases and the versions*)
(* of rows see to it that a job has one owner at most, that nobody else ends  *)
(* it, and that its proposals are stored when it completes.                   *)
THEOREM JobPromiseKept == Spec => JobsKeepPromise
<1>1. Init => (\A j \in Jobs : Job(j)!Init) /\ NothingYet
  <2>1. ASSUME Init, NEW j \in Jobs PROVE Job(j)!Init
    <3>1. Owners(j) = {}
      BY <2>1 DEF Init, Owners
    <3> QED BY <2>1, <3>1 DEF Init, Job!Init
  <2> QED BY <2>1 DEF Init, NothingYet
<1>2. ReviewInv /\ NothingYet /\ [Next]_vars
        => [\A j \in Jobs : [Job(j)!Next]_(Job(j)!vars)]_vars
  BY StepKeepsPromise
<1> QED BY <1>1, <1>2, NothingYetStep, ReviewAlways, PTL DEF Spec, JobsKeepPromise

================================================================================
