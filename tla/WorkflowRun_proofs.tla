-------------------------- MODULE WorkflowRun_proofs --------------------------
(* Theorems about one workflow run, for any number of nodes, any plan and     *)
(* any commands: its types and books, no writer beside another node, a run    *)
(* completed for real, a pause that is quiet and can be continued, a driver   *)
(* that leaves nothing half done, the promise of PlanRun kept.                *)
EXTENDS WorkflowRun, FiniteSetTheorems, TLAPS

--------------------------------------------------------------------------------
(* The books of a run                                                         *)

(* A running node has a leaf and a segment, a completed one a committed leaf; *)
(* an open Turn has an active segment, and that a running node, unless the    *)
(* run ended under it.                                                        *)
NodesKept ==
  /\ \A n \in Active : leaf[n] # "new" /\ segment[n] # "none"
  /\ \A n \in Nodes : node[n] = "completed" => leaf[n] = "ready"
  /\ \A n \in Nodes : node[n] \in {"failed", "cancelled"} => Ended
  /\ \A n \in Nodes : leaf[n] = "open" => segment[n] = "active"
  /\ \A n \in Nodes : segment[n] = "active" => node[n] = "running" \/ Ended

(* Before it starts and after it ends a run has no running node; the pause    *)
(* fact stands only in a run that drains, is paused or has ended.             *)
RunKept ==
  /\ run.status \in Terminal \cup {"queued"} => Active = {}
  /\ run.status = "completed" => AllCompleted
  /\ run.pausing => run.status \in {"draining", "paused"} \cup Terminal

(* The phases of a frontier.                                                  *)
TeamAt == {"frontier", "settle", "publish", "close"}

(* The driver drives one node, or the team of a frontier, and nothing else.   *)
DriverKept ==
  /\ driver.at \in {"pick", "drive"} => driver.node \in Nodes
  /\ driver.at \in TeamAt => driver.team # {}
  /\ driver.at \in TeamAt => driver.node \in driver.team \cup {NoNode}
  /\ driver.at \notin TeamAt => driver.team = {}
  /\ \A n \in Nodes : task[n].at # "off" =>
       \/ driver.at = "drive" /\ driver.node = n
       \/ driver.at \in TeamAt /\ n \in driver.team

(* Its drives advance with it: a Turn it waits for is open, one that ended is *)
(* not.                                                                       *)
TasksKept ==
  /\ driver.at = "drive" =>
       task[driver.node].at \in {"start", "turn", "again", "ended"}
  /\ driver.at = "frontier" => \A n \in driver.team : task[n].at # "off"
  /\ driver.at \in {"settle", "publish", "close"} =>
       \A n \in driver.team : task[n].at \in {"joined", "off"}
  /\ \A n \in Nodes : InTurn(n) => leaf[n] = "open"
  /\ \A n \in Nodes : task[n].at = "ended" => leaf[n] # "open"

(* Nodes that run together were admitted as readers of the plan.              *)
Together ==
  /\ driver.team \subseteq plan.readers
  /\ shared \subseteq plan.readers
  /\ \A m, n \in Active : m # n => {m, n} \subseteq shared

(* All that runs during a frontier is in its team.                            *)
TeamKept ==
  /\ driver.at \in TeamAt => Active \subseteq driver.team
  /\ driver.at = "frontier" => \A n \in driver.team :
       IF Ended THEN leaf[n] = "new" ELSE node[n] \in {"queued", "running"}

WorkInv ==
  /\ TypeOK /\ NodesKept /\ RunKept /\ DriverKept /\ TasksKept /\ Together
  /\ TeamKept

--------------------------------------------------------------------------------
(* The operators                                                              *)

(* A set of nodes that is not empty has a first one: among the intervals that *)
(* end at a node of it one is minimal.                                        *)
LEMMA FirstIn ==
  ASSUME NEW S, S \subseteq Nodes, S # {}
  PROVE  \E m \in S : \A k \in S : m <= k
<1> DEFINE T == {1..m : m \in S}
<1>1. S \subseteq Nat
  BY NodesAssumption
<1>2. T # {} /\ T \subseteq FiniteSubsetsOf(Nat)
  <2>1. ASSUME NEW m \in S PROVE 1..m \subseteq Nat /\ IsFiniteSet(1..m)
    BY <1>1, FS_Interval
  <2> QED BY <2>1 DEF FiniteSubsetsOf
<1>3. PICK x \in T : \A y \in T : ~ (<<y, x>> \in StrictSubsetOrdering(Nat))
  <2> HIDE DEF T
  <2> QED BY <1>2, WFMin, FS_StrictSubsetOrderingWellFounded
<1>4. PICK m \in S : x = 1..m
  OBVIOUS
<1>5. ASSUME NEW k \in S PROVE m <= k
  <2>1. CASE k < m
    <3>1. m \in Nat /\ k \in Nat
      BY <1>1
    <3>2. 1..k \subseteq 1..m /\ m \in 1..m /\ m \notin 1..k
      BY <2>1, <3>1
    <3>3. 1..k \in T /\ 1..k \in SUBSET Nat /\ 1..m \in SUBSET Nat
      BY <1>1
    <3> QED BY <1>3, <1>4, <3>2, <3>3 DEF StrictSubsetOrdering
  <2> QED BY <1>1, <2>1
<1> QED BY <1>5

(* After a node comes the next one of the order, or the end.                  *)
LEMMA AfterIs ==
  ASSUME NEW n \in Nodes \cup {NoNode}
  PROVE  \/ /\ After(n) = [at |-> "end", node |-> NoNode, team |-> {},
                           saw |-> FALSE]
            /\ \A m \in Nodes : m <= n
         \/ \E m \in Nodes :
              /\ After(n) = [at |-> "pick", node |-> m, team |-> {},
                             saw |-> FALSE]
              /\ m > n /\ \A k \in Nodes : k < m => k <= n
<1> DEFINE later == {m \in Nodes : m > n}
<1>1. n \in Nat /\ Nodes \subseteq Nat
  BY NodesAssumption DEF NoNode
<1>2. CASE later = {}
  <2>1. \A m \in Nodes : m <= n
    BY <1>1, <1>2
  <2>2. After(n) = [at |-> "end", node |-> NoNode, team |-> {}, saw |-> FALSE]
    BY <1>2 DEF After, Off
  <2> QED BY <2>1, <2>2
<1>3. CASE later # {}
  <2> DEFINE m == CHOOSE m \in later : \A k \in later : m <= k
  <2>1. m \in later /\ \A k \in later : m <= k
    <3>1. \E x \in later : \A k \in later : x <= k
      BY <1>3, FirstIn
    <3> QED BY <3>1
  <2>2. After(n) = [at |-> "pick", node |-> m, team |-> {}, saw |-> FALSE]
    BY <1>3 DEF After, Off
  <2>3. m \in Nodes /\ m > n /\ \A k \in Nodes : k < m => k <= n
    <3> HIDE DEF m
    <3> QED BY <1>1, <2>1
  <2> HIDE DEF m
  <2> QED BY <2>2, <2>3
<1> QED BY <1>2, <1>3

(* A frontier has an idle run, and queued readers of the plan whose           *)
(* predecessors are done; it starts at the node it was asked for.             *)
LEMMA FrontierOf ==
  ASSUME NEW n \in Nodes, node[n] # "completed", NEW m \in Frontier(n)
  PROVE  /\ run.status \in {"queued", "running"} /\ Active = {}
         /\ m \in Nodes /\ node[m] = "queued" /\ m \in plan.readers
         /\ Ready(m) /\ n \in Frontier(n)
<1> DEFINE open(k) == k >= n /\ node[k] # "completed"
           mate(k) == node[k] = "queued" /\ k \in plan.readers /\ Ready(k)
           all == {k \in Nodes : open(k) /\ \A j \in n..k \cap Nodes :
                                                open(j) => mate(j)}
<1>1. /\ run.status \in {"queued", "running"} /\ Active = {}
      /\ Frontier(n) = {x \in all :
                          Cardinality({k \in all : k <= x}) <= MaxConcurrency}
  BY DEF Frontier
<1>2. m \in all
  BY <1>1
<1>3. n \in Nat /\ m \in Nat /\ Nodes \subseteq Nat
  BY <1>2, NodesAssumption
<1>4. m \in n..m \cap Nodes /\ n \in n..m \cap Nodes /\ n..n \cap Nodes = {n}
  BY <1>2, <1>3
<1>5. mate(m) /\ n \in all
  BY <1>2, <1>3, <1>4
<1>6. {k \in all : k <= n} = {n}
  <2>1. ASSUME NEW k \in all, k <= n PROVE k = n
    BY <1>3, <2>1
  <2>2. n \in all /\ n <= n
    BY <1>3, <1>5
  <2> HIDE DEF all
  <2> QED BY <2>1, <2>2
<1>7. n \in Frontier(n)
  <2>1. Cardinality({n}) = 1 /\ 1 <= MaxConcurrency
    BY FS_Singleton, ConcurrencyAssumption
  <2>2. Cardinality({k \in all : k <= n}) <= MaxConcurrency
    BY <1>6, <2>1
  <2> HIDE DEF all
  <2> QED BY <1>1, <1>5, <2>2
<1> QED BY <1>1, <1>2, <1>5, <1>7

(* A pause drains a run that has a running node, and pauses another at once.  *)
LEMMA PauseRun ==
  ASSUME TypeOK, RunKept, ~Ended
  PROVE  LET r == AfterPause(run, Active)
         IN /\ r \in Run /\ r.pausing /\ r.cancel = run.cancel
            /\ r.status \in {"draining", "paused"}
            /\ r.status = "draining" => Active # {}
            /\ Active # {} /\ run.status # "paused" => r.status = "draining"
            /\ run.status = "paused" => r = run
            /\ run.status = "draining" /\ Active # {} => r = run
<1> DEFINE r == AfterPause(run, Active)
<1>1. run \in Run /\ run.status \notin Terminal
  BY DEF TypeOK, Ended
<1>2. CASE run.pausing
  <2>1. run.status \in {"draining", "paused"}
    BY <1>1, <1>2 DEF RunKept
  <2>2. CASE run.status = "draining" /\ Active = {}
    <3>1. r = [run EXCEPT !.status = "paused"]
      BY <1>2, <2>2 DEF AfterPause
    <3> QED BY <1>1, <1>2, <2>2, <3>1 DEF Run
  <2>3. CASE ~ (run.status = "draining" /\ Active = {})
    <3>1. r = run
      BY <1>2, <2>3 DEF AfterPause
    <3> QED BY <1>1, <1>2, <2>1, <2>3, <3>1 DEF TypeOK
  <2> QED BY <2>2, <2>3
<1>3. CASE ~run.pausing
  <2>1. r = [run EXCEPT !.pausing = TRUE,
                        !.status = IF @ = "running" /\ Active # {}
                                     THEN "draining" ELSE "paused"]
    BY <1>3 DEF AfterPause
  <2>2. run.status \in {"queued", "running"}
    BY <1>1, <1>3 DEF TypeOK, Run
  <2>3. run.status = "queued" => Active = {}
    BY DEF RunKept
  <2> QED BY <1>1, <2>1, <2>2, <2>3 DEF Run
<1> QED BY <1>2, <1>3

(* A resume clears the pause fact.                                            *)
LEMMA ResumeRun ==
  ASSUME TypeOK, RunKept, ~Ended
  PROVE  LET r == AfterResume(run)
         IN /\ r \in Run /\ ~r.pausing /\ r.cancel = run.cancel
            /\ r.status \in {"queued", "running"}
            /\ r.status = "queued" => run.status = "queued"
<1> DEFINE r == AfterResume(run)
<1>1. run \in Run /\ run.status \notin Terminal
  BY DEF TypeOK, Ended
<1>2. CASE run.pausing
  <2>1. r = [run EXCEPT !.pausing = FALSE, !.status = "running"]
    BY <1>2 DEF AfterResume
  <2> QED BY <1>1, <2>1 DEF Run
<1>3. CASE ~run.pausing
  <2>1. r = run
    BY <1>3 DEF AfterResume
  <2>2. run.status \in {"queued", "running"}
    BY <1>1, <1>3 DEF TypeOK, Run
  <2> QED BY <1>1, <1>3, <2>1, <2>2
<1> QED BY <1>2, <1>3

(* The cycle a node parks in is suspended.                                    *)
LEMMA SuspendPoint ==
  ASSUME NEW p \in Point, NEW n \in Nodes
  PROVE  AfterSuspend(p, n) \in Point /\ AfterSuspend(p, n).life = "suspended"
<1>1. NoPoint \in Point
  BY DEF NoPoint, Point
<1>2. Requested \in Point
  BY <1>1 DEF Requested, NoPoint, Point
<1>3. CASE p.life = "suspended"
  BY <1>3 DEF AfterSuspend
<1>4. CASE p.life # "suspended"
  <2> DEFINE q == IF p.life = "none" THEN Requested ELSE p
  <2>1. q \in Point
    BY <1>2
  <2>2. AfterSuspend(p, n) = [q EXCEPT !.life = "suspended", !.node = n]
    BY <1>4 DEF AfterSuspend
  <2> HIDE DEF q
  <2> QED BY <2>1, <2>2 DEF Point
<1> QED BY <1>3, <1>4

(* What Settle does: nothing; publish a committed leaf, and the run with the  *)
(* last one; park the node and drain; or close the run.                       *)
Kept(n) ==
  /\ Ended \/ leaf[n] = "open" \/ (leaf[n] = "new" /\ task[n].error = "paused")
  /\ UNCHANGED <<run, node, segment, point, parked>>

Commits(n) ==
  /\ ~Ended /\ leaf[n] = "ready"
  /\ IF \A m \in Nodes : m # n => node[m] = "completed"
       THEN Finish([run EXCEPT !.status = "completed"], {n})
       ELSE Complete({n}) /\ UNCHANGED run
  /\ UNCHANGED <<point, parked>>

Parks(n) ==
  /\ ~Ended
  /\ leaf[n] = "interrupted"
  /\ run' = AfterPause(run, Active)
  /\ point' \in Point /\ point'.life = "suspended"
  /\ parked' \in SUBSET Nodes
  /\ segment' = IF segment[n] = "active"
                  THEN [segment EXCEPT ![n] = "interrupted"] ELSE segment
  /\ UNCHANGED node

Closes ==
  /\ ~Ended
  /\ Close("failed") \/ Close("cancelled")
  /\ UNCHANGED <<point, parked>>

LEMMA SettleIs ==
  ASSUME TypeOK, NEW n \in Nodes, Settle(n)
  PROVE  \/ Kept(n)
         \/ Commits(n)
         \/ Parks(n)
         \/ Closes /\ leaf[n] \notin {"open", "ready"}
<1> DEFINE opens == ~run.pausing /\ n \notin parked
           cycle == IF opens THEN Requested ELSE point
           refused == leaf[n] = "new" /\ task[n].error = "paused"
           parks == leaf[n] = "interrupted" /\ cycle.life # "resumed"
<1>1. CASE Ended \/ refused \/ leaf[n] = "open"
  BY <1>1 DEF Settle, Kept
<1>2. CASE ~Ended /\ leaf[n] = "ready"
  BY <1>2 DEF Settle, Commits
<1>3. CASE ~Ended /\ ~refused /\ parks
  <2>1. /\ run' = AfterPause(run, Active)
        /\ point' = AfterSuspend(cycle, n)
        /\ parked' = IF opens THEN parked \cup {n} ELSE parked
        /\ segment' = IF segment[n] = "active"
                        THEN [segment EXCEPT ![n] = "interrupted"] ELSE segment
        /\ UNCHANGED node
    BY <1>3 DEF Settle
  <2>2. cycle \in Point
    BY DEF TypeOK, Requested, NoPoint, Point
  <2>3. point' \in Point /\ point'.life = "suspended"
    BY <2>1, <2>2, SuspendPoint
  <2>4. parked' \in SUBSET Nodes
    BY <2>1 DEF TypeOK
  <2> QED BY <1>3, <2>1, <2>3, <2>4 DEF Parks
<1>4. CASE ~Ended /\ ~refused /\ leaf[n] \notin {"open", "ready"} /\ ~parks
  <2>1. /\ Close(IF leaf[n] = "cancelled" THEN "cancelled" ELSE "failed")
        /\ UNCHANGED <<point, parked>>
    BY <1>4 DEF Settle
  <2> QED BY <1>4, <2>1 DEF Closes
<1> QED BY <1>1, <1>2, <1>3, <1>4

--------------------------------------------------------------------------------
(* What the pieces of the actions do to the books                             *)

(* A run that ends: no node runs on, the published leaves are committed, and  *)
(* no Turn opens (one may be cancelled).                                      *)
LEMMA FinishBooks ==
  ASSUME WorkInv,
         NEW r \in Run, r.status \in Terminal,
         NEW done \in SUBSET Nodes, \A n \in done : leaf[n] = "ready",
         r.status = "completed" =>
           \A n \in Nodes : node[n] = "completed" \/ n \in done,
         Finish(r, done),
         \A n \in Nodes : leaf'[n] # leaf[n] =>
                            leaf[n] = "open" /\ leaf'[n] = "cancelled"
  PROVE  /\ run' = r /\ node' \in [Nodes -> Terminal] /\ Ended' /\ Active' = {}
         /\ segment' \in [Nodes -> {"none", "active", "interrupted", "completed"}]
         /\ NodesKept' /\ RunKept'
<1>1. /\ run' = r
      /\ node' = [n \in Nodes |->
           IF node[n] = "completed" \/ n \in done THEN "completed"
           ELSE IF node[n] = "running" /\ r.status = "failed" THEN "failed"
           ELSE "cancelled"]
      /\ segment' = [n \in Nodes |->
           IF n \in done /\ segment[n] = "active" THEN "completed" ELSE segment[n]]
  BY DEF Finish
<1>2. node' \in [Nodes -> Terminal]
  BY <1>1 DEF Terminal
<1>3. Ended' /\ Active' = {}
  BY <1>1, <1>2 DEF Ended, Active, Terminal
<1>4. segment' \in [Nodes -> {"none", "active", "interrupted", "completed"}]
  BY <1>1 DEF WorkInv, TypeOK
<1>5. NodesKept'
  <2>1. \A n \in Nodes : node'[n] = "completed" => leaf'[n] = "ready"
    BY <1>1 DEF WorkInv, NodesKept
  <2>2. \A n \in Nodes : leaf'[n] = "open" => segment'[n] = "active"
    BY <1>1 DEF WorkInv, NodesKept
  <2> QED BY <1>3, <2>1, <2>2 DEF NodesKept
<1>6. RunKept'
  <2>1. run'.status = "completed" => AllCompleted'
    BY <1>1 DEF AllCompleted
  <2> QED BY <1>1, <1>3, <2>1 DEF RunKept, Ended
<1> QED BY <1>1, <1>2, <1>3, <1>4, <1>5, <1>6

(* A driver between two drives holds no task and no team.                     *)
LEMMA RestKept ==
  ASSUME driver'.at \notin TeamAt \cup {"drive"}, driver'.team = {},
         driver'.at = "pick" => driver'.node \in Nodes,
         \A n \in Nodes : task'[n].at = "off"
  PROVE  DriverKept' /\ TasksKept' /\ TeamKept'
<1>1. DriverKept'
  BY DEF DriverKept
<1>2. TasksKept'
  BY DEF TasksKept, InTurn, TeamAt
<1>3. TeamKept'
  BY DEF TeamKept, TeamAt
<1> QED BY <1>1, <1>2, <1>3

LEMMA IdleTasks ==
  ASSUME task' = [n \in Nodes |-> Idle]
  PROVE  task' \in [Nodes -> Drive] /\ \A n \in Nodes : task'[n].at = "off"
BY DEF Idle, Drive

(* The places a driver rests at.                                              *)
LEMMA OffRests ==
  ASSUME driver' = Off \/ \E at \in {"resume", "cancel", "end"}, b \in BOOLEAN :
                            driver' = [at |-> at, node |-> NoNode, team |-> {},
                                       saw |-> b]
  PROVE  /\ driver' \in Driver /\ driver'.team = {}
         /\ driver'.at \notin TeamAt \cup {"drive", "pick"}
<1>1. PICK at \in {"off", "resume", "cancel", "end"}, b \in BOOLEAN :
        driver' = [at |-> at, node |-> NoNode, team |-> {}, saw |-> b]
  BY DEF Off
<1>2. driver' \in Driver
  BY <1>1 DEF Driver
<1> QED BY <1>1, <1>2 DEF TeamAt

LEMMA AfterRests ==
  ASSUME NEW n \in Nodes \cup {NoNode}, driver' = After(n)
  PROVE  /\ driver' \in Driver /\ driver'.team = {}
         /\ driver'.at \in {"pick", "end"}
         /\ driver'.at \notin TeamAt \cup {"drive"}
         /\ driver'.at = "pick" => driver'.node \in Nodes
<1>1. \/ driver' = [at |-> "end", node |-> NoNode, team |-> {}, saw |-> FALSE]
      \/ \E m \in Nodes :
           driver' = [at |-> "pick", node |-> m, team |-> {}, saw |-> FALSE]
  BY AfterIs
<1>2. \E at \in {"pick", "end"}, m \in Nodes \cup {NoNode} :
        /\ driver' = [at |-> at, node |-> m, team |-> {}, saw |-> FALSE]
        /\ at = "pick" => m \in Nodes
  BY <1>1
<1>3. driver' \in Driver
  BY <1>2 DEF Driver
<1> QED BY <1>2, <1>3 DEF TeamAt

(* A step that opens no Turn and starts no node leaves the books as they are. *)
LEMMA BooksSame ==
  ASSUME WorkInv, UNCHANGED <<plan, run, node, shared, leaf, segment>>
  PROVE  /\ NodesKept' /\ RunKept' /\ Active' = Active /\ (Ended' <=> Ended)
         /\ driver'.team \subseteq driver.team => Together'
<1>1. Active' = Active /\ (Ended' <=> Ended) /\ (AllCompleted' <=> AllCompleted)
  BY DEF Active, Ended, AllCompleted
<1> QED BY <1>1 DEF WorkInv, NodesKept, RunKept, Together

(* Commands that act on the run row alone.                                    *)
LEMMA RowBooks ==
  ASSUME WorkInv, ~Ended, NEW r \in Run,
         r.status \in {"draining", "paused"} => r.pausing,
         r.pausing => r.status \in {"draining", "paused"},
         r.status \notin Terminal, r.status = "queued" => Active = {},
         run' = r, UNCHANGED <<plan, node, shared, leaf, segment>>
  PROVE  /\ NodesKept' /\ RunKept' /\ Active' = Active /\ ~Ended'
         /\ driver'.team \subseteq driver.team => Together'
<1>1. Active' = Active /\ ~Ended'
  BY DEF Active, Ended
<1>2. NodesKept'
  BY <1>1 DEF WorkInv, NodesKept
<1>3. RunKept'
  BY <1>1 DEF RunKept, Terminal
<1> QED BY <1>1, <1>2, <1>3 DEF WorkInv, Together

--------------------------------------------------------------------------------
(* The commands keep the books                                                *)

LEMMA WorkPause ==
  ASSUME WorkInv, Pause \/ CliPause
  PROVE  WorkInv'
<1>1. /\ ~Ended /\ run' = AfterPause(run, Active)
      /\ \E b \in BOOLEAN : point' = PointAfterPause(b)
      /\ UNCHANGED <<plan, node, shared, leaf, segment, parked, receipts, sent,
                     driver, task, lost>>
  BY DEF Pause, CliPause
<1>2. /\ run' \in Run /\ run'.pausing /\ run'.status \in {"draining", "paused"}
  BY <1>1, PauseRun DEF WorkInv
<1>3. /\ NodesKept' /\ RunKept' /\ Active' = Active /\ ~Ended' /\ Together'
  BY <1>1, <1>2, RowBooks DEF Terminal
<1>4. point' \in Point
  BY <1>1 DEF PointAfterPause, Requested, NoPoint, Point, WorkInv, TypeOK
<1>5. TypeOK'
  BY <1>1, <1>2, <1>4 DEF WorkInv, TypeOK
<1>6. DriverKept' /\ TasksKept' /\ TeamKept'
  BY <1>1, <1>3 DEF WorkInv, DriverKept, TasksKept, TeamKept, InTurn
<1> QED BY <1>3, <1>5, <1>6 DEF WorkInv

(* A driver that is called in begins with a resume.                           *)
LEMMA EnsureKept ==
  ASSUME WorkInv, EnsureDriver, run' \in Run,
         UNCHANGED <<task, leaf, node>>, Active' = Active, ~Ended, ~Ended'
  PROVE  /\ driver' \in Driver /\ lost' \in BOOLEAN
         /\ driver'.team = driver.team
         /\ DriverKept' /\ TasksKept' /\ TeamKept'
<1>1. CASE driver.at = "off"
  <2>1. driver' = [Off EXCEPT !.at = "resume", !.saw = run'.pausing] /\ lost' = FALSE
    BY <1>1 DEF EnsureDriver
  <2>2. run'.pausing \in BOOLEAN
    BY DEF Run
  <2>3. /\ driver' \in Driver /\ driver'.team = {}
        /\ driver'.at \notin TeamAt \cup {"drive", "pick"}
    <3>1. driver' = [at |-> "resume", node |-> NoNode, team |-> {},
                     saw |-> run'.pausing]
      BY <2>1 DEF Off
    <3> QED BY <2>2, <3>1, OffRests
  <2>4. \A n \in Nodes : task'[n].at = "off"
    BY <1>1 DEF WorkInv, DriverKept, TeamAt
  <2>5. driver.team = {}
    BY <1>1 DEF WorkInv, DriverKept, TeamAt
  <2> QED BY <2>1, <2>3, <2>4, <2>5, RestKept
<1>2. CASE driver.at # "off"
  <2>1. UNCHANGED <<driver, lost>>
    BY <1>2 DEF EnsureDriver
  <2>2. driver' \in Driver /\ lost' \in BOOLEAN
    BY <2>1 DEF WorkInv, TypeOK
  <2>3. DriverKept' /\ TasksKept' /\ TeamKept'
    BY <2>1 DEF WorkInv, DriverKept, TasksKept, TeamKept, InTurn
  <2> QED BY <2>1, <2>2, <2>3
<1> QED BY <1>1, <1>2

LEMMA WorkResume ==
  ASSUME WorkInv, NEW c \in Commands, Resume(c)
  PROVE  WorkInv'
<1>1. /\ ~Ended /\ Bind(c) /\ run' = AfterResume(run) /\ sent' = sent \cup {c}
      /\ EnsureDriver
      /\ UNCHANGED <<plan, node, shared, leaf, segment, parked, receipts, task>>
  BY DEF Resume
<1>2. /\ run' \in Run /\ ~run'.pausing /\ run'.status \in {"queued", "running"}
      /\ run'.status = "queued" => run.status = "queued"
  BY <1>1, ResumeRun DEF WorkInv
<1>3. run'.status = "queued" => Active = {}
  BY <1>2 DEF WorkInv, RunKept
<1>4. /\ NodesKept' /\ RunKept' /\ Active' = Active /\ ~Ended'
      /\ driver'.team \subseteq driver.team => Together'
  BY <1>1, <1>2, <1>3, RowBooks DEF Terminal
<1>5. point' \in Point
  BY <1>1 DEF Bind, Point, WorkInv, TypeOK
<1>6. /\ driver' \in Driver /\ lost' \in BOOLEAN /\ driver'.team = driver.team
      /\ DriverKept' /\ TasksKept' /\ TeamKept'
  BY <1>1, <1>2, <1>4, EnsureKept
<1>7. TypeOK'
  BY <1>1, <1>2, <1>5, <1>6 DEF WorkInv, TypeOK
<1> QED BY <1>4, <1>6, <1>7 DEF WorkInv

LEMMA WorkBareResume ==
  ASSUME WorkInv, BareResume
  PROVE  WorkInv'
<1>1. /\ ~Ended /\ EnsureDriver /\ run' = run
      /\ UNCHANGED <<plan, node, shared, leaf, segment, point, parked, receipts,
                     sent, task>>
  BY DEF BareResume
<1>2. /\ NodesKept' /\ RunKept' /\ Active' = Active /\ ~Ended' /\ run' \in Run
      /\ driver'.team \subseteq driver.team => Together'
  BY <1>1, BooksSame DEF WorkInv, TypeOK
<1>3. /\ driver' \in Driver /\ lost' \in BOOLEAN /\ driver'.team = driver.team
      /\ DriverKept' /\ TasksKept' /\ TeamKept'
  BY <1>1, <1>2, EnsureKept
<1>4. TypeOK'
  BY <1>1, <1>3 DEF WorkInv, TypeOK
<1> QED BY <1>2, <1>3, <1>4 DEF WorkInv

(* The process of the driver dies, on its own or between the two writes of a  *)
(* resume.                                                                    *)
LEMMA WorkDies ==
  ASSUME WorkInv, Crash \/ \E c \in Commands : ResumeDies(c)
  PROVE  WorkInv'
<1>1. /\ StopDriver /\ lost' = TRUE
      /\ point' = point \/ \E c \in Commands : Bind(c)
      /\ UNCHANGED <<plan, run, node, shared, leaf, segment, parked, receipts,
                     sent>>
  BY DEF Crash, ResumeDies, durable
<1>2. point' \in Point
  BY <1>1 DEF Bind, Point, WorkInv, TypeOK
<1>3. driver' \in Driver /\ driver'.team = {}
      /\ driver'.at \notin TeamAt \cup {"drive", "pick"}
  BY <1>1, OffRests DEF StopDriver
<1>4. task' \in [Nodes -> Drive] /\ \A n \in Nodes : task'[n].at = "off"
  BY <1>1, IdleTasks DEF StopDriver
<1>5. DriverKept' /\ TasksKept' /\ TeamKept'
  BY <1>3, <1>4, RestKept
<1>6. NodesKept' /\ RunKept' /\ Together'
  BY <1>1, <1>3, BooksSame
<1>7. TypeOK'
  BY <1>1, <1>2, <1>3, <1>4 DEF WorkInv, TypeOK
<1> QED BY <1>5, <1>6, <1>7 DEF WorkInv

(* A cancellation of the owner's process: the drive of a node settles it and  *)
(* ends the run.                                                              *)
LEMMA WorkCancel ==
  ASSUME WorkInv, Cancel
  PROVE  WorkInv'
<1> DEFINE done == {driver.node} \cap Publishable
           won == \A n \in Nodes : node[n] = "completed" \/ n \in done
           asked == [run EXCEPT !.cancel = TRUE]
           closed == [asked EXCEPT !.status = IF won THEN "completed"
                                                    ELSE "cancelled"]
<1>1. /\ ~Ended
      /\ leaf' = [n \in Nodes |-> IF InTurn(n) THEN "cancelled" ELSE leaf[n]]
      /\ task' = [n \in Nodes |-> Idle] /\ lost' = FALSE
      /\ UNCHANGED <<plan, shared, point, parked, receipts, sent>>
  BY DEF Cancel
<1>2. /\ leaf' \in [Nodes -> {"new", "open", "interrupted", "ready", "failed",
                              "cancelled"}]
      /\ \A n \in Nodes : leaf'[n] # leaf[n] =>
                            leaf[n] = "open" /\ leaf'[n] = "cancelled"
  BY <1>1 DEF WorkInv, TypeOK, TasksKept
<1>3. task' \in [Nodes -> Drive] /\ \A n \in Nodes : task'[n].at = "off"
  BY <1>1, IdleTasks
<1>4. asked \in Run /\ asked.status = run.status /\ asked.pausing = run.pausing
  BY DEF WorkInv, TypeOK, Run
<1>5. CASE driver.at = "drive"
  <2>1. Finish(closed, done) /\ driver' = Off
    BY <1>5 DEF Cancel
  <2>2. closed \in Run /\ closed.status \in Terminal
        /\ (closed.status = "completed" => won)
    BY <1>4 DEF Run, Terminal
  <2>3. done \in SUBSET Nodes /\ \A n \in done : leaf[n] = "ready"
    BY DEF Publishable, Active
  <2>4. /\ run' = closed /\ node' \in [Nodes -> Terminal] /\ Active' = {}
        /\ segment' \in [Nodes -> {"none", "active", "interrupted", "completed"}]
        /\ NodesKept' /\ RunKept'
    <3> HIDE DEF closed, done
    <3> QED BY <1>2, <2>1, <2>2, <2>3, FinishBooks
  <2>5. /\ driver' \in Driver /\ driver'.team = {}
        /\ driver'.at \notin TeamAt \cup {"drive", "pick"}
    BY <2>1, OffRests
  <2>6. DriverKept' /\ TasksKept' /\ TeamKept'
    BY <1>3, <2>5, RestKept
  <2>7. TypeOK'
    <3>1. run' \in Run /\ run'.status \notin {"draining", "paused"}
      <4> HIDE DEF closed, done
      <4> QED BY <2>2, <2>4 DEF Terminal
    <3>2. /\ node' \in [Nodes -> {"queued", "running"} \cup Terminal]
          /\ \A n \in Nodes : node'[n] # "queued"
      BY <2>4 DEF Terminal
    <3> HIDE DEF closed, done
    <3> QED BY <1>1, <1>2, <1>3, <2>4, <2>5, <3>1, <3>2 DEF WorkInv, TypeOK
  <2>8. Together'
    BY <1>1, <2>4, <2>5 DEF WorkInv, Together
  <2> QED BY <2>4, <2>6, <2>7, <2>8 DEF WorkInv
<1>6. CASE driver.at # "drive"
  <2>1. /\ run' = asked /\ UNCHANGED <<node, segment>>
        /\ driver' = [Off EXCEPT !.at = "cancel"]
    BY <1>6 DEF Cancel
  <2>2. driver' = [at |-> "cancel", node |-> NoNode, team |-> {}, saw |-> FALSE]
    BY <2>1 DEF Off
  <2>3. /\ driver' \in Driver /\ driver'.team = {}
        /\ driver'.at \notin TeamAt \cup {"drive", "pick"}
    BY <2>2, OffRests
  <2>4. DriverKept' /\ TasksKept' /\ TeamKept'
    BY <1>3, <2>3, RestKept
  <2>5. Active' = Active /\ ~Ended /\ ~Ended' /\ (AllCompleted' <=> AllCompleted)
    BY <1>1, <1>4, <2>1 DEF Active, Ended, AllCompleted
  <2>6. NodesKept'
    <3>1. \A n \in Nodes :
            /\ leaf[n] = "ready" => leaf'[n] = "ready"
            /\ leaf[n] # "new" => leaf'[n] # "new"
            /\ leaf'[n] = "open" => leaf[n] = "open"
      BY <1>2
    <3> QED BY <2>1, <2>5, <3>1 DEF WorkInv, NodesKept, Active
  <2>7. RunKept'
    BY <1>4, <2>1, <2>5 DEF WorkInv, RunKept
  <2>8. Together'
    BY <1>1, <2>3, <2>5 DEF WorkInv, Together
  <2>9. \A n \in Nodes : node'[n] = "queued" => leaf'[n] = "new" /\ segment'[n] = "none"
    BY <1>2, <2>1 DEF WorkInv, TypeOK
  <2>10. TypeOK'
    BY <1>1, <1>2, <1>3, <1>4, <2>1, <2>3, <2>9 DEF WorkInv, TypeOK
  <2> QED BY <2>4, <2>6, <2>7, <2>8, <2>10 DEF WorkInv
<1> QED BY <1>5, <1>6

(* A run that is closed with the driver that closes it.                       *)
LEMMA FinishStops ==
  ASSUME WorkInv, NEW r \in Run, r.status \in {"failed", "cancelled"},
         NEW done \in SUBSET Publishable, Finish(r, done), StopDriver,
         UNCHANGED <<plan, shared, leaf, point, parked, receipts, sent, lost>>
  PROVE  WorkInv' /\ Ended'
<1>1. done \in SUBSET Nodes /\ \A n \in done : leaf[n] = "ready"
  BY DEF Publishable, Active
<1>2. /\ run' = r /\ node' \in [Nodes -> Terminal] /\ Ended' /\ Active' = {}
      /\ segment' \in [Nodes -> {"none", "active", "interrupted", "completed"}]
      /\ NodesKept' /\ RunKept'
  BY <1>1, FinishBooks DEF Terminal
<1>3. /\ driver' \in Driver /\ driver'.team = {}
      /\ driver'.at \notin TeamAt \cup {"drive", "pick"}
  BY OffRests DEF StopDriver
<1>4. task' \in [Nodes -> Drive] /\ \A n \in Nodes : task'[n].at = "off"
  BY IdleTasks DEF StopDriver
<1>5. DriverKept' /\ TasksKept' /\ TeamKept'
  BY <1>3, <1>4, RestKept
<1>6. TypeOK'
  BY <1>2, <1>3, <1>4 DEF WorkInv, TypeOK, Terminal
<1>7. Together'
  BY <1>2, <1>3 DEF WorkInv, Together
<1> QED BY <1>2, <1>5, <1>6, <1>7 DEF WorkInv

LEMMA WorkCancelRest ==
  ASSUME WorkInv, CancelRest
  PROVE  WorkInv'
<1>1. /\ StopDriver
      /\ UNCHANGED <<plan, shared, leaf, point, parked, receipts, sent, lost>>
  BY DEF CancelRest
<1>2. CASE Ended \/ run.status = "paused"
  <2>1. UNCHANGED <<run, node, segment>>
    BY <1>2 DEF CancelRest
  <2>2. /\ driver' \in Driver /\ driver'.team = {}
        /\ driver'.at \notin TeamAt \cup {"drive", "pick"}
    BY <1>1, OffRests DEF StopDriver
  <2>3. task' \in [Nodes -> Drive] /\ \A n \in Nodes : task'[n].at = "off"
    BY <1>1, IdleTasks DEF StopDriver
  <2>4. DriverKept' /\ TasksKept' /\ TeamKept'
    BY <2>2, <2>3, RestKept
  <2>5. NodesKept' /\ RunKept' /\ Together'
    BY <1>1, <2>1, <2>2, BooksSame
  <2>6. TypeOK'
    BY <1>1, <2>1, <2>2, <2>3 DEF WorkInv, TypeOK
  <2> QED BY <2>4, <2>5, <2>6 DEF WorkInv
<1>3. CASE ~ (Ended \/ run.status = "paused")
  <2>1. Finish([run EXCEPT !.status = "cancelled"], Publishable)
    BY <1>3 DEF CancelRest
  <2>2. /\ [run EXCEPT !.status = "cancelled"] \in Run
        /\ [run EXCEPT !.status = "cancelled"].status = "cancelled"
    BY DEF WorkInv, TypeOK, Run, Terminal
  <2> QED BY <1>1, <2>1, <2>2, FinishStops
<1> QED BY <1>2, <1>3

(* "workflow cancel" ends a run with nothing in flight; another it only asks. *)
LEMMA WorkCliCancel ==
  ASSUME WorkInv, CliCancel
  PROVE  WorkInv'
<1>1. /\ ~Ended
      /\ UNCHANGED <<plan, shared, leaf, segment, point, parked, receipts, sent,
                     driver, task, lost>>
  BY DEF CliCancel
<1>2. CASE Active = {}
  <2>1. /\ run' = [run EXCEPT !.cancel = TRUE, !.status = "cancelled"]
        /\ node' = [n \in Nodes |-> IF node[n] = "queued" THEN "cancelled"
                                                           ELSE node[n]]
    BY <1>2 DEF CliCancel
  <2>2. run' \in Run /\ run'.status = "cancelled"
    BY <2>1 DEF WorkInv, TypeOK, Run, Terminal
  <2>3. node' \in [Nodes -> Terminal] /\ Active' = {} /\ Ended'
    BY <1>2, <2>1, <2>2 DEF WorkInv, TypeOK, Active, Ended, Terminal
  <2>4. TypeOK'
    BY <1>1, <2>2, <2>3 DEF WorkInv, TypeOK, Terminal
  <2>5. NodesKept'
    BY <1>1, <2>1, <2>3 DEF WorkInv, NodesKept
  <2>6. RunKept'
    BY <2>2, <2>3 DEF RunKept, Terminal
  <2>7. DriverKept' /\ TasksKept' /\ Together'
    BY <1>1, <2>3 DEF WorkInv, DriverKept, TasksKept, Together, InTurn
  <2>8. \A n \in Nodes : node[n] = "queued" => leaf[n] = "new"
    BY DEF WorkInv, TypeOK
  <2>9. driver.team \subseteq Nodes
    BY DEF WorkInv, TypeOK, Driver
  <2>10. TeamKept'
    BY <1>1, <1>2, <2>3, <2>8, <2>9 DEF WorkInv, TeamKept, Active
  <2> QED BY <2>4, <2>5, <2>6, <2>7, <2>10 DEF WorkInv
<1>3. CASE Active # {}
  <2>1. run' = [run EXCEPT !.cancel = TRUE] /\ UNCHANGED node
    BY <1>3 DEF CliCancel
  <2>2. run' \in Run /\ run'.status = run.status /\ run'.pausing = run.pausing
    BY <2>1 DEF WorkInv, TypeOK, Run
  <2>3. Active' = Active /\ ~Ended' /\ (AllCompleted' <=> AllCompleted)
    BY <1>1, <2>1, <2>2 DEF Active, Ended, AllCompleted
  <2>4. TypeOK'
    BY <1>1, <2>1, <2>2 DEF WorkInv, TypeOK
  <2>5. NodesKept' /\ RunKept'
    BY <1>1, <2>1, <2>2, <2>3 DEF WorkInv, NodesKept, RunKept
  <2>6. DriverKept' /\ TasksKept' /\ Together' /\ TeamKept'
    BY <1>1, <2>1, <2>3
      DEF WorkInv, DriverKept, TasksKept, Together, TeamKept, InTurn
  <2> QED BY <2>4, <2>5, <2>6 DEF WorkInv
<1> QED BY <1>2, <1>3

--------------------------------------------------------------------------------
(* The driver keeps the books                                                 *)

(* A step of the driver that writes nothing.                                  *)
LEMMA WorkSame ==
  ASSUME WorkInv, UNCHANGED durable, driver' \in Driver, lost' \in BOOLEAN,
         task' \in [Nodes -> Drive], driver'.team \subseteq plan.readers,
         DriverKept', TasksKept', TeamKept'
  PROVE  WorkInv'
<1>1. /\ UNCHANGED <<plan, run, node, shared, leaf, segment, point, parked>>
      /\ UNCHANGED <<receipts, sent>>
  BY DEF durable
<1>2. NodesKept' /\ RunKept' /\ Active' = Active
  BY <1>1, BooksSame
<1>3. Together'
  BY <1>1, <1>2 DEF WorkInv, Together
<1>4. TypeOK'
  BY <1>1 DEF WorkInv, TypeOK
<1> QED BY <1>2, <1>3, <1>4 DEF WorkInv

(* The nodes that are driven from now on.                                     *)
LEMMA LaunchIs ==
  ASSUME NEW team, Launch(team)
  PROVE  /\ task' \in [Nodes -> Drive]
         /\ \A n \in Nodes : task'[n].at = IF n \in team THEN "start" ELSE "off"
         /\ \A n \in Nodes : task'[n].error = "none"
BY DEF Launch, Idle, Drive

(* A frontier begins.                                                         *)
LEMMA FrontierBegins ==
  ASSUME NEW team \in SUBSET Nodes, team # {}, Launch(team),
         NEW first \in team \cup {NoNode}, NEW saw \in BOOLEAN,
         driver' = [at |-> "frontier", node |-> first, team |-> team, saw |-> saw]
  PROVE  driver' \in Driver /\ DriverKept' /\ TasksKept'
<1>1. \A n \in Nodes : task'[n].at = IF n \in team THEN "start" ELSE "off"
  BY LaunchIs
<1>2. driver' \in Driver
  BY DEF Driver
<1>3. DriverKept'
  BY <1>1 DEF DriverKept, TeamAt
<1>4. TasksKept'
  BY <1>1 DEF TasksKept, InTurn
<1> QED BY <1>2, <1>3, <1>4

(* The run row as a driver takes it over.                                     *)
BeginRow == IF driver.at = "resume" THEN AfterResume(run) ELSE run

LEMMA BeginRowIs ==
  ASSUME WorkInv, ~Ended
  PROVE  /\ BeginRow \in Run /\ BeginRow.status \notin Terminal
         /\ BeginRow.status \in {"draining", "paused"} => BeginRow.pausing
         /\ BeginRow.pausing => BeginRow.status \in {"draining", "paused"}
         /\ BeginRow.status = "queued" => Active = {}
<1>1. CASE driver.at = "resume"
  <2>1. BeginRow = AfterResume(run)
    BY <1>1 DEF BeginRow
  <2>2. /\ BeginRow \in Run /\ ~BeginRow.pausing
        /\ BeginRow.status \in {"queued", "running"}
        /\ BeginRow.status = "queued" => run.status = "queued"
    BY <2>1, ResumeRun DEF WorkInv
  <2>3. run.status = "queued" => Active = {}
    BY DEF WorkInv, RunKept
  <2> QED BY <2>2, <2>3 DEF Terminal
<1>2. CASE driver.at # "resume"
  BY <1>2 DEF BeginRow, WorkInv, TypeOK, RunKept, Ended
<1> QED BY <1>1, <1>2

(* What Begin does: it stops, cancels, or starts with the frontier of what    *)
(* still runs, or else with the first node of the order.                      *)
Starts ==
  /\ BeginRow.status # "paused" /\ run' = BeginRow
  /\ IF Active \cap shared = {}
       THEN driver' = After(NoNode) /\ UNCHANGED task
       ELSE /\ driver' = [at |-> "frontier", node |-> NoNode,
                          team |-> Active \cap shared, saw |-> BeginRow.pausing]
            /\ Launch(Active \cap shared)
  /\ UNCHANGED <<node, segment>>

LEMMA FrontierPlace ==
  ASSUME NEW team, NEW saw,
         driver' = [Off EXCEPT !.at = "frontier", !.team = team, !.saw = saw]
  PROVE  driver' = [at |-> "frontier", node |-> NoNode, team |-> team,
                    saw |-> saw]
BY DEF Off

LEMMA BeginIs ==
  ASSUME Begin
  PROVE  /\ driver.at \in {"start", "resume"}
         /\ UNCHANGED <<plan, shared, leaf, point, parked, receipts, sent, lost>>
         /\ \/ /\ Ended \/ BeginRow.status = "paused"
               /\ StopDriver /\ UNCHANGED <<run, node, segment>>
            \/ /\ ~Ended /\ StopDriver /\ BeginRow.cancel
               /\ Finish([BeginRow EXCEPT !.status = "cancelled"], Publishable)
            \/ ~Ended /\ Starts
<1> DEFINE team == Active \cap shared
<1>1. /\ driver.at \in {"start", "resume"}
      /\ UNCHANGED <<plan, shared, leaf, point, parked, receipts, sent, lost>>
  BY DEF Begin
<1>2. CASE Ended \/ BeginRow.status = "paused"
  BY <1>1, <1>2 DEF Begin, BeginRow
<1>3. CASE ~Ended /\ BeginRow.status # "paused" /\ BeginRow.cancel /\ Active # {}
  BY <1>1, <1>3 DEF Begin, BeginRow
<1>4. CASE ~Ended /\ BeginRow.status # "paused" /\ ~ (BeginRow.cancel /\ Active # {})
  <2>1. /\ run' = BeginRow
        /\ IF team = {}
             THEN driver' = After(NoNode) /\ UNCHANGED task
             ELSE /\ driver' = [Off EXCEPT !.at = "frontier", !.team = team,
                                           !.saw = BeginRow.pausing]
                  /\ Launch(team)
        /\ UNCHANGED <<node, segment>>
    BY <1>4 DEF Begin, BeginRow
  <2>2. team # {} =>
          driver' = [at |-> "frontier", node |-> NoNode, team |-> team,
                     saw |-> BeginRow.pausing]
    BY <2>1, FrontierPlace
  <2> QED BY <1>1, <1>4, <2>1, <2>2 DEF Starts
<1> QED BY <1>2, <1>3, <1>4

LEMMA WorkBegin ==
  ASSUME WorkInv, Begin
  PROVE  WorkInv'
<1>1. /\ driver.at \in {"start", "resume"}
      /\ UNCHANGED <<plan, shared, leaf, point, parked, receipts, sent, lost>>
  BY BeginIs
<1>2. CASE StopDriver /\ UNCHANGED <<run, node, segment>>
  <2>1. /\ driver' \in Driver /\ driver'.team = {}
        /\ driver'.at \notin TeamAt \cup {"drive", "pick"}
    BY <1>2, OffRests DEF StopDriver
  <2>2. task' \in [Nodes -> Drive] /\ \A n \in Nodes : task'[n].at = "off"
    BY <1>2, IdleTasks DEF StopDriver
  <2>3. DriverKept' /\ TasksKept' /\ TeamKept'
    BY <2>1, <2>2, RestKept
  <2> QED BY <1>1, <1>2, <2>1, <2>2, <2>3, WorkSame DEF durable, WorkInv, TypeOK
<1>3. CASE /\ ~Ended /\ StopDriver
           /\ Finish([BeginRow EXCEPT !.status = "cancelled"], Publishable)
  <2>1. /\ [BeginRow EXCEPT !.status = "cancelled"] \in Run
        /\ [BeginRow EXCEPT !.status = "cancelled"].status = "cancelled"
    BY <1>3, BeginRowIs DEF Run, Terminal
  <2> QED BY <1>1, <1>3, <2>1, FinishStops
<1>4. CASE ~Ended /\ Starts
  <2>1. /\ run' = BeginRow /\ UNCHANGED <<node, segment>>
        /\ BeginRow \in Run /\ BeginRow.status \notin Terminal
        /\ BeginRow.status \in {"draining", "paused"} => BeginRow.pausing
        /\ BeginRow.pausing => BeginRow.status \in {"draining", "paused"}
        /\ BeginRow.status = "queued" => Active = {}
    BY <1>4, BeginRowIs DEF Starts
  <2>2. NodesKept' /\ RunKept' /\ Active' = Active /\ ~Ended'
    BY <1>1, <1>4, <2>1, RowBooks
  <2>3. /\ driver' \in Driver /\ task' \in [Nodes -> Drive]
        /\ driver'.team \subseteq Active \cap shared
        /\ DriverKept' /\ TasksKept' /\ TeamKept'
    <3>1. CASE Active \cap shared = {}
      <4>1. driver' = After(NoNode) /\ UNCHANGED task
        BY <1>4, <3>1 DEF Starts
      <4>2. /\ driver' \in Driver /\ driver'.team = {}
            /\ driver'.at \notin TeamAt \cup {"drive"}
            /\ driver'.at = "pick" => driver'.node \in Nodes
        BY <4>1, AfterRests
      <4>3. task' \in [Nodes -> Drive] /\ \A n \in Nodes : task'[n].at = "off"
        BY <1>1, <4>1 DEF WorkInv, TypeOK, DriverKept, TeamAt
      <4> QED BY <4>2, <4>3, RestKept
    <3>2. CASE Active \cap shared # {}
      <4> DEFINE team == Active \cap shared
      <4>1. /\ driver' = [at |-> "frontier", node |-> NoNode, team |-> team,
                          saw |-> BeginRow.pausing]
            /\ Launch(team) /\ team # {} /\ team \in SUBSET Nodes
        BY <1>4, <3>2 DEF Starts, Active
      <4>2. BeginRow.pausing \in BOOLEAN
        BY <2>1 DEF Run
      <4>3. driver' \in Driver /\ DriverKept' /\ TasksKept'
        <5> HIDE DEF team
        <5> QED BY <4>1, <4>2, FrontierBegins
      <4>4. task' \in [Nodes -> Drive]
        BY <4>1, LaunchIs
      <4>5. Active \subseteq team
        BY <3>2 DEF WorkInv, Together
      <4>6. TeamKept'
        BY <2>1, <2>2, <4>1, <4>5 DEF TeamKept, Active
      <4> QED BY <4>1, <4>3, <4>4, <4>6
    <3> QED BY <3>1, <3>2
  <2>4. Together'
    BY <1>1, <2>2, <2>3 DEF WorkInv, Together
  <2>5. TypeOK'
    BY <1>1, <2>1, <2>3 DEF WorkInv, TypeOK
  <2> QED BY <2>2, <2>3, <2>4, <2>5 DEF WorkInv
<1> QED BY <1>2, <1>3, <1>4, BeginIs

(* What Pick does.                                                            *)
Skips(n) ==
  /\ driver' = After(n) /\ UNCHANGED <<task, lost>>
  /\ node[n] = "completed" \/ (node[n] = "queued" /\ run.status = "draining")

Gathers(n) ==
  /\ run.status \in {"queued", "running"} /\ Active = {}
  /\ node[n] # "completed" /\ n \in Frontier(n)
  /\ Frontier(n) \subseteq {m \in Nodes : node[m] = "queued"} \cap plan.readers
  /\ \A m \in Frontier(n) : Ready(m)
  /\ driver' = [at |-> "frontier", node |-> n, team |-> Frontier(n),
                saw |-> run.pausing]
  /\ Launch(Frontier(n)) /\ UNCHANGED lost

TakesUp(n) ==
  /\ node[n] # "completed" /\ ~ (node[n] = "queued" /\ run.status = "draining")
  /\ node[n] = "queued" => Ready(n)
  /\ driver' = [at |-> "drive", node |-> n, team |-> {}, saw |-> run.pausing]
  /\ Launch({n}) /\ UNCHANGED lost

LEMMA PickIs ==
  ASSUME WorkInv, NEW n \in Nodes, Pick(n)
  PROVE  /\ driver.at = "pick" /\ driver.node = n /\ UNCHANGED durable
         /\ \/ /\ Ended \/ run.status = "paused"
               /\ driver' = [Off EXCEPT !.at = "end"] /\ UNCHANGED <<task, lost>>
            \/ StopDriver /\ lost' = TRUE
            \/ /\ ~Ended /\ run.status # "paused"
               /\ Skips(n) \/ Gathers(n) \/ TakesUp(n)
<1> DEFINE team == Frontier(n)
           started == [Off EXCEPT !.node = n, !.saw = run.pausing]
<1>1. driver.at = "pick" /\ driver.node = n /\ UNCHANGED durable
  BY DEF Pick
<1>2. CASE Ended \/ run.status = "paused"
  BY <1>1, <1>2 DEF Pick
<1>3. CASE /\ ~ (Ended \/ run.status = "paused") /\ node[n] = "completed"
  BY <1>1, <1>3 DEF Pick, Skips
<1>4. CASE /\ ~ (Ended \/ run.status = "paused") /\ node[n] # "completed"
           /\ Cardinality(team) > 1
  <2>1. /\ driver' = [started EXCEPT !.at = "frontier", !.team = team]
        /\ Launch(team) /\ UNCHANGED lost
    BY <1>4 DEF Pick
  <2>2. driver' = [at |-> "frontier", node |-> n, team |-> team,
                   saw |-> run.pausing]
    <3> HIDE DEF team
    <3> QED BY <2>1 DEF Off
  <2>3. team # {}
    BY <1>4, FS_EmptySet
  <2>4. /\ run.status \in {"queued", "running"} /\ Active = {} /\ n \in team
        /\ \A m \in team : /\ m \in Nodes /\ node[m] = "queued" /\ Ready(m)
                           /\ m \in plan.readers
    <3> HIDE DEF team
    <3>1. \A m \in team :
            /\ run.status \in {"queued", "running"} /\ Active = {}
            /\ m \in Nodes /\ node[m] = "queued" /\ Ready(m) /\ m \in plan.readers
            /\ n \in team
      BY <1>4, FrontierOf DEF team
    <3> QED BY <2>3, <3>1
  <2> QED BY <1>1, <1>4, <2>1, <2>2, <2>4 DEF Gathers
<1>5. CASE /\ ~ (Ended \/ run.status = "paused") /\ node[n] # "completed"
           /\ ~ (Cardinality(team) > 1)
           /\ node[n] = "queued" /\ run.status = "draining"
  BY <1>1, <1>5 DEF Pick, Skips
<1>6. CASE /\ ~ (Ended \/ run.status = "paused") /\ node[n] # "completed"
           /\ ~ (Cardinality(team) > 1)
           /\ ~ (node[n] = "queued" /\ run.status = "draining")
  <2>1. CASE node[n] = "queued" /\ ~Ready(n)
    BY <1>1, <1>6, <2>1 DEF Pick
  <2>2. CASE ~ (node[n] = "queued" /\ ~Ready(n))
    <3>1. driver' = [started EXCEPT !.at = "drive"] /\ Launch({n}) /\ UNCHANGED lost
      BY <1>6, <2>2 DEF Pick
    <3>2. driver' = [at |-> "drive", node |-> n, team |-> {}, saw |-> run.pausing]
      BY <3>1 DEF Off
    <3> QED BY <1>1, <1>6, <2>2, <3>1, <3>2 DEF TakesUp
  <2> QED BY <2>1, <2>2
<1> QED BY <1>2, <1>3, <1>4, <1>5, <1>6

LEMMA WorkPick ==
  ASSUME WorkInv, NEW n \in Nodes, Pick(n)
  PROVE  WorkInv'
<1>1. driver.at = "pick" /\ driver.node = n /\ UNCHANGED durable
  BY PickIs
<1>2. task \in [Nodes -> Drive] /\ lost \in BOOLEAN /\ run.pausing \in BOOLEAN
  BY DEF WorkInv, TypeOK, Run
<1>3. \A m \in Nodes : task[m].at = "off"
  BY <1>1 DEF WorkInv, DriverKept, TeamAt
<1>4. CASE driver' = [Off EXCEPT !.at = "end"] /\ UNCHANGED <<task, lost>>
  <2>1. driver' = [at |-> "end", node |-> NoNode, team |-> {}, saw |-> FALSE]
    BY <1>4 DEF Off
  <2>2. /\ driver' \in Driver /\ driver'.team = {}
        /\ driver'.at \notin TeamAt \cup {"drive", "pick"}
    BY <2>1, OffRests
  <2> QED BY <1>1, <1>2, <1>3, <1>4, <2>2, RestKept, WorkSame
<1>5. CASE StopDriver /\ lost' = TRUE
  <2>1. /\ driver' \in Driver /\ driver'.team = {}
        /\ driver'.at \notin TeamAt \cup {"drive", "pick"}
    BY <1>5, OffRests DEF StopDriver
  <2>2. task' \in [Nodes -> Drive] /\ \A m \in Nodes : task'[m].at = "off"
    BY <1>5, IdleTasks DEF StopDriver
  <2> QED BY <1>1, <1>5, <2>1, <2>2, RestKept, WorkSame
<1>6. CASE Skips(n)
  <2>1. driver' = After(n) /\ UNCHANGED <<task, lost>>
    BY <1>6 DEF Skips
  <2>2. /\ driver' \in Driver /\ driver'.team = {}
        /\ driver'.at \notin TeamAt \cup {"drive"}
        /\ driver'.at = "pick" => driver'.node \in Nodes
    BY <2>1, AfterRests
  <2> QED BY <1>1, <1>2, <1>3, <2>1, <2>2, RestKept, WorkSame
<1>7. CASE ~Ended /\ Gathers(n)
  <2> DEFINE team == Frontier(n)
  <2>1. /\ team \in SUBSET Nodes /\ n \in team /\ Active = {}
        /\ \A m \in team : node[m] = "queued" /\ m \in plan.readers
        /\ driver' = [at |-> "frontier", node |-> n, team |-> team,
                      saw |-> run.pausing]
        /\ Launch(team) /\ UNCHANGED lost
    BY <1>7 DEF Gathers
  <2> HIDE DEF team
  <2>2. driver' \in Driver /\ DriverKept' /\ TasksKept'
    BY <1>2, <2>1, FrontierBegins
  <2>3. task' \in [Nodes -> Drive]
    BY <2>1, LaunchIs
  <2>4. node' = node /\ Active' = {} /\ ~Ended'
    BY <1>1, <1>7, <2>1 DEF durable, Active, Ended
  <2>5. TeamKept'
    BY <2>1, <2>4 DEF TeamKept
  <2> QED BY <1>1, <1>2, <2>1, <2>2, <2>3, <2>5, WorkSame
<1>8. CASE TakesUp(n)
  <2>1. /\ driver' = [at |-> "drive", node |-> n, team |-> {}, saw |-> run.pausing]
        /\ Launch({n}) /\ UNCHANGED lost
    BY <1>8 DEF TakesUp
  <2>2. /\ task' \in [Nodes -> Drive]
        /\ \A m \in Nodes : task'[m].at = IF m = n THEN "start" ELSE "off"
    BY <2>1, LaunchIs
  <2>3. driver' \in Driver
    BY <1>2, <2>1 DEF Driver
  <2>4. DriverKept'
    BY <2>1, <2>2 DEF DriverKept, TeamAt
  <2>5. TasksKept' /\ TeamKept'
    BY <2>1, <2>2 DEF TasksKept, TeamKept, InTurn, TeamAt
  <2> QED BY <1>1, <1>2, <2>1, <2>2, <2>3, <2>4, <2>5, WorkSame
<1> QED BY <1>4, <1>5, <1>6, <1>7, <1>8, PickIs

(* A drive in progress is of the node or of the team that is driven.          *)
LEMMA DrivenBy ==
  ASSUME WorkInv, NEW n \in Nodes,
         task[n].at \in {"start", "turn", "again", "ended"}
  PROVE  \/ driver.at = "drive" /\ driver.node = n
         \/ driver.at = "frontier" /\ n \in driver.team
BY DEF WorkInv, DriverKept, TasksKept, TeamAt

(* One drive moves on: its Turn begins or ends, or it finds none to begin.    *)
LEMMA DriveMoves ==
  ASSUME WorkInv, NEW n \in Nodes, UNCHANGED driver,
         task[n].at \in {"start", "turn", "again"},
         NEW d \in Drive, d.at \in {"turn", "again", "ended"},
         task' = [task EXCEPT ![n] = d],
         d.at \in {"turn", "again"} <=> leaf'[n] = "open",
         \A m \in Nodes \ {n} : leaf'[m] = leaf[m]
  PROVE  DriverKept' /\ TasksKept' /\ task' \in [Nodes -> Drive]
<1>1. \/ driver.at = "drive" /\ driver.node = n
      \/ driver.at = "frontier" /\ n \in driver.team
  BY DrivenBy
<1>2. task' \in [Nodes -> Drive] /\ task'[n] = d
      /\ \A m \in Nodes \ {n} : task'[m] = task[m]
  BY DEF WorkInv, TypeOK
<1>3. DriverKept'
  BY <1>1, <1>2 DEF WorkInv, DriverKept, TeamAt
<1>4. driver.team \subseteq Nodes
  BY DEF WorkInv, TypeOK, Driver
<1>5. TasksKept'
  BY <1>1, <1>2, <1>4 DEF WorkInv, TasksKept, InTurn
<1> QED BY <1>2, <1>3, <1>5

(* A drive that ends without a Turn changes nothing else.                     *)
LEMMA WorkEnds ==
  ASSUME WorkInv, NEW n \in Nodes, Starting(n), leaf[n] # "open",
         NEW error \in {"none", "paused", "reused", "other"}, Ends(n, error),
         UNCHANGED durable, UNCHANGED <<driver, lost>>
  PROVE  WorkInv'
<1> DEFINE d == [at |-> "ended", error |-> error]
<1>1. d \in Drive /\ d.at = "ended" /\ task' = [task EXCEPT ![n] = d]
  BY DEF Drive, Ends
<1>2. task[n].at = "start" /\ leaf' = leaf /\ driver' = driver
  BY DEF Starting, durable
<1>3. DriverKept' /\ TasksKept' /\ task' \in [Nodes -> Drive]
  <2> HIDE DEF d
  <2> QED BY <1>1, <1>2, DriveMoves
<1>4. TeamKept'
  BY DEF WorkInv, TeamKept, durable, Active, Ended
<1>5. driver' \in Driver /\ lost' \in BOOLEAN /\ driver'.team \subseteq plan.readers
  BY DEF WorkInv, TypeOK, Together
<1> QED BY <1>3, <1>4, <1>5, WorkSame

(* What Admit does.                                                           *)
Admits(n) ==
  /\ ~run.pausing /\ run.status \in {"queued", "running"}
  /\ Active = {} \/ (n \in driver.team /\ Active \subseteq shared)
  /\ node' = [node EXCEPT ![n] = "running"]
  /\ leaf' = [leaf EXCEPT ![n] = "open"]
  /\ segment' = [segment EXCEPT ![n] = "active"]
  /\ shared' = IF n \in driver.team THEN shared \cup {n} ELSE shared
  /\ run' = [run EXCEPT !.status = "running"]
  /\ task' = [task EXCEPT ![n].at = "turn"]
  /\ UNCHANGED <<plan, point, parked, receipts, sent, driver, lost>>

LEMMA AdmitIs ==
  ASSUME NEW n \in Nodes, Admit(n)
  PROVE  /\ Starting(n) /\ node[n] = "queued"
         /\ \/ /\ run.pausing \/ run.status \notin {"queued", "running"}
               /\ Ends(n, "paused") /\ UNCHANGED durable
               /\ UNCHANGED <<driver, lost>>
            \/ /\ ~run.pausing /\ run.status \in {"queued", "running"}
               /\ Active # {} /\ (n \notin driver.team \/ ~ (Active \subseteq shared))
               /\ Ends(n, "other") /\ UNCHANGED durable
               /\ UNCHANGED <<driver, lost>>
            \/ Admits(n)
BY DEF Admit, Admits, durable

(* An admitted node: its first Turn is open, alone or among readers.          *)
LEMMA WorkAdmits ==
  ASSUME WorkInv, NEW n \in Nodes, Starting(n), node[n] = "queued", Admits(n)
  PROVE  WorkInv'
<1> DEFINE d == [task[n] EXCEPT !.at = "turn"]
<1>1. /\ ~run.pausing /\ run.status \in {"queued", "running"}
      /\ Active = {} \/ (n \in driver.team /\ Active \subseteq shared)
      /\ node' = [node EXCEPT ![n] = "running"]
      /\ leaf' = [leaf EXCEPT ![n] = "open"]
      /\ segment' = [segment EXCEPT ![n] = "active"]
      /\ shared' = IF n \in driver.team THEN shared \cup {n} ELSE shared
      /\ run' = [run EXCEPT !.status = "running"]
      /\ task' = [task EXCEPT ![n].at = "turn"]
      /\ UNCHANGED <<plan, point, parked, receipts, sent, driver, lost>>
  BY DEF Admits
<1>2. /\ run' \in Run /\ run'.status = "running" /\ ~run'.pausing
      /\ ~Ended /\ ~Ended'
  BY <1>1 DEF WorkInv, TypeOK, Run, Ended, Terminal
<1>3. /\ node' \in [Nodes -> {"queued", "running"} \cup Terminal]
      /\ leaf' \in [Nodes -> {"new", "open", "interrupted", "ready", "failed",
                              "cancelled"}]
      /\ segment' \in [Nodes -> {"none", "active", "interrupted", "completed"}]
      /\ node'[n] = "running" /\ leaf'[n] = "open" /\ segment'[n] = "active"
      /\ \A m \in Nodes \ {n} : /\ node'[m] = node[m] /\ leaf'[m] = leaf[m]
                                /\ segment'[m] = segment[m]
  BY <1>1 DEF WorkInv, TypeOK
<1>4. Active' = Active \cup {n} /\ n \notin Active
  BY <1>3 DEF Active
<1>5. d \in Drive /\ d.at = "turn" /\ task' = [task EXCEPT ![n] = d]
  <2>1. task[n] \in Drive
    BY DEF WorkInv, TypeOK
  <2> QED BY <1>1, <2>1 DEF Drive
<1>6. DriverKept' /\ TasksKept' /\ task' \in [Nodes -> Drive]
  <2>1. /\ task[n].at = "start" /\ UNCHANGED driver /\ leaf'[n] = "open"
        /\ \A m \in Nodes \ {n} : leaf'[m] = leaf[m]
    BY <1>1, <1>3 DEF Starting
  <2> HIDE DEF d
  <2> QED BY <1>5, <2>1, DriveMoves
<1>7. TypeOK'
  BY <1>1, <1>2, <1>3, <1>6 DEF WorkInv, TypeOK
<1>8. NodesKept'
  <2>1. ASSUME NEW m \in Nodes
        PROVE  /\ m \in Active' => leaf'[m] # "new" /\ segment'[m] # "none"
               /\ node'[m] = "completed" => leaf'[m] = "ready"
               /\ node'[m] \notin {"failed", "cancelled"}
               /\ leaf'[m] = "open" => segment'[m] = "active"
               /\ segment'[m] = "active" => node'[m] = "running"
    <3>1. CASE m = n
      BY <1>3, <3>1
    <3>2. CASE m # n
      BY <1>2, <1>3, <1>4, <3>2 DEF WorkInv, NodesKept
    <3> QED BY <3>1, <3>2
  <2>2. Active' \subseteq Nodes
    BY DEF Active
  <2> QED BY <2>1, <2>2 DEF NodesKept
<1>9. RunKept'
  BY <1>2 DEF RunKept, Terminal
<1>10. Together'
  <2>1. shared' \subseteq plan.readers /\ driver'.team \subseteq plan.readers
    BY <1>1 DEF WorkInv, Together
  <2>2. \A l, m \in Active' : l # m => {l, m} \subseteq shared'
    BY <1>1, <1>4 DEF WorkInv, Together
  <2> QED BY <1>1, <2>1, <2>2 DEF Together
<1>11. TeamKept'
  <2>1. \/ driver.at = "drive" /\ driver.node = n
        \/ driver.at = "frontier" /\ n \in driver.team
    BY DrivenBy DEF Starting
  <2>2. driver.team \subseteq Nodes
    BY DEF WorkInv, TypeOK, Driver
  <2> QED BY <1>1, <1>2, <1>3, <1>4, <2>1, <2>2 DEF WorkInv, TeamKept, TeamAt
<1> QED BY <1>6, <1>7, <1>8, <1>9, <1>10, <1>11 DEF WorkInv

LEMMA WorkAdmit ==
  ASSUME WorkInv, NEW n \in Nodes, Admit(n)
  PROVE  WorkInv'
<1>1. Starting(n) /\ node[n] = "queued" /\ leaf[n] # "open"
  BY AdmitIs DEF WorkInv, TypeOK
<1>2. CASE \E error \in {"paused", "other"} :
             Ends(n, error) /\ UNCHANGED durable /\ UNCHANGED <<driver, lost>>
  BY <1>1, <1>2, WorkEnds
<1>3. CASE Admits(n)
  BY <1>1, <1>3, WorkAdmits
<1> QED BY <1>2, <1>3, AdmitIs

LEMMA WorkReopen ==
  ASSUME WorkInv, NEW n \in Nodes, Reopen(n)
  PROVE  WorkInv'
<1> DEFINE d == [task[n] EXCEPT !.at = "turn"]
<1>1. /\ Starting(n) /\ leaf[n] = "open" /\ task' = [task EXCEPT ![n].at = "turn"]
      /\ UNCHANGED <<durable, driver, lost>>
  BY DEF Reopen
<1>2. d \in Drive /\ d.at = "turn" /\ task' = [task EXCEPT ![n] = d]
  <2>1. task[n] \in Drive
    BY DEF WorkInv, TypeOK
  <2> QED BY <1>1, <2>1 DEF Drive
<1>3. task[n].at = "start" /\ leaf' = leaf
  BY <1>1 DEF Starting, durable
<1>4. DriverKept' /\ TasksKept' /\ task' \in [Nodes -> Drive]
  <2> HIDE DEF d
  <2> QED BY <1>1, <1>2, <1>3, DriveMoves
<1>5. TeamKept'
  BY <1>1 DEF WorkInv, TeamKept, durable, Active, Ended
<1> QED BY <1>1, <1>4, <1>5, WorkSame DEF WorkInv, TypeOK, Together

LEMMA WorkLeave ==
  ASSUME WorkInv, NEW n \in Nodes, Leave(n)
  PROVE  WorkInv'
<1>1. /\ Starting(n) /\ leaf[n] # "open" /\ Ends(n, "none")
      /\ UNCHANGED <<durable, driver, lost>>
  BY DEF Leave
<1> QED BY <1>1, WorkEnds

(* What Continue does.                                                        *)
Continued(n) ==
  /\ ~run.pausing /\ run.status \in {"queued", "running"}
  /\ leaf' = [leaf EXCEPT ![n] = "open"]
  /\ segment' = [segment EXCEPT ![n] = "active"]
  /\ point' = IF point.life = "resumed" THEN point
              ELSE [point EXCEPT !.life = "resumed", !.taken = TRUE]
  /\ receipts' = IF OwnReceipt(n)
                   THEN [receipts EXCEPT ![point.command].own = @ \cup {n}]
                   ELSE [receipts EXCEPT ![point.command].first = n]
  /\ task' = [task EXCEPT ![n].at = "again"]
  /\ UNCHANGED <<plan, run, node, shared, parked, sent, driver, lost>>

LEMMA ContinueIs ==
  ASSUME NEW n \in Nodes, Continue(n)
  PROVE  /\ Starting(n) /\ node[n] = "running" /\ leaf[n] = "interrupted"
         /\ ~driver.saw /\ Continues(n)
         /\ \/ /\ \E error \in {"paused", "reused"} : Ends(n, error)
               /\ UNCHANGED durable /\ UNCHANGED <<driver, lost>>
            \/ Continued(n)
BY DEF Continue, Continued, durable

LEMMA WorkContinue ==
  ASSUME WorkInv, NEW n \in Nodes, Continue(n)
  PROVE  WorkInv'
<1>1. Starting(n) /\ node[n] = "running" /\ leaf[n] = "interrupted"
  BY ContinueIs
<1>2. CASE /\ \E error \in {"paused", "reused"} : Ends(n, error)
           /\ UNCHANGED durable /\ UNCHANGED <<driver, lost>>
  BY <1>1, <1>2, WorkEnds
<1>3. CASE Continued(n)
  <2> DEFINE d == [task[n] EXCEPT !.at = "again"]
  <2>1. /\ leaf' = [leaf EXCEPT ![n] = "open"]
        /\ segment' = [segment EXCEPT ![n] = "active"]
        /\ task' = [task EXCEPT ![n].at = "again"]
        /\ UNCHANGED <<plan, run, node, shared, parked, sent, driver, lost>>
    BY <1>3 DEF Continued
  <2>2. /\ leaf' \in [Nodes -> {"new", "open", "interrupted", "ready", "failed",
                                "cancelled"}]
        /\ segment' \in [Nodes -> {"none", "active", "interrupted", "completed"}]
        /\ leaf'[n] = "open" /\ segment'[n] = "active"
        /\ \A m \in Nodes \ {n} : leaf'[m] = leaf[m] /\ segment'[m] = segment[m]
    BY <2>1 DEF WorkInv, TypeOK
  <2>3. d \in Drive /\ d.at = "again" /\ task' = [task EXCEPT ![n] = d]
    <3>1. task[n] \in Drive
      BY DEF WorkInv, TypeOK
    <3> QED BY <2>1, <3>1 DEF Drive
  <2>4. DriverKept' /\ TasksKept' /\ task' \in [Nodes -> Drive]
    <3>1. /\ task[n].at = "start" /\ UNCHANGED driver /\ leaf'[n] = "open"
          /\ \A m \in Nodes \ {n} : leaf'[m] = leaf[m]
      BY <1>1, <2>1, <2>2 DEF Starting
    <3> HIDE DEF d
    <3> QED BY <2>3, <3>1, DriveMoves
  <2>5. point' \in Point
    <3>1. point \in Point
      BY DEF WorkInv, TypeOK
    <3> QED BY <1>3, <3>1 DEF Continued, Point
  <2>6. receipts' \in [Commands -> Receipt]
    <3> DEFINE c == point.command
    <3>1. receipts \in [Commands -> Receipt]
      BY DEF WorkInv, TypeOK
    <3>2. receipts' = [receipts EXCEPT ![c].own = @ \cup {n}]
          \/ receipts' = [receipts EXCEPT ![c].first = n]
      BY <1>3 DEF Continued
    <3> HIDE DEF c
    <3> QED BY <3>1, <3>2 DEF Receipt
  <2>7. TypeOK'
    BY <1>1, <2>1, <2>2, <2>4, <2>5, <2>6 DEF WorkInv, TypeOK
  <2>8. Active' = Active /\ (Ended' <=> Ended) /\ (AllCompleted' <=> AllCompleted)
    BY <2>1 DEF Active, Ended, AllCompleted
  <2>9. NodesKept'
    BY <1>1, <2>1, <2>2, <2>8 DEF WorkInv, NodesKept, Active
  <2>10. RunKept' /\ Together'
    BY <2>1, <2>8 DEF WorkInv, RunKept, Together
  <2>11. TeamKept'
    <3>1. ~Ended
      BY <1>1 DEF WorkInv, RunKept, Ended, Active
    <3> QED BY <2>1, <2>8, <3>1 DEF WorkInv, TeamKept
  <2> QED BY <2>4, <2>7, <2>9, <2>10, <2>11 DEF WorkInv
<1> QED BY <1>2, <1>3, ContinueIs

LEMMA WorkEndTurn ==
  ASSUME WorkInv, NEW n \in Nodes, NEW last \in {"interrupted", "ready", "failed"},
         EndTurn(n, last)
  PROVE  WorkInv'
<1> DEFINE d == [at |-> "ended", error |-> "none"]
<1>1. /\ InTurn(n) /\ leaf' = [leaf EXCEPT ![n] = last]
      /\ parked' = parked \ {n} /\ task' = [task EXCEPT ![n] = d]
      /\ UNCHANGED <<plan, run, node, shared, segment, point, receipts, sent,
                     driver, lost>>
  BY DEF EndTurn, Ends
<1>2. leaf[n] = "open" /\ task[n].at \in {"turn", "again"}
  BY <1>1 DEF WorkInv, TasksKept, InTurn
<1>3. /\ leaf' \in [Nodes -> {"new", "open", "interrupted", "ready", "failed",
                              "cancelled"}]
      /\ leaf'[n] = last /\ \A m \in Nodes \ {n} : leaf'[m] = leaf[m]
  BY <1>1 DEF WorkInv, TypeOK
<1>4. d \in Drive /\ d.at = "ended"
  BY DEF Drive
<1>5. DriverKept' /\ TasksKept' /\ task' \in [Nodes -> Drive]
  <2> HIDE DEF d
  <2> QED BY <1>1, <1>2, <1>3, <1>4, DriveMoves
<1>6. node[n] # "queued" /\ node[n] # "completed"
  BY <1>2 DEF WorkInv, TypeOK, NodesKept
<1>7. TypeOK'
  BY <1>1, <1>3, <1>5, <1>6 DEF WorkInv, TypeOK
<1>8. Active' = Active /\ (Ended' <=> Ended) /\ (AllCompleted' <=> AllCompleted)
  BY <1>1 DEF Active, Ended, AllCompleted
<1>9. NodesKept'
  BY <1>1, <1>3, <1>6, <1>8 DEF WorkInv, NodesKept, Active
<1>10. RunKept' /\ Together'
  BY <1>1, <1>8 DEF WorkInv, RunKept, Together
<1>11. TeamKept'
  <2>1. Ended => \A m \in driver.team : driver.at = "frontier" => leaf'[m] = leaf[m]
    BY <1>2, <1>3 DEF WorkInv, TeamKept, TypeOK, Driver
  <2> QED BY <1>1, <1>8, <2>1 DEF WorkInv, TeamKept
<1> QED BY <1>5, <1>7, <1>9, <1>10, <1>11 DEF WorkInv

(* The types of what is durable.                                              *)
BooksTyped ==
  /\ plan \in Plans /\ run \in Run
  /\ node \in [Nodes -> {"queued", "running"} \cup Terminal]
  /\ shared \in SUBSET Nodes
  /\ leaf \in [Nodes -> {"new", "open", "interrupted", "ready", "failed",
                         "cancelled"}]
  /\ segment \in [Nodes -> {"none", "active", "interrupted", "completed"}]
  /\ point \in Point /\ parked \in SUBSET Nodes
  /\ receipts \in [Commands -> Receipt] /\ sent \in SUBSET Commands
  /\ run.status \in {"draining", "paused"} => run.pausing
  /\ \A n \in Nodes : node[n] = "queued" => leaf[n] = "new" /\ segment[n] = "none"

LEMMA TypedBooks ==
  TypeOK <=> /\ BooksTyped /\ driver \in Driver /\ task \in [Nodes -> Drive]
             /\ lost \in BOOLEAN
BY DEF TypeOK, BooksTyped

LEMMA TypedNext ==
  ASSUME BooksTyped', driver' \in Driver, task' \in [Nodes -> Drive],
         lost' \in BOOLEAN
  PROVE  TypeOK'
BY DEF TypeOK, BooksTyped

(* Nodes that complete while the run goes on.                                 *)
LEMMA CompleteBooks ==
  ASSUME WorkInv, NEW done \in SUBSET Nodes, \A n \in done : leaf[n] = "ready",
         Complete(done),
         UNCHANGED <<plan, run, shared, leaf, point, parked, receipts, sent>>
  PROVE  /\ BooksTyped' /\ NodesKept' /\ RunKept' /\ Active' = Active \ done
         /\ node' = [n \in Nodes |-> IF n \in done THEN "completed" ELSE node[n]]
<1>1. /\ node' = [n \in Nodes |-> IF n \in done THEN "completed" ELSE node[n]]
      /\ segment' = [n \in Nodes |->
           IF n \in done /\ segment[n] = "active" THEN "completed" ELSE segment[n]]
  BY DEF Complete
<1>2. /\ node' \in [Nodes -> {"queued", "running"} \cup Terminal]
      /\ segment' \in [Nodes -> {"none", "active", "interrupted", "completed"}]
  BY <1>1 DEF WorkInv, TypeOK, Terminal
<1>3. Active' = Active \ done /\ (Ended' <=> Ended)
  BY <1>1 DEF Active, Ended
<1>4. BooksTyped'
  <2>1. \A n \in Nodes : node'[n] = "queued" => leaf'[n] = "new" /\ segment'[n] = "none"
    BY <1>1 DEF WorkInv, TypeOK
  <2> QED BY <1>2, <2>1 DEF WorkInv, TypeOK, BooksTyped
<1>5. NodesKept'
  <2>1. ASSUME NEW n \in Nodes
        PROVE  /\ n \in Active' => leaf'[n] # "new" /\ segment'[n] # "none"
               /\ node'[n] = "completed" => leaf'[n] = "ready"
               /\ node'[n] \in {"failed", "cancelled"} => Ended'
               /\ leaf'[n] = "open" => segment'[n] = "active"
               /\ segment'[n] = "active" => node'[n] = "running" \/ Ended'
    <3>1. CASE n \in done
      BY <1>1, <1>3, <3>1
    <3>2. CASE n \notin done
      BY <1>1, <1>3, <3>2 DEF WorkInv, NodesKept
    <3> QED BY <3>1, <3>2
  <2>2. Active' \subseteq Nodes
    BY DEF Active
  <2> QED BY <2>1, <2>2 DEF NodesKept
<1>6. RunKept'
  <2>1. AllCompleted => AllCompleted'
    BY <1>1 DEF AllCompleted
  <2> QED BY <1>3, <2>1 DEF WorkInv, RunKept
<1> QED BY <1>1, <1>3, <1>4, <1>5, <1>6

(* A settled node: the books stay true, and no node starts to run.            *)
SettleFrame ==
  UNCHANGED <<plan, shared, leaf, receipts, sent>>

LEMMA SettleBooks ==
  ASSUME WorkInv, NEW n \in Nodes, SettleFrame,
         Kept(n) \/ Commits(n) \/ Parks(n) \/ Closes
  PROVE  /\ BooksTyped' /\ NodesKept' /\ RunKept' /\ Active' \subseteq Active
         /\ Ended => Ended'
<1>1. BooksTyped
  BY TypedBooks DEF WorkInv
<1>2. CASE Kept(n)
  <2>1. UNCHANGED <<plan, run, node, shared, leaf, segment>>
    BY <1>2 DEF Kept, SettleFrame
  <2>2. BooksTyped'
    BY <1>1, <1>2 DEF Kept, SettleFrame, BooksTyped
  <2> QED BY <2>1, <2>2, BooksSame
<1>3. CASE Commits(n)
  <2>1. /\ ~Ended /\ leaf[n] = "ready" /\ UNCHANGED <<point, parked>>
    BY <1>3 DEF Commits
  <2>2. CASE /\ \A m \in Nodes : m # n => node[m] = "completed"
             /\ Finish([run EXCEPT !.status = "completed"], {n})
    <3>1. /\ [run EXCEPT !.status = "completed"] \in Run
          /\ [run EXCEPT !.status = "completed"].status = "completed"
      BY DEF WorkInv, TypeOK, Run, Terminal
    <3>2. /\ run' = [run EXCEPT !.status = "completed"]
          /\ node' \in [Nodes -> Terminal] /\ Ended' /\ Active' = {}
          /\ segment' \in [Nodes -> {"none", "active", "interrupted", "completed"}]
          /\ NodesKept' /\ RunKept'
      BY <2>1, <2>2, <3>1, FinishBooks DEF Terminal, SettleFrame
    <3>3. BooksTyped'
      BY <1>1, <2>1, <3>1, <3>2 DEF SettleFrame, BooksTyped, Terminal
    <3> QED BY <3>2, <3>3
  <2>3. CASE Complete({n}) /\ UNCHANGED run
    <3>1. BooksTyped' /\ NodesKept' /\ RunKept' /\ Active' = Active \ {n}
      BY <2>1, <2>3, CompleteBooks DEF SettleFrame
    <3> QED BY <2>1, <3>1
  <2> QED BY <1>3, <2>2, <2>3 DEF Commits
<1>4. CASE Parks(n)
  <2>1. /\ ~Ended /\ leaf[n] \in {"interrupted", "new"}
        /\ run' = run \/ run' = AfterPause(run, Active)
        /\ point' \in Point /\ parked' \in SUBSET Nodes
        /\ segment' = IF segment[n] = "active"
                        THEN [segment EXCEPT ![n] = "interrupted"] ELSE segment
        /\ UNCHANGED node
    BY <1>4 DEF Parks
  <2>2. /\ run' \in Run /\ run'.status \notin Terminal
        /\ run'.status \in {"draining", "paused"} => run'.pausing
        /\ run'.pausing => run'.status \in {"draining", "paused"}
        /\ run'.status = "queued" => Active = {}
    <3>1. CASE run' = run
      BY <2>1, <3>1 DEF WorkInv, TypeOK, RunKept, Ended
    <3>2. CASE run' = AfterPause(run, Active)
      BY <2>1, <3>2, PauseRun DEF WorkInv, Terminal
    <3> QED BY <2>1, <3>1, <3>2
  <2>3. Active' = Active /\ ~Ended'
    BY <2>1, <2>2 DEF Active, Ended
  <2>4. /\ segment' \in [Nodes -> {"none", "active", "interrupted", "completed"}]
        /\ \A m \in Nodes : \/ segment'[m] = segment[m]
                            \/ /\ m = n /\ segment[m] = "active"
                               /\ segment'[m] = "interrupted"
    BY <1>1, <2>1 DEF BooksTyped
  <2>5. BooksTyped'
    <3>1. \A m \in Nodes : node'[m] = "queued" => leaf'[m] = "new" /\ segment'[m] = "none"
      BY <1>1, <2>1, <2>4 DEF BooksTyped, SettleFrame
    <3> QED BY <1>1, <2>1, <2>2, <2>4, <3>1 DEF BooksTyped, SettleFrame
  <2>6. NodesKept'
    BY <2>1, <2>3, <2>4 DEF WorkInv, NodesKept, SettleFrame
  <2>7. RunKept'
    BY <2>2, <2>3 DEF RunKept, Terminal
  <2> QED BY <2>1, <2>3, <2>5, <2>6, <2>7
<1>5. CASE Closes
  <2> DEFINE r(s) == [run EXCEPT !.status = s]
  <2>1. PICK s \in {"failed", "cancelled"} : Finish(r(s), {})
    BY <1>5 DEF Closes, Close
  <2>2. r(s) \in Run /\ r(s).status = s
    BY DEF WorkInv, TypeOK, Run, Terminal
  <2>3. /\ run' = r(s) /\ node' \in [Nodes -> Terminal] /\ Ended' /\ Active' = {}
        /\ segment' \in [Nodes -> {"none", "active", "interrupted", "completed"}]
        /\ NodesKept' /\ RunKept'
    <3> HIDE DEF r
    <3> QED BY <2>1, <2>2, FinishBooks DEF Terminal, SettleFrame
  <2>4. BooksTyped'
    <3> HIDE DEF r
    <3> QED BY <1>1, <1>5, <2>2, <2>3 DEF Closes, SettleFrame, BooksTyped, Terminal
  <2> QED BY <2>3, <2>4
<1> QED BY <1>2, <1>3, <1>4, <1>5

LEMMA WorkSettleSerial ==
  ASSUME WorkInv, NEW n \in Nodes, SettleSerial(n)
  PROVE  WorkInv'
<1>1. /\ driver.at = "drive" /\ driver.node = n /\ driver' = After(n)
      /\ task' = [task EXCEPT ![n] = Idle] /\ SettleFrame /\ UNCHANGED lost
  BY DEF SettleSerial, SettleFrame
<1>2. Kept(n) \/ Commits(n) \/ Parks(n) \/ Closes
  <2>1. CASE /\ run.status = "running"
             /\ Close("failed") /\ UNCHANGED <<point, parked>>
    BY <2>1 DEF Closes, Ended, Terminal
  <2>2. CASE Settle(n)
    BY <2>2, SettleIs DEF WorkInv
  <2> QED BY <2>1, <2>2 DEF SettleSerial
<1>3. BooksTyped' /\ NodesKept' /\ RunKept' /\ Active' \subseteq Active
  BY <1>1, <1>2, SettleBooks
<1>4. /\ driver' \in Driver /\ driver'.team = {}
      /\ driver'.at \notin TeamAt \cup {"drive"}
      /\ driver'.at = "pick" => driver'.node \in Nodes
  BY <1>1, AfterRests
<1>5. task' \in [Nodes -> Drive] /\ \A m \in Nodes : task'[m].at = "off"
  <2>1. \A m \in Nodes \ {n} : task[m].at = "off"
    BY <1>1 DEF WorkInv, DriverKept, TeamAt
  <2>2. task \in [Nodes -> Drive] /\ Idle \in Drive /\ Idle.at = "off"
    BY DEF WorkInv, TypeOK, Idle, Drive
  <2> QED BY <1>1, <2>1, <2>2
<1>6. DriverKept' /\ TasksKept' /\ TeamKept'
  BY <1>4, <1>5, RestKept
<1>7. Together'
  BY <1>1, <1>3, <1>4 DEF WorkInv, Together, SettleFrame
<1>8. TypeOK'
  <2>1. lost' \in BOOLEAN
    BY <1>1 DEF WorkInv, TypeOK
  <2> QED BY <1>3, <1>4, <1>5, <2>1, TypedNext
<1> QED BY <1>3, <1>6, <1>7, <1>8 DEF WorkInv

(* The tasks that are joined.                                                 *)
LEMMA JoinsIs ==
  ASSUME TypeOK, NEW ended, Joins(ended)
  PROVE  /\ task' \in [Nodes -> Drive]
         /\ \A n \in Nodes : task'[n].at = IF n \in ended THEN "joined" ELSE task[n].at
<1>1. task' = [n \in Nodes |-> IF n \in ended THEN [task[n] EXCEPT !.at = "joined"]
                                              ELSE task[n]]
  BY DEF Joins
<1>2. \A n \in Nodes : /\ task[n] \in Drive
                       /\ [task[n] EXCEPT !.at = "joined"] \in Drive
                       /\ [task[n] EXCEPT !.at = "joined"].at = "joined"
  BY DEF TypeOK, Drive
<1> QED BY <1>1, <1>2

LEMMA JoinsKept ==
  ASSUME WorkInv, driver.at = "frontier", NEW ended \in SUBSET driver.team,
         Joins(ended), UNCHANGED driver,
         \A n \in Nodes : task[n].at # "off" /\ n \notin ended => leaf'[n] = leaf[n]
  PROVE  DriverKept' /\ TasksKept'
<1>1. \A n \in Nodes : task'[n].at = IF n \in ended THEN "joined" ELSE task[n].at
  BY JoinsIs DEF WorkInv
<1>2. driver.team \subseteq Nodes
  BY DEF WorkInv, TypeOK, Driver
<1>3. DriverKept'
  BY <1>1, <1>2 DEF WorkInv, DriverKept, TeamAt
<1>4. TasksKept'
  BY <1>1, <1>2 DEF WorkInv, TasksKept, InTurn
<1> QED BY <1>3, <1>4

LEMMA NoticeIs ==
  ASSUME NEW n \in Nodes, Notice(n)
  PROVE  /\ driver.at = "frontier" /\ task[n].at = "ended"
         /\ UNCHANGED <<plan, node, shared, segment, receipts, sent, driver, lost>>
         /\ \/ /\ leaf[n] # "ready" /\ Interrupted # {} /\ ~run.pausing
               /\ PauseTheRest(n)
            \/ /\ leaf[n] = "ready" \/ (run.pausing /\ run.status = "draining")
               /\ Joins({n}) /\ UNCHANGED <<run, leaf, point, parked>>
            \/ /\ leaf[n] # "ready" /\ (Interrupted = {} \/ run.pausing)
               /\ ~ (run.pausing /\ run.status = "draining")
               /\ CancelTheRest
<1>1. CASE leaf[n] # "ready" /\ Interrupted # {} /\ ~run.pausing
  BY <1>1 DEF Notice
<1>2. CASE leaf[n] = "ready" \/ (run.pausing /\ run.status = "draining")
  BY <1>2 DEF Notice
<1>3. CASE /\ leaf[n] # "ready" /\ (Interrupted = {} \/ run.pausing)
           /\ ~ (run.pausing /\ run.status = "draining")
  BY <1>3 DEF Notice
<1> QED BY <1>1, <1>2, <1>3

LEMMA WorkNotice ==
  ASSUME WorkInv, NEW n \in Nodes, Notice(n)
  PROVE  WorkInv'
<1>1. /\ driver.at = "frontier" /\ task[n].at = "ended"
      /\ UNCHANGED <<plan, node, shared, segment, receipts, sent, driver, lost>>
  BY NoticeIs
<1>2. n \in driver.team /\ driver.team \subseteq Nodes
  BY <1>1 DEF WorkInv, DriverKept, TypeOK, Driver
<1>3. BooksTyped /\ driver' \in Driver /\ lost' \in BOOLEAN
  BY <1>1, TypedBooks DEF WorkInv
<1>4. CASE Interrupted # {} /\ ~run.pausing /\ PauseTheRest(n)
  <2> DEFINE first == CHOOSE m \in Interrupted : \A k \in Interrupted : m <= k
  <2>1. /\ run' = AfterPause(run, Active)
        /\ point' = IF first \in parked THEN point ELSE Requested
        /\ parked' = parked \cup {first} /\ Joins({n}) /\ UNCHANGED leaf
    BY <1>4 DEF PauseTheRest
  <2>2. first \in Nodes
    <3>1. Interrupted \subseteq Nodes
      BY <1>2 DEF Interrupted
    <3>2. \E m \in Interrupted : \A k \in Interrupted : m <= k
      BY <1>4, <3>1, FirstIn
    <3> QED BY <3>1, <3>2
  <2> HIDE DEF first
  <2>3. ~Ended
    BY <1>1, <1>2, <1>4 DEF WorkInv, TeamKept, Interrupted
  <2>4. /\ run' \in Run /\ run'.pausing /\ run'.status \in {"draining", "paused"}
    BY <2>1, <2>3, PauseRun DEF WorkInv
  <2>5. NodesKept' /\ RunKept' /\ Active' = Active /\ ~Ended' /\ Together'
    BY <1>1, <2>1, <2>3, <2>4, RowBooks DEF Terminal
  <2>6. point' \in Point
    BY <1>3, <2>1 DEF BooksTyped, Requested, NoPoint, Point
  <2>7. DriverKept' /\ TasksKept' /\ task' \in [Nodes -> Drive]
    BY <1>1, <1>2, <2>1, JoinsKept, JoinsIs DEF WorkInv
  <2>8. TeamKept'
    BY <1>1, <2>1, <2>3, <2>5 DEF WorkInv, TeamKept
  <2>9. TypeOK'
    <3>1. BooksTyped'
      BY <1>1, <1>3, <2>1, <2>2, <2>4, <2>6 DEF BooksTyped
    <3> QED BY <1>3, <2>7, <3>1, TypedNext
  <2> QED BY <2>5, <2>7, <2>8, <2>9 DEF WorkInv
<1>5. CASE Joins({n}) /\ UNCHANGED <<run, leaf, point, parked>>
  <2>1. DriverKept' /\ TasksKept' /\ task' \in [Nodes -> Drive]
    BY <1>1, <1>2, <1>5, JoinsKept, JoinsIs DEF WorkInv
  <2>2. TeamKept'
    BY <1>1, <1>5 DEF WorkInv, TeamKept, Active, Ended
  <2>3. driver'.team \subseteq plan.readers
    BY <1>1 DEF WorkInv, Together
  <2> QED BY <1>1, <1>3, <1>5, <2>1, <2>2, <2>3, WorkSame DEF durable
<1>6. CASE CancelTheRest
  <2>1. /\ leaf' = [m \in Nodes |-> IF m \in driver.team /\ task[m].at = "turn"
                                      THEN "cancelled" ELSE leaf[m]]
        /\ Joins(driver.team) /\ UNCHANGED <<run, point, parked>>
    BY <1>6 DEF CancelTheRest
  <2>2. \A m \in Nodes : leaf'[m] # leaf[m] => leaf[m] = "open" /\ leaf'[m] = "cancelled"
    BY <2>1 DEF WorkInv, TasksKept, InTurn
  <2>3. \A m \in Nodes : task[m].at # "off" /\ m \notin driver.team =>
                           leaf'[m] = leaf[m]
    BY <2>1
  <2>4. DriverKept' /\ TasksKept' /\ task' \in [Nodes -> Drive]
    BY <1>1, <2>1, <2>3, JoinsKept, JoinsIs DEF WorkInv
  <2>5. Active' = Active /\ (Ended' <=> Ended) /\ (AllCompleted' <=> AllCompleted)
    BY <1>1, <2>1 DEF Active, Ended, AllCompleted
  <2>6. NodesKept'
    <3>1. \A m \in Nodes :
            /\ leaf[m] = "ready" => leaf'[m] = "ready"
            /\ leaf[m] # "new" => leaf'[m] # "new"
            /\ leaf'[m] = "open" => leaf[m] = "open"
      BY <2>2
    <3> QED BY <1>1, <2>5, <3>1 DEF WorkInv, NodesKept, Active
  <2>7. RunKept' /\ Together'
    BY <1>1, <2>1, <2>5 DEF WorkInv, RunKept, Together
  <2>8. TeamKept'
    BY <1>1, <1>2, <2>2, <2>5 DEF WorkInv, TeamKept
  <2>9. BooksTyped'
    <3>1. leaf' \in [Nodes -> {"new", "open", "interrupted", "ready", "failed",
                               "cancelled"}]
      BY <1>3, <2>1 DEF BooksTyped
    <3> QED BY <1>1, <1>3, <2>1, <2>2, <3>1 DEF BooksTyped
  <2>10. TypeOK'
    BY <1>3, <2>4, <2>9, TypedNext
  <2> QED BY <2>4, <2>6, <2>7, <2>8, <2>10 DEF WorkInv
<1> QED BY <1>4, <1>5, <1>6, NoticeIs

LEMMA WorkJoin ==
  ASSUME WorkInv, Join
  PROVE  WorkInv'
<1>1. /\ driver.at = "frontier" /\ \A n \in driver.team : task[n].at = "joined"
      /\ UNCHANGED <<durable, task, lost>>
      /\ \E at \in {"settle", "publish"} : driver' = [driver EXCEPT !.at = at]
  BY DEF Join
<1>2. driver \in Driver /\ task \in [Nodes -> Drive] /\ lost \in BOOLEAN
  BY DEF WorkInv, TypeOK
<1>3. /\ driver' \in Driver /\ driver'.at \in {"settle", "publish"}
      /\ driver'.team = driver.team /\ driver'.node = driver.node
  BY <1>1, <1>2 DEF Driver
<1>4. task' = task /\ leaf' = leaf /\ Active' = Active
  BY <1>1 DEF durable, Active
<1>5. DriverKept'
  BY <1>1, <1>3, <1>4 DEF WorkInv, DriverKept, TeamAt
<1>6. TasksKept'
  BY <1>1, <1>3, <1>4 DEF WorkInv, TasksKept, InTurn
<1>7. TeamKept'
  BY <1>1, <1>3, <1>4 DEF WorkInv, TeamKept, TeamAt
<1>8. driver'.team \subseteq plan.readers
  BY <1>3 DEF WorkInv, Together
<1> QED BY <1>1, <1>2, <1>3, <1>4, <1>5, <1>6, <1>7, <1>8, WorkSame

(* The nodes of a team settle in order: after the last one none is joined.    *)
LEMMA LastSettles ==
  ASSUME WorkInv, NEW n \in Nodes, SettleNext(n), ~ (\E m \in driver.team : m > n)
  PROVE  \A m \in Nodes : task'[m].at = "off"
<1>1. /\ driver.at \in {"settle", "close"}
      /\ \A m \in driver.team : m < n => task[m].at = "off"
      /\ task' = [task EXCEPT ![n].at = "off"]
  BY DEF SettleNext
<1>2. /\ task'[n].at = "off" /\ \A m \in Nodes \ {n} : task'[m] = task[m]
  BY <1>1 DEF WorkInv, TypeOK, Drive
<1>3. driver.team \subseteq Nodes /\ Nodes \subseteq Nat
  BY NodesAssumption DEF WorkInv, TypeOK, Driver
<1>4. ASSUME NEW m \in driver.team \ {n}
      PROVE  m < n
  <2>1. m \in Nat /\ n \in Nat /\ ~ (m > n) /\ m # n
    BY <1>3
  <2> QED BY <2>1
<1>5. \A m \in Nodes \ driver.team : task[m].at = "off"
  BY <1>1 DEF WorkInv, DriverKept
<1> QED BY <1>1, <1>2, <1>4, <1>5

LEMMA WorkSettleNext ==
  ASSUME WorkInv, NEW n \in Nodes, SettleNext(n)
  PROVE  WorkInv'
<1>1. /\ driver.at \in {"settle", "close"} /\ task[n].at = "joined"
      /\ task' = [task EXCEPT ![n].at = "off"] /\ SettleFrame /\ UNCHANGED lost
  BY DEF SettleNext, SettleFrame
<1>2. driver \in Driver /\ task \in [Nodes -> Drive] /\ lost \in BOOLEAN
  BY DEF WorkInv, TypeOK
<1>3. /\ task' \in [Nodes -> Drive] /\ task'[n].at = "off"
      /\ \A m \in Nodes \ {n} : task'[m] = task[m]
  BY <1>1, <1>2 DEF Drive
<1>4. BooksTyped' /\ NodesKept' /\ RunKept' /\ Active' \subseteq Active
  <2>1. CASE node[n] = "running" /\ Settle(n)
    <3>1. Kept(n) \/ Commits(n) \/ Parks(n) \/ Closes
      BY <2>1, SettleIs DEF WorkInv
    <3> QED BY <1>1, <3>1, SettleBooks
  <2>2. CASE UNCHANGED <<run, node, segment, point, parked>>
    <3>1. NodesKept' /\ RunKept' /\ Active' = Active
      BY <1>1, <2>2, BooksSame DEF SettleFrame
    <3>2. BooksTyped
      BY TypedBooks DEF WorkInv
    <3>3. BooksTyped'
      BY <1>1, <2>2, <3>2 DEF SettleFrame, BooksTyped
    <3> QED BY <3>1, <3>3
  <2> QED BY <2>1, <2>2 DEF SettleNext
<1>5. driver'.team \subseteq driver.team /\ driver' \in Driver
      /\ DriverKept' /\ TasksKept' /\ TeamKept'
  <2>1. CASE driver' = driver
    <3>1. driver.team \subseteq Nodes
      BY <1>2 DEF Driver
    <3>2. DriverKept'
      BY <1>1, <1>3, <2>1 DEF WorkInv, DriverKept, TeamAt
    <3>3. TasksKept'
      BY <1>1, <1>3, <2>1, <3>1 DEF WorkInv, TasksKept, InTurn, SettleFrame
    <3>4. TeamKept'
      BY <1>1, <1>4, <2>1 DEF WorkInv, TeamKept
    <3> QED BY <1>2, <2>1, <3>2, <3>3, <3>4
  <2>2. CASE ~ (\E m \in driver.team : m > n) /\ driver' = After(driver.node)
    <3>1. driver.node \in Nodes \cup {NoNode}
      BY <1>2 DEF Driver
    <3>2. /\ driver' \in Driver /\ driver'.team = {}
          /\ driver'.at \notin TeamAt \cup {"drive"}
          /\ driver'.at = "pick" => driver'.node \in Nodes
      BY <2>2, <3>1, AfterRests
    <3>3. \A m \in Nodes : task'[m].at = "off"
      BY <2>2, LastSettles
    <3> QED BY <3>2, <3>3, RestKept
  <2>3. CASE ~ (\E m \in driver.team : m > n)
             /\ driver' = [driver EXCEPT !.at = "publish"]
    <3>1. \A m \in Nodes : task'[m].at = "off"
      BY <2>3, LastSettles
    <3>2. /\ driver' \in Driver /\ driver'.at = "publish"
          /\ driver'.team = driver.team /\ driver'.node = driver.node
      BY <1>2, <2>3 DEF Driver
    <3>3. DriverKept'
      BY <1>1, <3>1, <3>2 DEF WorkInv, DriverKept, TeamAt
    <3>4. driver.team \subseteq Nodes
      BY <1>2 DEF Driver
    <3>5. TasksKept'
      BY <3>1, <3>2, <3>4 DEF TasksKept, InTurn
    <3>6. TeamKept'
      BY <1>1, <1>4, <3>2 DEF WorkInv, TeamKept, TeamAt
    <3> QED BY <3>2, <3>3, <3>5, <3>6
  <2> QED BY <2>1, <2>2, <2>3 DEF SettleNext
<1>6. Together'
  BY <1>1, <1>4, <1>5 DEF WorkInv, Together, SettleFrame
<1>7. TypeOK'
  BY <1>1, <1>2, <1>3, <1>4, <1>5, TypedNext
<1> QED BY <1>4, <1>5, <1>6, <1>7 DEF WorkInv

LEMMA WorkPublish ==
  ASSUME WorkInv, Publish
  PROVE  WorkInv'
<1> DEFINE done == Publishable \cap driver.team
<1>1. /\ driver.at = "publish" /\ SettleFrame /\ UNCHANGED <<point, parked, lost>>
  BY DEF Publish, SettleFrame
<1>2. driver \in Driver /\ lost \in BOOLEAN /\ BooksTyped
  BY TypedBooks DEF WorkInv, TypeOK
<1>3. done \in SUBSET Nodes /\ \A n \in done : leaf[n] = "ready"
  BY DEF Publishable, Active
<1>4. BooksTyped' /\ NodesKept' /\ RunKept' /\ Active' \subseteq Active
  <2>1. CASE Complete(done) /\ UNCHANGED run
    <3>1. BooksTyped' /\ NodesKept' /\ RunKept' /\ Active' = Active \ done
      <4> HIDE DEF done
      <4> QED BY <1>1, <1>3, <2>1, CompleteBooks DEF SettleFrame
    <3> QED BY <3>1
  <2>2. CASE Finish([run EXCEPT !.status = "failed"], done)
    <3>1. /\ [run EXCEPT !.status = "failed"] \in Run
          /\ [run EXCEPT !.status = "failed"].status = "failed"
      BY <1>2 DEF BooksTyped, Run, Terminal
    <3>2. /\ run' = [run EXCEPT !.status = "failed"]
          /\ node' \in [Nodes -> Terminal] /\ Active' = {}
          /\ segment' \in [Nodes -> {"none", "active", "interrupted", "completed"}]
          /\ NodesKept' /\ RunKept'
      <4> HIDE DEF done
      <4> QED BY <1>1, <1>3, <2>2, <3>1, FinishBooks DEF Terminal, SettleFrame
    <3>3. BooksTyped'
      BY <1>1, <1>2, <3>1, <3>2 DEF SettleFrame, BooksTyped, Terminal
    <3> QED BY <3>2, <3>3
  <2> QED BY <2>1, <2>2 DEF Publish
<1>5. driver'.team \subseteq driver.team /\ driver' \in Driver
      /\ task' \in [Nodes -> Drive]
      /\ DriverKept' /\ TasksKept' /\ TeamKept'
  <2>1. CASE driver' = [driver EXCEPT !.at = "close"] /\ Joins(driver.team)
    <3>1. /\ driver' \in Driver /\ driver'.at = "close"
          /\ driver'.team = driver.team /\ driver'.node = driver.node
      BY <1>2, <2>1 DEF Driver
    <3>2. /\ task' \in [Nodes -> Drive]
          /\ \A n \in Nodes : task'[n].at = IF n \in driver.team THEN "joined"
                                                                 ELSE task[n].at
      BY <2>1, JoinsIs DEF WorkInv
    <3>3. \A n \in Nodes \ driver.team : task'[n].at = "off"
      BY <1>1, <3>2 DEF WorkInv, DriverKept
    <3>4. driver.team \subseteq Nodes
      BY <1>2 DEF Driver
    <3>5. DriverKept'
      BY <1>1, <3>1, <3>3 DEF WorkInv, DriverKept, TeamAt
    <3>6. TasksKept'
      BY <3>1, <3>2, <3>3, <3>4 DEF TasksKept, InTurn
    <3>7. TeamKept'
      BY <1>1, <1>4, <3>1 DEF WorkInv, TeamKept, TeamAt
    <3> QED BY <3>1, <3>2, <3>5, <3>6, <3>7
  <2>2. CASE driver' = After(driver.node) /\ task' = [n \in Nodes |-> Idle]
    <3>1. driver.node \in Nodes \cup {NoNode}
      BY <1>2 DEF Driver
    <3>2. /\ driver' \in Driver /\ driver'.team = {}
          /\ driver'.at \notin TeamAt \cup {"drive"}
          /\ driver'.at = "pick" => driver'.node \in Nodes
      BY <2>2, <3>1, AfterRests
    <3>3. task' \in [Nodes -> Drive] /\ \A m \in Nodes : task'[m].at = "off"
      BY <2>2, IdleTasks
    <3> QED BY <3>2, <3>3, RestKept
  <2> QED BY <2>1, <2>2 DEF Publish
<1>6. Together'
  BY <1>1, <1>4, <1>5 DEF WorkInv, Together, SettleFrame
<1>7. TypeOK'
  BY <1>1, <1>2, <1>4, <1>5, TypedNext
<1> QED BY <1>4, <1>5, <1>6, <1>7 DEF WorkInv

(* What End does.                                                             *)
LEMMA EndIs ==
  ASSUME End
  PROVE  /\ driver.at = "end" /\ StopDriver
         /\ UNCHANGED <<plan, node, shared, leaf, segment, point, parked>>
         /\ UNCHANGED <<receipts, sent, lost>>
         /\ \/ /\ run.status \in {"running", "draining"} /\ AllCompleted
               /\ run' = [run EXCEPT !.status = "completed"]
            \/ /\ run.status = "draining" /\ ~AllCompleted
               /\ \A n \in Active : segment[n] \notin {"active", "none"}
               /\ run' = [run EXCEPT !.status = "paused"]
            \/ /\ run.status \in {"running", "draining"} => ~AllCompleted
               /\ run.status = "draining" =>
                    \E n \in Active : segment[n] \in {"active", "none"}
               /\ UNCHANGED run
<1>1. CASE run.status \in {"running", "draining"} /\ AllCompleted
  BY <1>1 DEF End
<1>2. CASE /\ run.status = "draining" /\ ~AllCompleted
           /\ \A n \in Active : segment[n] \notin {"active", "none"}
  BY <1>2 DEF End
<1>3. CASE /\ ~ (run.status \in {"running", "draining"} /\ AllCompleted)
           /\ ~ (/\ run.status = "draining" /\ ~AllCompleted
                 /\ \A n \in Active : segment[n] \notin {"active", "none"})
  BY <1>3 DEF End
<1> QED BY <1>1, <1>2, <1>3

LEMMA WorkEnd ==
  ASSUME WorkInv, End
  PROVE  WorkInv'
<1>1. /\ StopDriver
      /\ UNCHANGED <<plan, node, shared, leaf, segment, point, parked, receipts,
                     sent, lost>>
  BY EndIs
<1>2. BooksTyped /\ lost' \in BOOLEAN
  BY <1>1, TypedBooks DEF WorkInv
<1>3. /\ driver' \in Driver /\ driver'.team = {}
      /\ driver'.at \notin TeamAt \cup {"drive", "pick"}
  BY <1>1, OffRests DEF StopDriver
<1>4. task' \in [Nodes -> Drive] /\ \A n \in Nodes : task'[n].at = "off"
  BY <1>1, IdleTasks DEF StopDriver
<1>5. DriverKept' /\ TasksKept' /\ TeamKept'
  BY <1>3, <1>4, RestKept
<1>6. Active' = Active /\ (AllCompleted' <=> AllCompleted)
  BY <1>1 DEF Active, AllCompleted
<1>7. run' \in Run /\ (run'.status \in {"draining", "paused"} => run'.pausing)
      /\ NodesKept' /\ RunKept'
  <2>1. CASE AllCompleted /\ run' = [run EXCEPT !.status = "completed"]
    <3>1. run' \in Run /\ run'.status = "completed" /\ Ended'
      BY <1>2, <2>1 DEF BooksTyped, Run, Terminal, Ended
    <3>2. Active' = {}
      BY <1>6, <2>1 DEF AllCompleted, Active
    <3>3. NodesKept'
      BY <1>1, <1>6, <3>1 DEF WorkInv, NodesKept
    <3>4. RunKept'
      BY <1>6, <2>1, <3>1, <3>2 DEF RunKept, Terminal
    <3> QED BY <3>1, <3>3, <3>4
  <2>2. CASE run.status = "draining" /\ run' = [run EXCEPT !.status = "paused"]
    <3>1. run' \in Run /\ run'.status = "paused" /\ run'.pausing /\ ~Ended /\ ~Ended'
      BY <1>2, <2>2 DEF BooksTyped, Run, Terminal, Ended
    <3>2. NodesKept'
      BY <1>1, <1>6, <3>1 DEF WorkInv, NodesKept
    <3>3. RunKept'
      BY <3>1 DEF RunKept, Terminal
    <3> QED BY <3>1, <3>2, <3>3
  <2>3. CASE UNCHANGED run
    BY <1>1, <1>2, <2>3, BooksSame DEF BooksTyped
  <2> QED BY <2>1, <2>2, <2>3, EndIs
<1>8. Together'
  BY <1>1, <1>3, <1>6 DEF WorkInv, Together
<1>9. BooksTyped'
  BY <1>1, <1>2, <1>7 DEF BooksTyped
<1>10. TypeOK'
  BY <1>2, <1>3, <1>4, <1>9, TypedNext
<1> QED BY <1>5, <1>7, <1>8, <1>10 DEF WorkInv

--------------------------------------------------------------------------------
(* The run, its types and books                                               *)

LEMMA WorkInit ==
  ASSUME Init
  PROVE  WorkInv
<1>1. TypeOK
  <2>1. BooksTyped
    BY DEF Init, BooksTyped, Run, Terminal, NoPoint, Point, Receipt
  <2>2. driver = [at |-> "start", node |-> NoNode, team |-> {}, saw |-> FALSE]
    BY DEF Init, Off
  <2>3. driver \in Driver
    BY <2>2 DEF Driver
  <2>4. task \in [Nodes -> Drive] /\ lost \in BOOLEAN
    BY DEF Init, Idle, Drive
  <2> QED BY <2>1, <2>3, <2>4, TypedBooks
<1>2. Active = {} /\ ~Ended
  BY DEF Init, Active, Ended, Terminal
<1>3. NodesKept /\ RunKept
  BY <1>2 DEF Init, NodesKept, RunKept, Ended, Terminal
<1>4. driver.at = "start" /\ driver.team = {} /\ \A n \in Nodes : task[n].at = "off"
  BY DEF Init, Off, Idle
<1>5. DriverKept /\ TasksKept /\ Together /\ TeamKept
  BY <1>2, <1>4 DEF Init, DriverKept, TasksKept, Together, TeamKept, TeamAt, InTurn
<1> QED BY <1>1, <1>3, <1>5 DEF WorkInv

LEMMA WorkStep ==
  ASSUME WorkInv, [Next]_vars
  PROVE  WorkInv'
<1>1. ASSUME NEW n \in Nodes, Drives(n)
      PROVE  WorkInv'
  BY <1>1, WorkPick, WorkAdmit, WorkReopen, WorkContinue, WorkLeave,
     WorkSettleSerial, WorkNotice, WorkSettleNext DEF Drives
<1>2. ASSUME NEW n \in Nodes, EndsTurn(n)
      PROVE  WorkInv'
  BY <1>2, WorkEndTurn DEF EndsTurn, Stop, Break, Answer, Fail
<1>3. CASE Command
  BY <1>3, WorkPause, WorkBareResume, WorkCancel, WorkCliCancel, WorkDies,
     WorkResume DEF Command
<1>4. CASE UNCHANGED vars
  <2>1. /\ UNCHANGED <<plan, run, node, shared, leaf, segment, point, parked>>
        /\ UNCHANGED <<receipts, sent, driver, task, lost>>
    BY <1>4 DEF vars
  <2>2. UNCHANGED durable
    BY <2>1 DEF durable
  <2>3. DriverKept' /\ TasksKept' /\ TeamKept'
    BY <2>1 DEF WorkInv, DriverKept, TasksKept, TeamKept, InTurn, Active, Ended
  <2> QED BY <2>1, <2>2, <2>3, WorkSame DEF WorkInv, TypeOK, Together
<1> QED BY <1>1, <1>2, <1>3, <1>4, WorkBegin, WorkCancelRest, WorkJoin,
           WorkPublish, WorkEnd DEF Next

(* Every variable keeps its type, a paused or draining run has a pause fact,  *)
(* and a queued node has neither leaf nor segment, whatever the plan, the     *)
(* commands, the crashes and the interleaving of Turns.                       *)
THEOREM WorkflowTypes == Spec => []TypeOK
<1>1. WorkInv => TypeOK
  BY DEF WorkInv
<1>2. WorkInv /\ [Next]_vars => WorkInv'
  BY WorkStep
<1> QED BY <1>1, <1>2, WorkInit, PTL DEF Spec

(* A run is completed for real: every node is, and its leaf committed.        *)
THEOREM CompletesForReal == Spec => []CompletedForReal
<1>1. WorkInv => CompletedForReal
  BY DEF WorkInv, NodesKept, RunKept, CompletedForReal, AllCompleted
<1>2. WorkInv /\ [Next]_vars => WorkInv'
  BY WorkStep
<1> QED BY <1>1, <1>2, WorkInit, PTL DEF Spec

--------------------------------------------------------------------------------
(* What no step of a run takes back                                           *)

(* The plan stands, a completed node stays completed and a started one does   *)
(* not wait again, an end is final, no Turn opens in a run that has ended,    *)
(* and only an admission starts a node.                                       *)
Onward ==
  /\ plan' = plan
  /\ \A n \in Nodes : node[n] = "completed" => node'[n] = "completed"
  /\ \A n \in Nodes : node'[n] = "queued" => node[n] = "queued"
  /\ Ended => Ended'
  /\ Ended' => \A n \in Nodes : leaf'[n] = "open" => leaf[n] = "open"
  /\ \/ shared' = shared /\ Active' \subseteq Active
     \/ \E n \in Nodes : Starting(n) /\ node[n] = "queued" /\ Admits(n)
  /\ run'.status = "queued" => run.status = "queued"

LEMMA OnwardSame ==
  ASSUME UNCHANGED <<plan, node, shared, leaf>>, Ended => Ended',
         run'.status = "queued" => run.status = "queued"
  PROVE  Onward
BY DEF Onward, Active

LEMMA OnwardFinish ==
  ASSUME NEW r, NEW done, r.status \in Terminal, Finish(r, done),
         UNCHANGED <<plan, shared>>,
         \A n \in Nodes : leaf'[n] = "open" => leaf[n] = "open"
  PROVE  Onward
<1>1. /\ run' = r
      /\ node' = [n \in Nodes |->
           IF node[n] = "completed" \/ n \in done THEN "completed"
           ELSE IF node[n] = "running" /\ r.status = "failed" THEN "failed"
           ELSE "cancelled"]
  BY DEF Finish
<1>2. Ended' /\ Active' = {}
  BY <1>1 DEF Ended, Active
<1>3. run'.status # "queued"
  BY <1>1 DEF Terminal
<1>4. \A n \in Nodes : /\ node[n] = "completed" => node'[n] = "completed"
                       /\ node'[n] # "queued"
  BY <1>1
<1> QED BY <1>2, <1>3, <1>4 DEF Onward

LEMMA OnwardComplete ==
  ASSUME NEW done, Complete(done), UNCHANGED <<plan, run, shared, leaf>>
  PROVE  Onward
<1>1. node' = [n \in Nodes |-> IF n \in done THEN "completed" ELSE node[n]]
  BY DEF Complete
<1>2. Active' \subseteq Active /\ (Ended' <=> Ended)
  BY <1>1 DEF Active, Ended
<1>3. \A n \in Nodes : /\ node[n] = "completed" => node'[n] = "completed"
                       /\ node'[n] = "queued" => node[n] = "queued"
  BY <1>1
<1> QED BY <1>2, <1>3 DEF Onward

LEMMA OnwardSettle ==
  ASSUME WorkInv, NEW n \in Nodes, SettleFrame,
         Kept(n) \/ Commits(n) \/ Parks(n) \/ Closes
  PROVE  Onward
<1>1. CASE Kept(n)
  BY <1>1, OnwardSame DEF Kept, SettleFrame, Ended
<1>2. CASE Commits(n)
  <2>1. CASE Finish([run EXCEPT !.status = "completed"], {n})
    <3>1. [run EXCEPT !.status = "completed"].status \in Terminal
      BY DEF WorkInv, TypeOK, Run, Terminal
    <3> QED BY <2>1, <3>1, OnwardFinish DEF SettleFrame
  <2>2. CASE Complete({n}) /\ UNCHANGED run
    BY <2>2, OnwardComplete DEF SettleFrame
  <2> QED BY <1>2, <2>1, <2>2 DEF Commits
<1>3. CASE Parks(n)
  <2>1. /\ ~Ended /\ UNCHANGED node
        /\ run' = run \/ run' = AfterPause(run, Active)
    BY <1>3 DEF Parks
  <2>2. run'.status = "queued" => run.status = "queued"
    BY <2>1, PauseRun DEF WorkInv
  <2> QED BY <2>1, <2>2, OnwardSame DEF SettleFrame
<1>4. CASE Closes
  <2>1. PICK s \in {"failed", "cancelled"} : Finish([run EXCEPT !.status = s], {})
    BY <1>4 DEF Closes, Close
  <2>2. [run EXCEPT !.status = s].status \in Terminal
    BY DEF WorkInv, TypeOK, Run, Terminal
  <2> QED BY <2>1, <2>2, OnwardFinish DEF SettleFrame
<1> QED BY <1>1, <1>2, <1>3, <1>4

LEMMA OnwardCommand ==
  ASSUME WorkInv, Command
  PROVE  Onward
<1>1. CASE Pause \/ CliPause
  <2>1. ~Ended /\ run' = AfterPause(run, Active) /\ UNCHANGED <<plan, node, shared, leaf>>
    BY <1>1 DEF Pause, CliPause
  <2> QED BY <2>1, PauseRun, OnwardSame DEF WorkInv
<1>2. ASSUME NEW c \in Commands, Resume(c)
      PROVE  Onward
  <2>1. ~Ended /\ run' = AfterResume(run) /\ UNCHANGED <<plan, node, shared, leaf>>
    BY <1>2 DEF Resume
  <2> QED BY <2>1, ResumeRun, OnwardSame DEF WorkInv
<1>3. CASE BareResume \/ Crash \/ \E c \in Commands : ResumeDies(c)
  <2>1. UNCHANGED <<plan, node, shared, leaf, run>>
    BY <1>3 DEF BareResume, Crash, ResumeDies, durable
  <2> QED BY <2>1, OnwardSame DEF Ended
<1>4. CASE Cancel
  <2> DEFINE done == {driver.node} \cap Publishable
             won == \A n \in Nodes : node[n] = "completed" \/ n \in done
             asked == [run EXCEPT !.cancel = TRUE]
             closed == [asked EXCEPT !.status = IF won THEN "completed"
                                                      ELSE "cancelled"]
  <2>1. /\ ~Ended /\ UNCHANGED <<plan, shared>>
        /\ leaf' = [n \in Nodes |-> IF InTurn(n) THEN "cancelled" ELSE leaf[n]]
    BY <1>4 DEF Cancel
  <2>2. \A n \in Nodes : leaf'[n] = "open" => leaf[n] = "open"
    BY <2>1
  <2>3. asked \in Run /\ asked.status = run.status
    BY DEF WorkInv, TypeOK, Run
  <2>4. CASE driver.at = "drive"
    <3>1. Finish(closed, done)
      BY <1>4, <2>4 DEF Cancel
    <3>2. closed.status \in Terminal
      BY <2>3 DEF Run, Terminal
    <3> HIDE DEF closed, done
    <3> QED BY <2>1, <2>2, <3>1, <3>2, OnwardFinish
  <2>5. CASE driver.at # "drive"
    <3>1. run' = asked /\ UNCHANGED node
      BY <1>4, <2>5 DEF Cancel
    <3> QED BY <2>1, <2>2, <2>3, <3>1 DEF Onward, Active
  <2> QED BY <2>4, <2>5
<1>5. CASE CliCancel
  <2>1. ~Ended /\ UNCHANGED <<plan, shared, leaf>>
    BY <1>5 DEF CliCancel
  <2>2. CASE Active = {}
    <3>1. /\ run' = [run EXCEPT !.cancel = TRUE, !.status = "cancelled"]
          /\ node' = [n \in Nodes |-> IF node[n] = "queued" THEN "cancelled"
                                                             ELSE node[n]]
      BY <1>5, <2>2 DEF CliCancel
    <3>2. run'.status = "cancelled"
      BY <3>1 DEF WorkInv, TypeOK, Run
    <3> QED BY <2>1, <3>1, <3>2 DEF Onward, Active
  <2>3. CASE Active # {}
    <3>1. run' = [run EXCEPT !.cancel = TRUE] /\ UNCHANGED node
      BY <1>5, <2>3 DEF CliCancel
    <3>2. run'.status = run.status
      BY <3>1 DEF WorkInv, TypeOK, Run
    <3> QED BY <2>1, <3>1, <3>2, OnwardSame
  <2> QED BY <2>2, <2>3
<1> QED BY <1>1, <1>2, <1>3, <1>4, <1>5 DEF Command

LEMMA OnwardStep ==
  ASSUME WorkInv, [Next]_vars
  PROVE  Onward
<1>1. CASE Begin
  <2>1. UNCHANGED <<plan, shared, leaf>>
    BY <1>1, BeginIs
  <2>2. CASE UNCHANGED <<run, node, segment>>
    BY <2>1, <2>2, OnwardSame DEF Ended
  <2>3. CASE ~Ended /\ Finish([BeginRow EXCEPT !.status = "cancelled"], Publishable)
    <3>1. [BeginRow EXCEPT !.status = "cancelled"].status \in Terminal
      BY <2>3, BeginRowIs DEF Run, Terminal
    <3> QED BY <2>1, <2>3, <3>1, OnwardFinish
  <2>4. CASE ~Ended /\ Starts
    <3>1. run' = BeginRow /\ UNCHANGED node
      BY <2>4 DEF Starts
    <3>2. BeginRow.status = "queued" => run.status = "queued"
      BY <2>4, ResumeRun DEF BeginRow, WorkInv
    <3> QED BY <2>1, <2>4, <3>1, <3>2, OnwardSame
  <2> QED BY <1>1, <2>2, <2>3, <2>4, BeginIs
<1>2. CASE CancelRest
  <2>1. UNCHANGED <<plan, shared, leaf>>
    BY <1>2 DEF CancelRest
  <2>2. CASE UNCHANGED <<run, node, segment>>
    BY <2>1, <2>2, OnwardSame DEF Ended
  <2>3. CASE Finish([run EXCEPT !.status = "cancelled"], Publishable)
    <3>1. [run EXCEPT !.status = "cancelled"].status \in Terminal
      BY DEF WorkInv, TypeOK, Run, Terminal
    <3> QED BY <2>1, <2>3, <3>1, OnwardFinish
  <2> QED BY <1>2, <2>2, <2>3 DEF CancelRest
<1>3. ASSUME UNCHANGED durable
      PROVE  Onward
  BY <1>3, OnwardSame DEF durable, Ended
<1>4. ASSUME NEW n \in Nodes, Admit(n)
      PROVE  Onward
  <2>1. CASE Admits(n)
    <3>1. /\ node' = [node EXCEPT ![n] = "running"]
          /\ run' = [run EXCEPT !.status = "running"]
          /\ leaf' = [leaf EXCEPT ![n] = "open"] /\ UNCHANGED plan
          /\ run.status \in {"queued", "running"}
      BY <2>1 DEF Admits
    <3>2. run'.status = "running" /\ ~Ended /\ ~Ended'
      BY <3>1 DEF WorkInv, TypeOK, Run, Ended, Terminal
    <3>3. Starting(n) /\ node[n] = "queued"
      BY <1>4, AdmitIs
    <3>4. \A m \in Nodes : m = n \/ node'[m] = node[m]
      BY <3>1 DEF WorkInv, TypeOK
    <3>5. node'[n] = "running"
      BY <3>1 DEF WorkInv, TypeOK
    <3> QED BY <2>1, <3>1, <3>2, <3>3, <3>4, <3>5 DEF Onward
  <2> QED BY <1>3, <1>4, <2>1, AdmitIs
<1>5. ASSUME NEW n \in Nodes, Continue(n)
      PROVE  Onward
  <2>1. CASE Continued(n)
    <3>1. /\ run.status \in {"queued", "running"}
          /\ UNCHANGED <<plan, run, node, shared>>
      BY <2>1 DEF Continued
    <3>2. ~Ended' /\ ~Ended
      BY <3>1 DEF Ended, Terminal
    <3> QED BY <3>1, <3>2 DEF Onward, Active
  <2> QED BY <1>3, <1>5, <2>1, ContinueIs
<1>6. ASSUME NEW n \in Nodes, NEW last \in {"interrupted", "ready", "failed"},
             EndTurn(n, last)
      PROVE  Onward
  <2>1. leaf' = [leaf EXCEPT ![n] = last] /\ UNCHANGED <<plan, run, node, shared>>
    BY <1>6 DEF EndTurn
  <2>2. \A m \in Nodes : leaf'[m] = "open" => leaf[m] = "open"
    BY <2>1 DEF WorkInv, TypeOK
  <2> QED BY <2>1, <2>2 DEF Onward, Active, Ended
<1>7. ASSUME NEW n \in Nodes, SettleSerial(n)
      PROVE  Onward
  <2>1. SettleFrame
    BY <1>7 DEF SettleSerial, SettleFrame
  <2>2. Kept(n) \/ Commits(n) \/ Parks(n) \/ Closes
    <3>1. CASE /\ run.status = "running"
               /\ Close("failed") /\ UNCHANGED <<point, parked>>
      BY <3>1 DEF Closes, Ended, Terminal
    <3>2. CASE Settle(n)
      BY <3>2, SettleIs DEF WorkInv
    <3> QED BY <1>7, <3>1, <3>2 DEF SettleSerial
  <2> QED BY <2>1, <2>2, OnwardSettle
<1>8. ASSUME NEW n \in Nodes, Notice(n)
      PROVE  Onward
  <2>1. UNCHANGED <<plan, node, shared>> /\ driver.at = "frontier" /\ task[n].at = "ended"
    BY <1>8, NoticeIs
  <2>2. CASE Interrupted # {} /\ PauseTheRest(n)
    <3>1. run' = AfterPause(run, Active) /\ UNCHANGED leaf
      BY <2>2 DEF PauseTheRest
    <3>2. ~Ended
      <4>1. driver.team \subseteq Nodes
        BY DEF WorkInv, TypeOK, Driver
      <4> QED BY <2>1, <2>2, <4>1 DEF WorkInv, TeamKept, Interrupted
    <3> QED BY <2>1, <3>1, <3>2, PauseRun, OnwardSame DEF WorkInv
  <2>3. CASE UNCHANGED <<run, leaf>>
    BY <2>1, <2>3, OnwardSame DEF Ended
  <2>4. CASE CancelTheRest
    <3>1. /\ leaf' = [m \in Nodes |-> IF m \in driver.team /\ task[m].at = "turn"
                                        THEN "cancelled" ELSE leaf[m]]
          /\ UNCHANGED run
      BY <2>4 DEF CancelTheRest
    <3>2. \A m \in Nodes : leaf'[m] = "open" => leaf[m] = "open"
      BY <3>1
    <3> QED BY <2>1, <3>1, <3>2 DEF Onward, Active, Ended
  <2> QED BY <1>8, <2>2, <2>3, <2>4, NoticeIs
<1>9. ASSUME NEW n \in Nodes, SettleNext(n)
      PROVE  Onward
  <2>1. SettleFrame
    BY <1>9 DEF SettleNext, SettleFrame
  <2>2. CASE Settle(n)
    BY <2>1, <2>2, SettleIs, OnwardSettle DEF WorkInv
  <2>3. CASE UNCHANGED <<run, node, segment, point, parked>>
    BY <2>1, <2>3, OnwardSame DEF SettleFrame, Ended
  <2> QED BY <1>9, <2>2, <2>3 DEF SettleNext
<1>10. CASE Publish
  <2> DEFINE done == Publishable \cap driver.team
  <2>1. UNCHANGED <<plan, shared, leaf>>
    BY <1>10 DEF Publish
  <2>2. CASE Complete(done) /\ UNCHANGED run
    <3> HIDE DEF done
    <3> QED BY <2>1, <2>2, OnwardComplete
  <2>3. CASE Finish([run EXCEPT !.status = "failed"], done)
    <3>1. [run EXCEPT !.status = "failed"].status \in Terminal
      BY DEF WorkInv, TypeOK, Run, Terminal
    <3> HIDE DEF done
    <3> QED BY <2>1, <2>3, <3>1, OnwardFinish
  <2> QED BY <1>10, <2>2, <2>3 DEF Publish
<1>11. CASE End
  <2>1. UNCHANGED <<plan, node, shared, leaf>>
    BY <1>11, EndIs
  <2>2. CASE \E s \in {"completed", "paused"} : run' = [run EXCEPT !.status = s]
                                               /\ run.status \in {"running", "draining"}
    <3>1. run'.status \in {"completed", "paused"} /\ ~Ended
      BY <2>2 DEF WorkInv, TypeOK, Run, Ended, Terminal
    <3> QED BY <2>1, <3>1, OnwardSame
  <2>3. CASE UNCHANGED run
    BY <2>1, <2>3, OnwardSame DEF Ended
  <2> QED BY <1>11, <2>2, <2>3, EndIs
<1>12. ASSUME NEW n \in Nodes, Drives(n)
       PROVE  Onward
  <2>1. Pick(n) \/ Reopen(n) \/ Leave(n) => UNCHANGED durable
    BY PickIs DEF Reopen, Leave
  <2> QED BY <1>3, <1>4, <1>5, <1>7, <1>8, <1>9, <1>12, <2>1 DEF Drives
<1>13. ASSUME NEW n \in Nodes, EndsTurn(n)
       PROVE  Onward
  BY <1>6, <1>13 DEF EndsTurn, Stop, Break, Answer, Fail
<1>14. CASE Join \/ UNCHANGED vars
  BY <1>3, <1>14 DEF Join, vars, durable
<1> QED BY <1>1, <1>2, <1>10, <1>11, <1>12, <1>13, <1>14, OnwardCommand DEF Next

(* A writer never works beside another node: two Turns are open together only *)
(* in parallel readers, over every pause, crash and continuation.             *)
THEOREM WritersAlone == Spec => []WriterAlone
<1>1. ASSUME WorkInv, WorkInv', Onward, WriterAlone
      PROVE  WriterAlone'
  <2> SUFFICES ASSUME NEW m \in Nodes, NEW n \in Nodes,
                      leaf'[m] = "open", leaf'[n] = "open", m # n
               PROVE  {m, n} \subseteq plan'.readers
    BY DEF WriterAlone
  <2>1. CASE Ended'
    BY <1>1, <2>1 DEF Onward, WriterAlone
  <2>2. CASE ~Ended'
    <3>1. m \in Active' /\ n \in Active'
      BY <1>1, <2>2 DEF WorkInv, NodesKept, Active
    <3> QED BY <1>1, <3>1 DEF WorkInv, Together
  <2> QED BY <2>1, <2>2
<1>2. Init => WriterAlone
  BY DEF Init, WriterAlone
<1>3. WorkInv /\ WriterAlone /\ [Next]_vars => WorkInv' /\ WriterAlone'
  BY <1>1, WorkStep, OnwardStep
<1> QED BY <1>2, <1>3, WorkInit, PTL DEF Spec

--------------------------------------------------------------------------------
(* The order of the driver                                                    *)

(* What the driver knows of the order, the pause and its drives, place by     *)
(* place.  A node before the one it is at is completed, or the run is pausing *)
(* and that node parked.                                                      *)
Behind(n) == \E k \in Nodes : k < n /\ node[k] # "completed"

Parked(n) ==
  /\ run.status = "draining" /\ point.life = "suspended"
  /\ leaf[n] = "interrupted" /\ segment[n] # "active"

(* A reader that was admitted has started; a node that was admitted alone     *)
(* found all before it completed.                                             *)
InOrderKept ==
  /\ \A n \in shared : node[n] # "queued"
  /\ \A n \in Active \ shared : ~Behind(n)

(* A run paused in the middle of a node is at rest: its nodes are parked, its *)
(* cycle suspended, and no driver is on its way through the order.            *)
PausedKept ==
  run.status = "paused" =>
    \/ Active = {}
    \/ /\ driver.at \in {"off", "start", "resume", "cancel"}
       /\ point.life = "suspended"
       /\ \A n \in Active : segment[n] # "active"

(* A node was refused for a pause only after the run had started or paused.   *)
RefusedKept ==
  run.status = "queued" => \A n \in Nodes : task[n].error # "paused"

AtPick ==
  driver.at = "pick" /\ ~Ended =>
    /\ Behind(driver.node) => run.pausing
    /\ \A k \in Active : k \in shared \/ k < driver.node => Parked(k)

AtEnd ==
  driver.at = "end" /\ ~Ended =>
    /\ AllCompleted \/ run.pausing
    /\ \A k \in Active : Parked(k)

(* A driver that takes up a node while something is left behind saw the       *)
(* pause: the readers that still run only wait to be settled.                 *)
AtDrive ==
  driver.at = "drive" /\ ~Ended =>
    /\ Behind(driver.node) => driver.node \in Active \cap shared
    /\ driver.node \in Active \cap shared => driver.saw
    /\ \A k \in Active \cap shared :
         /\ driver.node \in Active \cap shared
         /\ leaf[k] = "interrupted" /\ segment[k] # "active"

(* A frontier starts with nothing left behind: all of its nodes are new, or   *)
(* all were left by an earlier driver.                                        *)
AtTeam == driver.at \in TeamAt /\ ~Ended => ~Behind(driver.node)

Begun ==
  driver.at = "frontier" =>
    \A n \in driver.team :
      IF driver.node = NoNode
        THEN leaf[n] # "new"
        ELSE task[n].at # "again" /\ (Starting(n) => leaf[n] = "new")

(* A continuation that was joined with its Turn open does not go on: another  *)
(* node of the frontier is about to end the run.                              *)
Doomed(n) == node[n] = "running" /\ leaf[n] \in {"failed", "cancelled"}

LeftOpen ==
  driver.at \in TeamAt /\ ~Ended =>
    \A m \in driver.team : leaf[m] = "open" /\ task[m].at \in {"joined", "off"} =>
      \E f \in driver.team :
        /\ Doomed(f)
        /\ driver.at \in {"settle", "close"} => task[f].at = "joined"

AtClose ==
  driver.at = "close" /\ ~Ended =>
    /\ run.pausing
    /\ \A n \in Active : /\ leaf[n] # "ready"
                         /\ task[n].at = "off" => leaf[n] = "open" \/ Parked(n)

PhaseInv ==
  AtPick /\ AtEnd /\ AtDrive /\ AtTeam /\ Begun /\ LeftOpen /\ AtClose

OrderInv ==
  InOrderKept /\ PausedKept /\ RefusedKept /\ PhaseInv /\ DriverLeavesNothing

(* A step that keeps the books and goes onward.                               *)
OrderStep == WorkInv /\ WorkInv' /\ OrderInv /\ Onward

LEMMA InOrderStep ==
  ASSUME OrderStep
  PROVE  InOrderKept'
<1>1. /\ \A n \in Nodes : node[n] = "completed" => node'[n] = "completed"
      /\ \A n \in Nodes : node'[n] = "queued" => node[n] = "queued"
      /\ \/ shared' = shared /\ Active' \subseteq Active
         \/ \E n \in Nodes : Starting(n) /\ node[n] = "queued" /\ Admits(n)
  BY DEF OrderStep, Onward
<1>2. shared \subseteq Nodes /\ shared' \subseteq Nodes
  BY DEF OrderStep, WorkInv, TypeOK
<1>3. InOrderKept
  BY DEF OrderStep, OrderInv
<1>4. \A n \in Nodes : Behind(n)' => Behind(n)
  BY <1>1 DEF Behind
<1>5. CASE shared' = shared /\ Active' \subseteq Active
  BY <1>1, <1>2, <1>3, <1>4, <1>5 DEF InOrderKept, Active
<1>6. ASSUME NEW n \in Nodes, Starting(n), node[n] = "queued", Admits(n)
      PROVE  InOrderKept'
  <2>1. /\ shared' = IF n \in driver.team THEN shared \cup {n} ELSE shared
        /\ node' = [node EXCEPT ![n] = "running"]
        /\ run.status \in {"queued", "running"}
    BY <1>6 DEF Admits
  <2>2. node'[n] = "running" /\ \A m \in Nodes \ {n} : node'[m] = node[m]
    BY <2>1 DEF OrderStep, WorkInv, TypeOK
  <2>3. \A m \in shared' : node'[m] # "queued"
    BY <1>2, <1>3, <2>1, <2>2 DEF InOrderKept
  <2>4. ASSUME n \notin shared'
        PROVE  ~Behind(n)
    <3>1. driver.at = "drive" /\ driver.node = n
      BY <1>6, <2>1, <2>4, DrivenBy DEF OrderStep, Starting
    <3>2. ~Ended /\ n \notin Active
      BY <1>6, <2>1 DEF Ended, Terminal, Active
    <3> QED BY <3>1, <3>2 DEF OrderStep, OrderInv, PhaseInv, AtDrive
  <2>5. \A m \in Active' \ shared' : ~Behind(m)'
    <3>1. \A m \in Active' : m \in Nodes /\ (m = n \/ m \in Active)
      BY <2>2 DEF Active
    <3>2. shared \subseteq shared'
      BY <2>1
    <3> QED BY <1>3, <1>4, <2>4, <3>1, <3>2 DEF InOrderKept
  <2> QED BY <2>3, <2>5 DEF InOrderKept
<1> QED BY <1>1, <1>5, <1>6

(* What the places of a driver ask for, where they ask for anything.          *)
LEMMA PhaseRests ==
  ASSUME driver'.at \in {"off", "start", "resume", "cancel"}
  PROVE  PhaseInv'
BY DEF PhaseInv, AtPick, AtEnd, AtDrive, AtTeam, Begun, LeftOpen, AtClose, TeamAt

LEMMA PhaseEnded ==
  ASSUME Ended', Begun'
  PROVE  PhaseInv'
BY DEF PhaseInv, AtPick, AtEnd, AtDrive, AtTeam, LeftOpen, AtClose

(* Where the driver goes after a node.                                        *)
LEMMA PhaseAfter ==
  ASSUME NEW n \in Nodes \cup {NoNode}, driver' = After(n),
         ~Ended' => /\ (\E k \in Nodes : k <= n /\ node'[k] # "completed")
                         => run'.pausing
                    /\ \A k \in Active' : k \in shared' \/ k <= n => Parked(k)'
  PROVE  PhaseInv'
<1>1. Nodes \subseteq Nat /\ n \in Nat
  BY NodesAssumption DEF NoNode
<1>2. Active' \subseteq Nodes
  BY DEF Active
<1>3. CASE /\ driver' = [at |-> "end", node |-> NoNode, team |-> {}, saw |-> FALSE]
           /\ \A m \in Nodes : m <= n
  <2>1. driver'.at = "end"
    BY <1>3
  <2>2. AtEnd'
    BY <1>2, <1>3, <2>1 DEF AtEnd, AllCompleted
  <2> QED BY <2>1, <2>2 DEF PhaseInv, AtPick, AtDrive, AtTeam, Begun, LeftOpen,
                            AtClose, TeamAt
<1>4. ASSUME NEW m \in Nodes, m > n, \A k \in Nodes : k < m => k <= n,
             driver' = [at |-> "pick", node |-> m, team |-> {}, saw |-> FALSE]
      PROVE  PhaseInv'
  <2>1. driver'.at = "pick" /\ driver'.node = m
    BY <1>4
  <2>2. AtPick'
    BY <1>2, <1>4, <2>1 DEF AtPick, Behind
  <2> QED BY <2>1, <2>2 DEF PhaseInv, AtEnd, AtDrive, AtTeam, Begun, LeftOpen,
                            AtClose, TeamAt
<1> QED BY <1>3, <1>4, AfterIs

(* Refusals are remembered only while the run may have started.               *)
LEMMA RefusedSame ==
  ASSUME OrderStep,
         \A n \in Nodes : task'[n].error = "paused" => task[n].error = "paused"
  PROVE  RefusedKept'
BY DEF OrderStep, OrderInv, Onward, RefusedKept

LEMMA RefusedIdle ==
  ASSUME task' = [n \in Nodes |-> Idle]
  PROVE  RefusedKept'
BY DEF RefusedKept, Idle

--------------------------------------------------------------------------------
(* The commands keep the order                                                *)

(* A step that changes no fact the order speaks of.                           *)
LEMMA OrderSame ==
  ASSUME OrderStep, run'.status = run.status, run'.pausing = run.pausing,
         UNCHANGED <<node, shared, leaf, segment, point, driver, task, lost>>
  PROVE  OrderInv'
<1>1. /\ Active' = Active /\ (Ended' <=> Ended) /\ (AllCompleted' <=> AllCompleted)
      /\ \A n \in Nodes : (Parked(n)' <=> Parked(n)) /\ (Doomed(n)' <=> Doomed(n))
      /\ \A n \in Nodes \cup {NoNode} : (Behind(n)' <=> Behind(n))
      /\ \A n \in Nodes : (Starting(n)' <=> Starting(n))
  BY DEF Active, Ended, AllCompleted, Parked, Doomed, Behind, Starting
<1>2. InOrderKept' /\ PausedKept' /\ RefusedKept' /\ DriverLeavesNothing'
  BY <1>1, InOrderStep
    DEF OrderStep, OrderInv, PausedKept, RefusedKept, DriverLeavesNothing
<1>3. driver.node \in Nodes \cup {NoNode} /\ driver.team \subseteq Nodes
  BY DEF OrderStep, WorkInv, TypeOK, Driver
<1>4. Active \subseteq Nodes
  BY DEF Active
<1>5. AtPick' /\ AtEnd'
  BY <1>1, <1>3, <1>4 DEF OrderStep, OrderInv, PhaseInv, AtPick, AtEnd
<1>6. AtDrive' /\ AtTeam' /\ Begun'
  BY <1>1, <1>3, <1>4 DEF OrderStep, OrderInv, PhaseInv, AtDrive, AtTeam, Begun
<1>7. LeftOpen' /\ AtClose'
  BY <1>1, <1>3, <1>4 DEF OrderStep, OrderInv, PhaseInv, LeftOpen, AtClose
<1> QED BY <1>2, <1>5, <1>6, <1>7 DEF OrderInv, PhaseInv

(* A pause that stands keeps its cycle while the driver stays or rests.       *)
LEMMA PausedStays ==
  ASSUME OrderStep, run' = run, point'.life = point.life,
         UNCHANGED <<node, segment>>,
         driver'.at \in {driver.at, "off", "resume"}
  PROVE  PausedKept'
<1>1. Active' = Active
  BY DEF Active
<1> QED BY <1>1 DEF OrderStep, OrderInv, PausedKept

(* A driver that rests asks only for its run to be settled.                   *)
LEMMA OrderRests ==
  ASSUME OrderStep, driver'.at \in {"off", "start", "resume", "cancel"},
         task' = [n \in Nodes |-> Idle], PausedKept',
         driver'.at = "off" /\ ~lost' => run'.status \notin {"running", "draining"}
  PROVE  OrderInv'
BY InOrderStep, PhaseRests, RefusedIdle DEF OrderInv, DriverLeavesNothing

LEMMA OrderPause ==
  ASSUME OrderStep, Pause \/ CliPause
  PROVE  OrderInv'
<1>1. /\ ~Ended /\ run' = AfterPause(run, Active)
      /\ point' # point => ~run.pausing /\ AtAwait
      /\ UNCHANGED <<plan, node, shared, leaf, segment, driver, task, lost>>
  BY DEF Pause, CliPause, PointAfterPause
<1>2. /\ run'.pausing /\ run'.status \in {"draining", "paused"}
      /\ run'.status = "draining" => Active # {}
      /\ Active # {} /\ run.status # "paused" => run'.status = "draining"
      /\ run.status = "paused" => run' = run
      /\ run.status = "draining" /\ Active # {} => run' = run
  BY <1>1, PauseRun DEF OrderStep, WorkInv
<1>3. Active' = Active /\ ~Ended'
  BY <1>1, <1>2 DEF Active, Ended, Terminal
<1>4. run.status \in {"draining", "paused"} => point' = point
  BY <1>1 DEF OrderStep, WorkInv, TypeOK
<1>5. PausedKept'
  BY <1>1, <1>2, <1>3, <1>4 DEF OrderStep, OrderInv, PausedKept
<1>6. DriverLeavesNothing'
  <2>1. run.status \in {"queued", "paused", "running", "draining"}
    BY <1>1 DEF OrderStep, WorkInv, TypeOK, Run, Ended
  <2>2. run.status = "queued" => Active = {}
    BY DEF OrderStep, WorkInv, RunKept
  <2> QED BY <1>1, <1>2, <2>1, <2>2 DEF OrderStep, OrderInv, DriverLeavesNothing
<1>7. RefusedKept'
  BY <1>1, RefusedSame
<1>8. \A k \in Active : Parked(k) => Parked(k)'
  BY <1>1, <1>2, <1>4 DEF Parked
<1>9. AtPick' /\ AtEnd'
  BY <1>1, <1>2, <1>3, <1>8
    DEF OrderStep, OrderInv, PhaseInv, AtPick, AtEnd, Behind
<1>10. AtDrive' /\ AtTeam' /\ Begun'
  BY <1>1, <1>3
    DEF OrderStep, OrderInv, PhaseInv, AtDrive, AtTeam, Begun, Behind, Starting
<1>11. LeftOpen' /\ AtClose'
  BY <1>1, <1>2, <1>3, <1>8
    DEF OrderStep, OrderInv, PhaseInv, LeftOpen, AtClose, Doomed
<1> QED BY <1>5, <1>6, <1>7, <1>9, <1>10, <1>11, InOrderStep
          DEF OrderInv, PhaseInv

LEMMA OrderResume ==
  ASSUME OrderStep, NEW c \in Commands, Resume(c)
  PROVE  OrderInv'
<1>1. /\ AtAwait /\ ~Ended /\ run' = AfterResume(run)
      /\ UNCHANGED <<plan, node, shared, leaf, segment, task>>
      /\ (driver' = driver /\ driver.at # "off") \/ driver'.at = "resume"
  BY DEF Resume, EnsureDriver, Off
<1>2. run'.status \in {"queued", "running"}
  BY <1>1, ResumeRun DEF OrderStep, WorkInv
<1>3. Active' = Active /\ ~Ended'
  BY <1>1, <1>2 DEF Active, Ended, Terminal
<1>4. PausedKept' /\ DriverLeavesNothing'
  BY <1>1, <1>2 DEF PausedKept, DriverLeavesNothing
<1>5. RefusedKept'
  BY <1>1, RefusedSame
<1>6. PhaseInv'
  <2>1. CASE driver'.at = "resume"
    BY <2>1, PhaseRests
  <2>2. CASE driver' = driver
    <3>1. driver.at \notin {"pick", "end", "settle", "publish", "close"}
      BY <1>1 DEF AtAwait
    <3>2. AtPick' /\ AtEnd' /\ AtClose'
      BY <2>2, <3>1 DEF AtPick, AtEnd, AtClose
    <3>3. AtDrive' /\ AtTeam' /\ Begun' /\ LeftOpen'
      BY <1>1, <1>3, <2>2
        DEF OrderStep, OrderInv, PhaseInv, AtDrive, AtTeam, Begun, LeftOpen,
            Behind, Starting, Doomed
    <3> QED BY <3>2, <3>3 DEF PhaseInv
  <2> QED BY <1>1, <2>1, <2>2
<1> QED BY <1>4, <1>5, <1>6, InOrderStep DEF OrderInv

LEMMA OrderBareResume ==
  ASSUME OrderStep, BareResume
  PROVE  OrderInv'
<1>1. /\ driver'.at = "resume" /\ run' = run
      /\ UNCHANGED <<node, segment, point, task>>
  BY DEF BareResume, EnsureDriver, Off
<1>2. PausedKept'
  BY <1>1, PausedStays
<1>3. RefusedKept'
  BY <1>1, RefusedSame
<1> QED BY <1>1, <1>2, <1>3, InOrderStep, PhaseRests
          DEF OrderInv, DriverLeavesNothing

(* The process that served the run dies.                                      *)
LEMMA OrderDies ==
  ASSUME OrderStep, Crash \/ \E c \in Commands : ResumeDies(c)
  PROVE  OrderInv'
<1>1. /\ run' = run /\ UNCHANGED <<node, segment>> /\ StopDriver /\ lost' = TRUE
      /\ point' = point \/ \E c \in Commands : Bind(c)
  BY DEF Crash, ResumeDies, durable
<1>2. point'.life = point.life
  BY <1>1 DEF Bind, OrderStep, WorkInv, TypeOK, Point
<1>3. driver'.at = "off" /\ task' = [n \in Nodes |-> Idle]
  BY <1>1 DEF StopDriver, Off
<1> QED BY <1>1, <1>2, <1>3, OrderRests, PausedStays

LEMMA OrderCancel ==
  ASSUME OrderStep, Cancel
  PROVE  OrderInv'
<1>1. run.status # "paused" /\ task' = [n \in Nodes |-> Idle]
  BY DEF Cancel
<1>2. run \in Run
  BY DEF OrderStep, WorkInv, TypeOK
<1>3. /\ driver'.at \in {"off", "cancel"}
      /\ driver'.at = "off" => run'.status \in {"completed", "cancelled"}
      /\ run'.status # "paused"
  <2> DEFINE done == {driver.node} \cap Publishable
             won == \A n \in Nodes : node[n] = "completed" \/ n \in done
             asked == [run EXCEPT !.cancel = TRUE]
  <2>1. CASE driver.at = "drive"
    <3>1. /\ Finish([asked EXCEPT !.status = IF won THEN "completed"
                                                   ELSE "cancelled"], done)
          /\ driver' = Off
      BY <2>1 DEF Cancel
    <3>2. run' = [asked EXCEPT !.status = IF won THEN "completed" ELSE "cancelled"]
      BY <3>1 DEF Finish
    <3> QED BY <1>2, <3>1, <3>2 DEF Run, Off
  <2>2. CASE driver.at # "drive"
    <3>1. run' = asked /\ driver' = [Off EXCEPT !.at = "cancel"]
      BY <2>2 DEF Cancel
    <3> QED BY <1>1, <1>2, <3>1 DEF Run, Off
  <2> QED BY <2>1, <2>2
<1>4. PausedKept'
  BY <1>3 DEF PausedKept
<1> QED BY <1>1, <1>3, <1>4, OrderRests

LEMMA OrderCancelRest ==
  ASSUME OrderStep, CancelRest
  PROVE  OrderInv'
<1>1. driver'.at = "off" /\ task' = [n \in Nodes |-> Idle] /\ point' = point
  BY DEF CancelRest, StopDriver, Off
<1>2. CASE Ended \/ run.status = "paused"
  <2>1. run' = run /\ UNCHANGED <<node, segment>>
    BY <1>2 DEF CancelRest
  <2>2. run'.status \notin {"running", "draining"}
    BY <1>2, <2>1 DEF Ended, Terminal
  <2> QED BY <1>1, <2>1, <2>2, OrderRests, PausedStays
<1>3. CASE ~ (Ended \/ run.status = "paused")
  <2>1. run' = [run EXCEPT !.status = "cancelled"]
    BY <1>3 DEF CancelRest, Finish
  <2>2. run'.status = "cancelled"
    BY <2>1 DEF OrderStep, WorkInv, TypeOK, Run
  <2>3. PausedKept'
    BY <2>2 DEF PausedKept
  <2> QED BY <1>1, <2>2, <2>3, OrderRests
<1> QED BY <1>2, <1>3

LEMMA OrderCliCancel ==
  ASSUME OrderStep, CliCancel
  PROVE  OrderInv'
<1>1. UNCHANGED <<plan, shared, leaf, segment, point, driver, task, lost>>
  BY DEF CliCancel
<1>2. CASE Active = {}
  <2>1. run' = [run EXCEPT !.cancel = TRUE, !.status = "cancelled"]
    BY <1>2 DEF CliCancel
  <2>2. run'.status = "cancelled" /\ Ended'
    BY <2>1 DEF OrderStep, WorkInv, TypeOK, Run, Ended, Terminal
  <2>3. Begun'
    BY <1>1 DEF OrderStep, OrderInv, PhaseInv, Begun, Starting
  <2>4. PausedKept' /\ DriverLeavesNothing'
    BY <2>2 DEF PausedKept, DriverLeavesNothing
  <2> QED BY <1>1, <2>2, <2>3, <2>4, InOrderStep, PhaseEnded, RefusedSame
            DEF OrderInv
<1>3. CASE Active # {}
  <2>1. run' = [run EXCEPT !.cancel = TRUE] /\ node' = node
    BY <1>3 DEF CliCancel
  <2>2. run'.status = run.status /\ run'.pausing = run.pausing
    BY <2>1 DEF OrderStep, WorkInv, TypeOK, Run
  <2> QED BY <1>1, <2>1, <2>2, OrderSame
<1> QED BY <1>2, <1>3

--------------------------------------------------------------------------------
(* The driver keeps the order                                                 *)

(* On its way through the order a driver finds a paused run with no node of   *)
(* it running.                                                                *)
LEMMA PausedAway ==
  ASSUME OrderStep, run' = run, Active' \subseteq Active,
         driver.at \notin {"off", "start", "resume", "cancel"}
  PROVE  PausedKept'
BY DEF OrderStep, OrderInv, PausedKept

(* A frontier that begins.                                                    *)
LEMMA PhaseFrontier ==
  ASSUME driver'.at = "frontier", ~Ended' => ~Behind(driver.node)',
         \A n \in driver'.team : task'[n].at = "start",
         IF driver'.node = NoNode THEN \A n \in driver'.team : leaf'[n] # "new"
                                  ELSE \A n \in driver'.team : leaf'[n] = "new"
  PROVE  PhaseInv'
<1>1. Begun' /\ LeftOpen'
  BY DEF Begun, LeftOpen, Starting
<1> QED BY <1>1 DEF PhaseInv, AtPick, AtEnd, AtDrive, AtTeam, AtClose

LEMMA OrderBegin ==
  ASSUME OrderStep, Begin
  PROVE  OrderInv'
<1>1. driver.at \in {"start", "resume"}
      /\ UNCHANGED <<plan, shared, leaf, point, parked, receipts, sent, lost>>
  BY BeginIs
<1>2. ASSUME Ended \/ BeginRow.status = "paused", StopDriver,
             UNCHANGED <<run, node, segment>>
      PROVE  OrderInv'
  <2>1. driver'.at = "off" /\ task' = [n \in Nodes |-> Idle]
    BY <1>2 DEF StopDriver, Off
  <2>2. Ended \/ run.status = "paused"
    <3>1. ~Ended /\ driver.at = "resume" => BeginRow.status # "paused"
      BY ResumeRun DEF BeginRow, OrderStep, WorkInv
    <3> QED BY <1>1, <1>2, <3>1 DEF BeginRow
  <2>3. run'.status \notin {"running", "draining"}
    BY <1>2, <2>2 DEF Ended, Terminal
  <2> QED BY <1>1, <1>2, <2>1, <2>3, OrderRests, PausedStays
<1>3. ASSUME ~Ended, StopDriver,
             Finish([BeginRow EXCEPT !.status = "cancelled"], Publishable)
      PROVE  OrderInv'
  <2>1. driver'.at = "off" /\ task' = [n \in Nodes |-> Idle]
    BY <1>3 DEF StopDriver, Off
  <2>2. run' = [BeginRow EXCEPT !.status = "cancelled"]
    BY <1>3 DEF Finish
  <2>3. run'.status = "cancelled"
    BY <1>3, <2>2, BeginRowIs DEF OrderStep, Run
  <2>4. PausedKept'
    BY <2>3 DEF PausedKept
  <2> QED BY <2>1, <2>3, <2>4, OrderRests
<1>4. ASSUME ~Ended, Starts
      PROVE  OrderInv'
  <2>1. run'.status # "paused" /\ UNCHANGED <<node, segment>>
    BY <1>4 DEF Starts
  <2>2. Active' = Active /\ PausedKept'
    BY <2>1 DEF Active, PausedKept
  <2>3. NoNode = 0 /\ Nodes \subseteq Nat \ {0}
    BY NodesAssumption DEF NoNode
  <2>4. CASE Active \cap shared = {}
    <3>1. driver' = After(NoNode) /\ task' = task
      BY <1>4, <2>4 DEF Starts
    <3>2. driver'.at # "off"
      BY <3>1, AfterRests
    <3>3. PhaseInv'
      <4>1. \A k \in Nodes : ~ (k <= NoNode)
        BY <2>3
      <4>2. \A k \in Active' : k \notin shared' /\ k \in Nodes
        BY <1>1, <2>2, <2>4 DEF Active
      <4> QED BY <3>1, <4>1, <4>2, PhaseAfter
    <3> QED BY <2>2, <3>1, <3>2, <3>3, InOrderStep, RefusedSame
              DEF OrderInv, DriverLeavesNothing
  <2>5. CASE Active \cap shared # {}
    <3>1. /\ driver' = [at |-> "frontier", node |-> NoNode,
                        team |-> Active \cap shared, saw |-> BeginRow.pausing]
          /\ Launch(Active \cap shared)
      BY <1>4, <2>5 DEF Starts
    <3>2. /\ driver'.at = "frontier" /\ driver'.node = NoNode
          /\ driver'.team = Active \cap shared
      BY <3>1
    <3>3. \A n \in driver'.team : task'[n].at = "start"
      BY <3>1, <3>2, LaunchIs DEF Active
    <3>4. \A n \in driver'.team : leaf'[n] # "new"
      BY <1>1, <3>2 DEF OrderStep, WorkInv, NodesKept
    <3>5. ~Behind(driver.node)'
      BY <2>3, <3>2 DEF Behind
    <3>6. PhaseInv'
      BY <3>2, <3>3, <3>4, <3>5, PhaseFrontier
    <3>7. RefusedKept'
      BY <3>1, LaunchIs DEF RefusedKept
    <3> QED BY <2>2, <3>2, <3>6, <3>7, InOrderStep
              DEF OrderInv, DriverLeavesNothing
  <2> QED BY <2>4, <2>5
<1> QED BY <1>2, <1>3, <1>4, BeginIs

LEMMA OrderPick ==
  ASSUME OrderStep, NEW n \in Nodes, Pick(n)
  PROVE  OrderInv'
<1>1. driver.at = "pick" /\ driver.node = n /\ UNCHANGED durable
  BY PickIs DEF OrderStep
<1>2. UNCHANGED <<run, node, shared, leaf, segment, point>>
  BY <1>1 DEF durable
<1>3. Active' = Active /\ (Ended' <=> Ended)
  BY <1>2 DEF Active, Ended
<1>4. PausedKept'
  BY <1>1, <1>2, <1>3, PausedAway
<1>5. n \in Nat /\ n # NoNode /\ Nodes \subseteq Nat /\ Active \subseteq Nodes
  BY NodesAssumption DEF Active
<1>6. /\ ~Ended /\ Behind(n) => run.pausing
      /\ ~Ended => \A k \in Active : k \in shared \/ k < n => Parked(k)
  BY <1>1 DEF OrderStep, OrderInv, PhaseInv, AtPick
<1>7. run.status \in {"draining", "paused"} => run.pausing
  BY DEF OrderStep, WorkInv, TypeOK
<1>8. run.pausing => run.status \in {"draining", "paused"} \cup Terminal
  BY DEF OrderStep, WorkInv, RunKept
<1>9. ASSUME Ended \/ run.status = "paused",
             driver' = [Off EXCEPT !.at = "end"], task' = task
      PROVE  OrderInv'
  <2>1. driver'.at = "end"
    BY <1>9 DEF Off
  <2>2. AtEnd'
    <3>1. ~Ended => Active = {} /\ run.pausing
      BY <1>1, <1>7, <1>9 DEF OrderStep, OrderInv, PausedKept
    <3> QED BY <1>2, <1>3, <3>1 DEF AtEnd
  <2>3. PhaseInv'
    BY <2>1, <2>2 DEF PhaseInv, AtPick, AtDrive, AtTeam, Begun, LeftOpen,
                      AtClose, TeamAt
  <2> QED BY <1>4, <1>9, <2>1, <2>3, InOrderStep, RefusedSame
            DEF OrderInv, DriverLeavesNothing
<1>10. ASSUME StopDriver, lost' = TRUE
       PROVE  OrderInv'
  <2>1. driver'.at = "off" /\ task' = [m \in Nodes |-> Idle]
    BY <1>10 DEF StopDriver, Off
  <2> QED BY <1>4, <1>10, <2>1, OrderRests
<1>11. ASSUME ~Ended, run.status # "paused", Skips(n)
       PROVE  OrderInv'
  <2>1. /\ driver' = After(n) /\ task' = task
        /\ node[n] = "completed" \/ (node[n] = "queued" /\ run.status = "draining")
    BY <1>11 DEF Skips
  <2>2. driver'.at # "off"
    BY <2>1, AfterRests
  <2>3. (\E k \in Nodes : k <= n /\ node'[k] # "completed") => run'.pausing
    <3>1. \A k \in Nodes : k <= n => k < n \/ k = n
      BY <1>5
    <3> QED BY <1>2, <1>6, <1>7, <1>11, <2>1, <3>1 DEF Behind
  <2>4. \A k \in Active' : k \in shared' \/ k <= n => Parked(k)'
    <3>1. \A k \in Active : k \in Nodes /\ k # n
      BY <2>1 DEF Active
    <3>2. \A k \in Active : k <= n => k < n
      BY <1>5, <3>1
    <3>3. \A k \in Active : Parked(k) => Parked(k)'
      BY <1>2 DEF Parked
    <3> QED BY <1>2, <1>3, <1>6, <1>11, <3>2, <3>3
  <2>5. PhaseInv'
    BY <2>1, <2>3, <2>4, PhaseAfter
  <2> QED BY <1>4, <2>1, <2>2, <2>5, InOrderStep, RefusedSame
            DEF OrderInv, DriverLeavesNothing
<1>12. ASSUME ~Ended, run.status # "paused", Gathers(n)
       PROVE  OrderInv'
  <2>1. /\ run.status \in {"queued", "running"}
        /\ Frontier(n) \subseteq {m \in Nodes : node[m] = "queued"}
        /\ driver' = [at |-> "frontier", node |-> n, team |-> Frontier(n),
                      saw |-> run.pausing]
        /\ Launch(Frontier(n))
    BY <1>12 DEF Gathers
  <2>2. driver'.at = "frontier" /\ driver'.node = n /\ driver'.team = Frontier(n)
    BY <2>1
  <2>3. ~Behind(driver.node)'
    BY <1>2, <1>6, <1>8, <1>12, <2>1, <2>2 DEF Behind, Ended
  <2>4. \A m \in driver'.team : leaf'[m] = "new" /\ task'[m].at = "start"
    BY <1>2, <2>1, <2>2, LaunchIs DEF OrderStep, WorkInv, TypeOK
  <2>5. PhaseInv'
    BY <1>5, <2>2, <2>3, <2>4, PhaseFrontier
  <2>6. RefusedKept'
    BY <2>1, LaunchIs DEF RefusedKept
  <2> QED BY <1>4, <2>2, <2>5, <2>6, InOrderStep DEF OrderInv, DriverLeavesNothing
<1>13. ASSUME ~Ended, run.status # "paused", TakesUp(n)
       PROVE  OrderInv'
  <2>1. /\ node[n] # "completed" /\ ~ (node[n] = "queued" /\ run.status = "draining")
        /\ driver' = [at |-> "drive", node |-> n, team |-> {}, saw |-> run.pausing]
        /\ Launch({n})
    BY <1>13 DEF TakesUp
  <2>2. driver'.at = "drive" /\ driver'.node = n /\ driver'.saw = run.pausing
    BY <2>1
  <2>3. run.status = "draining" => n \in Active
    BY <1>13, <2>1 DEF OrderStep, WorkInv, NodesKept, TypeOK, Terminal, Active
  <2>4. Behind(n) => n \in Active \cap shared
    BY <1>6, <1>8, <1>13, <2>3
      DEF OrderStep, OrderInv, InOrderKept, Ended
  <2>5. \A k \in Active \cap shared : run.status = "draining" /\ Parked(k)
    BY <1>6, <1>13 DEF Parked
  <2>6. \A k \in Active \cap shared : n \in Active \cap shared
    BY <2>3, <2>5 DEF OrderStep, WorkInv, Together
  <2>7. AtDrive'
    <3>1. Behind(n)' <=> Behind(n)
      BY <1>2 DEF Behind
    <3>2. n \in Active \cap shared => run.pausing
      BY <1>7, <2>5
    <3>3. \A k \in Active \cap shared : leaf[k] = "interrupted" /\ segment[k] # "active"
      BY <2>5 DEF Parked
    <3> QED BY <1>2, <1>3, <2>2, <2>4, <2>6, <3>1, <3>2, <3>3 DEF AtDrive
  <2>8. PhaseInv'
    BY <2>2, <2>7 DEF PhaseInv, AtPick, AtEnd, AtTeam, Begun, LeftOpen,
                      AtClose, TeamAt
  <2>9. RefusedKept'
    BY <2>1, LaunchIs DEF RefusedKept
  <2> QED BY <1>4, <2>2, <2>8, <2>9, InOrderStep DEF OrderInv, DriverLeavesNothing
<1> QED BY <1>9, <1>10, <1>11, <1>12, <1>13, PickIs DEF OrderStep

(* One drive moves on, in a driver that stays where it is.                    *)
LEMMA PhaseMoves ==
  ASSUME OrderStep, NEW n \in Nodes, UNCHANGED <<run, node, shared, driver>>,
         driver.at \in {"drive", "frontier"},
         task'[n].at \in {"turn", "again", "ended"},
         task'[n].at = "again" /\ driver.at = "frontier" => driver.node = NoNode,
         leaf'[n] = "new" => leaf[n] = "new",
         leaf'[n] = leaf[n] \/ leaf[n] \in {"open", "interrupted"},
         \A m \in Nodes \ {n} : /\ task'[m] = task[m] /\ leaf'[m] = leaf[m]
                                /\ segment'[m] = segment[m],
         ~Ended /\ driver.at = "drive" =>
           Active \cap shared = {} \/ UNCHANGED <<leaf, segment>>
  PROVE  PhaseInv'
<1>1. /\ Active' = Active /\ (Ended' <=> Ended)
      /\ driver.node \in Nodes \cup {NoNode} /\ driver.team \subseteq Nodes
  BY DEF Active, Ended, OrderStep, WorkInv, TypeOK, Driver
<1>2. Behind(driver.node)' <=> Behind(driver.node)
  BY DEF Behind
<1>3. AtPick' /\ AtEnd' /\ AtClose'
  BY DEF AtPick, AtEnd, AtClose
<1>4. AtDrive'
  BY <1>1, <1>2 DEF OrderStep, OrderInv, PhaseInv, AtDrive
<1>5. AtTeam'
  BY <1>1, <1>2 DEF OrderStep, OrderInv, PhaseInv, AtTeam
<1>6. Begun'
  BY <1>1 DEF OrderStep, OrderInv, PhaseInv, Begun, Starting
<1>7. LeftOpen'
  <2>1. \A f \in Nodes : Doomed(f) => Doomed(f)'
    BY DEF Doomed
  <2> QED BY <1>1, <2>1 DEF OrderStep, OrderInv, PhaseInv, LeftOpen
<1> QED BY <1>3, <1>4, <1>5, <1>6, <1>7 DEF PhaseInv

(* A driver at work leaves nothing yet.                                       *)
LEMMA AtWork ==
  ASSUME WorkInv, NEW n \in Nodes,
         task[n].at \in {"start", "turn", "again", "ended"}, UNCHANGED driver
  PROVE  /\ driver.at \in {"drive", "frontier"} /\ DriverLeavesNothing'
         /\ driver.at = "drive" => driver.node = n
         /\ driver.at = "frontier" => n \in driver.team
BY DrivenBy DEF DriverLeavesNothing

(* A drive that ends without a Turn.                                          *)
LEMMA OrderEnds ==
  ASSUME OrderStep, NEW n \in Nodes, Starting(n),
         NEW error \in {"none", "paused", "reused", "other"}, Ends(n, error),
         UNCHANGED durable, UNCHANGED <<driver, lost>>,
         error = "paused" => run.status # "queued"
  PROVE  OrderInv'
<1>1. UNCHANGED <<run, node, shared, leaf, segment, point>>
  BY DEF durable
<1>2. /\ task'[n] = [at |-> "ended", error |-> error]
      /\ \A m \in Nodes \ {n} : task'[m] = task[m]
  BY DEF Ends, OrderStep, WorkInv, TypeOK
<1>3. driver.at \in {"drive", "frontier"} /\ DriverLeavesNothing'
  BY AtWork DEF Starting, OrderStep
<1>4. PhaseInv'
  BY <1>1, <1>2, <1>3, PhaseMoves
<1>5. PausedKept'
  BY <1>1, PausedStays
<1>6. RefusedKept'
  BY <1>1, <1>2 DEF OrderStep, OrderInv, RefusedKept
<1> QED BY <1>3, <1>4, <1>5, <1>6, InOrderStep DEF OrderInv

LEMMA OrderReopen ==
  ASSUME OrderStep, NEW n \in Nodes, Reopen(n)
  PROVE  OrderInv'
<1>1. /\ Starting(n) /\ task' = [task EXCEPT ![n].at = "turn"]
      /\ UNCHANGED <<run, node, shared, leaf, segment, point, driver>>
  BY DEF Reopen, durable
<1>2. /\ task'[n].at = "turn" /\ task'[n].error = task[n].error
      /\ \A m \in Nodes \ {n} : task'[m] = task[m]
  BY <1>1 DEF OrderStep, WorkInv, TypeOK, Drive
<1>3. driver.at \in {"drive", "frontier"} /\ DriverLeavesNothing'
  BY <1>1, AtWork DEF Starting, OrderStep
<1>4. PhaseInv'
  BY <1>1, <1>2, <1>3, PhaseMoves
<1>5. PausedKept'
  BY <1>1, PausedStays
<1>6. RefusedKept'
  BY <1>2, RefusedSame
<1> QED BY <1>3, <1>4, <1>5, <1>6, InOrderStep DEF OrderInv

LEMMA OrderLeave ==
  ASSUME OrderStep, NEW n \in Nodes, Leave(n)
  PROVE  OrderInv'
<1>1. /\ Starting(n) /\ Ends(n, "none")
      /\ UNCHANGED durable /\ UNCHANGED <<driver, lost>>
  BY DEF Leave
<1> QED BY <1>1, OrderEnds

(* A pause fact never stands in a run that waits to start.                    *)
LEMMA RefusedLater ==
  ASSUME WorkInv, run.pausing \/ run.status \notin {"queued", "running"}
  PROVE  run.status # "queued"
BY DEF WorkInv, RunKept, Terminal

LEMMA OrderAdmits ==
  ASSUME OrderStep, NEW n \in Nodes, Starting(n), node[n] = "queued", Admits(n)
  PROVE  OrderInv'
<1>1. /\ ~Ended /\ run' = [run EXCEPT !.status = "running"]
      /\ node' = [node EXCEPT ![n] = "running"]
      /\ leaf' = [leaf EXCEPT ![n] = "open"]
      /\ shared' = IF n \in driver.team THEN shared \cup {n} ELSE shared
      /\ task' = [task EXCEPT ![n].at = "turn"]
      /\ segment' = [segment EXCEPT ![n] = "active"]
      /\ UNCHANGED <<plan, point, driver, lost>>
  BY DEF Admits, Ended, Terminal
<1>2. run'.status = "running"
  BY <1>1 DEF OrderStep, WorkInv, TypeOK, Run
<1>3. /\ node'[n] = "running" /\ leaf'[n] = "open" /\ task'[n].at = "turn"
      /\ \A m \in Nodes \ {n} : /\ node'[m] = node[m] /\ leaf'[m] = leaf[m]
                                /\ task'[m] = task[m] /\ segment'[m] = segment[m]
  BY <1>1 DEF OrderStep, WorkInv, TypeOK, Drive
<1>4. /\ driver.at \in {"drive", "frontier"} /\ DriverLeavesNothing'
      /\ driver.at = "drive" => driver.node = n
  BY <1>1, AtWork DEF Starting, OrderStep
<1>5. \A m \in Nodes \cup {NoNode} : Behind(m)' => Behind(m)
  BY DEF OrderStep, Onward, Behind
<1>6. n \notin Active
  BY DEF Active
<1>7. PausedKept' /\ RefusedKept'
  BY <1>2 DEF PausedKept, RefusedKept
<1>8. AtPick' /\ AtEnd' /\ AtClose'
  BY <1>1, <1>4 DEF AtPick, AtEnd, AtClose
<1>9. AtDrive'
  <2>1. CASE driver.at = "drive"
    <3>1. ~Behind(n) /\ Active \cap shared = {}
      BY <1>1, <1>4, <1>6, <2>1 DEF OrderStep, OrderInv, PhaseInv, AtDrive
    <3>2. n \notin shared
      BY DEF OrderStep, OrderInv, InOrderKept
    <3>3. shared' = shared
      BY <1>1, <2>1 DEF OrderStep, WorkInv, DriverKept, TeamAt
    <3>4. \A k \in Active' : k = n \/ k \in Active
      BY <1>3 DEF Active
    <3>5. Active' \cap shared' = {}
      BY <3>1, <3>2, <3>3, <3>4
    <3>6. ~Behind(driver.node)'
      BY <1>1, <1>4, <1>5, <2>1, <3>1
    <3> QED BY <1>1, <3>5, <3>6 DEF AtDrive
  <2>2. CASE driver.at # "drive"
    BY <1>1, <2>2 DEF AtDrive
  <2> QED BY <2>1, <2>2
<1>10. driver.node \in Nodes \cup {NoNode} /\ driver.team \subseteq Nodes
  BY DEF OrderStep, WorkInv, TypeOK, Driver
<1>11. AtTeam'
  BY <1>1, <1>5, <1>10 DEF OrderStep, OrderInv, PhaseInv, AtTeam
<1>12. Begun'
  BY <1>1, <1>3, <1>10 DEF OrderStep, OrderInv, PhaseInv, Begun, Starting
<1>13. LeftOpen'
  <2>1. \A f \in Nodes : Doomed(f) => Doomed(f)' /\ f # n
    BY <1>3 DEF Doomed
  <2> QED BY <1>1, <1>3, <1>4, <1>10, <2>1
        DEF OrderStep, OrderInv, PhaseInv, LeftOpen
<1> QED BY <1>4, <1>7, <1>8, <1>9, <1>11, <1>12, <1>13, InOrderStep
          DEF OrderInv, PhaseInv

LEMMA OrderAdmit ==
  ASSUME OrderStep, NEW n \in Nodes, Admit(n)
  PROVE  OrderInv'
<1>1. ASSUME Starting(n), run.pausing \/ run.status \notin {"queued", "running"},
             Ends(n, "paused"), UNCHANGED durable, UNCHANGED <<driver, lost>>
      PROVE  OrderInv'
  BY <1>1, OrderEnds, RefusedLater DEF OrderStep
<1>2. ASSUME Starting(n), Ends(n, "other"), UNCHANGED durable,
             UNCHANGED <<driver, lost>>
      PROVE  OrderInv'
  BY <1>2, OrderEnds
<1> QED BY <1>1, <1>2, AdmitIs, OrderAdmits

LEMMA OrderContinue ==
  ASSUME OrderStep, NEW n \in Nodes, Continue(n)
  PROVE  OrderInv'
<1>1. Starting(n) /\ node[n] = "running" /\ leaf[n] = "interrupted" /\ ~driver.saw
  BY ContinueIs
<1>2. ASSUME NEW error \in {"paused", "reused"}, Ends(n, error),
             UNCHANGED durable, UNCHANGED <<driver, lost>>
      PROVE  OrderInv'
  <2>1. run.status # "queued"
    BY <1>1 DEF OrderStep, WorkInv, RunKept, Active
  <2> QED BY <1>1, <1>2, <2>1, OrderEnds
<1>3. ASSUME Continued(n)
      PROVE  OrderInv'
  <2>1. /\ run.status \in {"queued", "running"}
        /\ leaf' = [leaf EXCEPT ![n] = "open"]
        /\ segment' = [segment EXCEPT ![n] = "active"]
        /\ task' = [task EXCEPT ![n].at = "again"]
        /\ UNCHANGED <<plan, run, node, shared, driver, lost>>
    BY <1>3 DEF Continued
  <2>2. /\ leaf'[n] = "open" /\ task'[n].at = "again"
        /\ task'[n].error = task[n].error
        /\ \A m \in Nodes \ {n} : /\ leaf'[m] = leaf[m] /\ task'[m] = task[m]
                                  /\ segment'[m] = segment[m]
    BY <2>1 DEF OrderStep, WorkInv, TypeOK, Drive
  <2>3. /\ driver.at \in {"drive", "frontier"} /\ DriverLeavesNothing'
        /\ driver.at = "drive" => driver.node = n
        /\ driver.at = "frontier" => n \in driver.team
    BY <1>1, <2>1, AtWork DEF Starting, OrderStep
  <2>4. ~Ended /\ driver.at = "drive" => Active \cap shared = {}
    BY <1>1, <2>3 DEF OrderStep, OrderInv, PhaseInv, AtDrive
  <2>5. driver.at = "frontier" => driver.node = NoNode
    BY <1>1, <2>3 DEF OrderStep, OrderInv, PhaseInv, Begun
  <2>6. PhaseInv'
    BY <1>1, <2>1, <2>2, <2>3, <2>4, <2>5, PhaseMoves
  <2>7. PausedKept'
    BY <2>1 DEF PausedKept
  <2>8. RefusedKept'
    BY <2>2, RefusedSame
  <2> QED BY <2>3, <2>6, <2>7, <2>8, InOrderStep DEF OrderInv
<1> QED BY <1>2, <1>3, ContinueIs

LEMMA OrderEndTurn ==
  ASSUME OrderStep, NEW n \in Nodes, EndsTurn(n)
  PROVE  OrderInv'
<1>1. PICK last \in {"interrupted", "ready", "failed"} : EndTurn(n, last)
  BY DEF EndsTurn, Stop, Break, Answer, Fail
<1>2. /\ InTurn(n) /\ leaf' = [leaf EXCEPT ![n] = last] /\ Ends(n, "none")
      /\ UNCHANGED <<plan, run, node, shared, segment, point, driver, lost>>
  BY <1>1 DEF EndTurn
<1>3. leaf[n] = "open"
  BY <1>2 DEF OrderStep, WorkInv, TasksKept
<1>4. /\ leaf'[n] = last /\ task'[n] = [at |-> "ended", error |-> "none"]
      /\ \A m \in Nodes \ {n} : leaf'[m] = leaf[m] /\ task'[m] = task[m]
  BY <1>2 DEF Ends, OrderStep, WorkInv, TypeOK
<1>5. /\ driver.at \in {"drive", "frontier"} /\ DriverLeavesNothing'
      /\ driver.at = "drive" => driver.node = n
  BY <1>2, AtWork DEF InTurn, OrderStep
<1>6. ~Ended /\ driver.at = "drive" => Active \cap shared = {}
  BY <1>3, <1>5 DEF OrderStep, OrderInv, PhaseInv, AtDrive
<1>7. PhaseInv'
  BY <1>2, <1>3, <1>4, <1>5, <1>6, PhaseMoves
<1>8. PausedKept'
  BY <1>2, PausedStays
<1>9. RefusedKept'
  BY <1>4, RefusedSame
<1> QED BY <1>5, <1>7, <1>8, <1>9, InOrderStep DEF OrderInv

--------------------------------------------------------------------------------
(* A settlement keeps the order                                               *)

(* A node that parks leaves a run that drains while nodes of it are active.   *)
Parking(n) ==
  /\ run'.pausing /\ run'.status \in {"draining", "paused"}
  /\ Active # {} => run'.status = "draining"
  /\ point'.life = "suspended" /\ node' = node
  /\ n \in Active => leaf[n] = "interrupted"
  /\ segment'[n] # "active" /\ \A m \in Nodes \ {n} : segment'[m] = segment[m]

LEMMA ParksIs ==
  ASSUME OrderStep, NEW n \in Nodes, Parks(n),
         driver.at \in {"drive", "settle", "publish", "close"}
  PROVE  Parking(n) /\ ~Ended'
<1>1. /\ ~Ended /\ point'.life = "suspended" /\ node' = node
      /\ leaf[n] = "interrupted" \/ (leaf[n] = "new" /\ run.pausing)
      /\ run' = IF leaf[n] = "interrupted" THEN AfterPause(run, Active) ELSE run
      /\ segment' = IF segment[n] = "active"
                      THEN [segment EXCEPT ![n] = "interrupted"] ELSE segment
  BY DEF Parks
<1>2. Active # {} => run.status # "paused"
  BY DEF OrderStep, OrderInv, PausedKept
<1>3. /\ run'.pausing /\ run'.status \in {"draining", "paused"}
      /\ Active # {} => run'.status = "draining"
  <2>1. CASE leaf[n] = "interrupted"
    BY <1>1, <1>2, <2>1, PauseRun DEF OrderStep, WorkInv
  <2>2. CASE leaf[n] # "interrupted"
    BY <1>1, <1>2, <2>2 DEF OrderStep, WorkInv, RunKept, Ended
  <2> QED BY <2>1, <2>2
<1>4. n \in Active => leaf[n] = "interrupted"
  BY <1>1 DEF OrderStep, WorkInv, NodesKept
<1>5. segment'[n] # "active" /\ \A m \in Nodes \ {n} : segment'[m] = segment[m]
  BY <1>1 DEF OrderStep, WorkInv, TypeOK
<1>6. ~Ended'
  BY <1>3 DEF Ended, Terminal
<1> QED BY <1>1, <1>3, <1>4, <1>5, <1>6 DEF Parking

(* What a settlement leaves behind when the run goes on.                      *)
Committed(n) ==
  /\ leaf[n] = "ready" /\ run' = run /\ point' = point /\ node'[n] = "completed"
  /\ \A m \in Nodes \ {n} : node'[m] = node[m] /\ segment'[m] = segment[m]

LEMMA SettleOrder ==
  ASSUME OrderStep, NEW n \in Nodes, SettleFrame,
         Kept(n) \/ Commits(n) \/ Parks(n) \/ Closes,
         driver.at \in {"drive", "settle", "close"}
  PROVE  /\ PausedKept'
         /\ \/ Ended'
            \/ ~Ended /\ ~Ended' /\ (Kept(n) \/ Committed(n) \/ Parking(n))
<1>1. Ended => Ended'
  BY DEF OrderStep, Onward
<1>2. ASSUME Ended' PROVE PausedKept'
  BY <1>2 DEF PausedKept, Ended, Terminal
<1>3. CASE Kept(n)
  <2>1. run' = run /\ Active' = Active /\ (Ended' <=> Ended)
    BY <1>3 DEF Kept, Active, Ended
  <2> QED BY <1>3, <2>1, PausedAway
<1>4. CASE Commits(n)
  <2>1. CASE Finish([run EXCEPT !.status = "completed"], {n})
    <3>1. run' = [run EXCEPT !.status = "completed"]
      BY <2>1 DEF Finish
    <3>2. Ended'
      BY <3>1 DEF OrderStep, WorkInv, TypeOK, Run, Ended, Terminal
    <3> QED BY <1>2, <3>2
  <2>2. CASE Complete({n}) /\ UNCHANGED run
    <3>1. Committed(n)
      BY <1>4, <2>2 DEF Complete, Commits, Committed
    <3>2. Active' \subseteq Active /\ ~Ended /\ ~Ended'
      BY <1>4, <2>2 DEF Complete, Commits, Active, Ended
    <3> QED BY <2>2, <3>1, <3>2, PausedAway
  <2> QED BY <1>4, <2>1, <2>2 DEF Commits
<1>5. CASE Parks(n)
  <2>1. Parking(n) /\ ~Ended'
    BY <1>5, ParksIs
  <2>2. run'.status = "paused" => Active' = {}
    BY <2>1 DEF Parking, Active
  <2> QED BY <1>1, <2>1, <2>2 DEF PausedKept
<1>6. CASE Closes
  <2>1. PICK s \in {"failed", "cancelled"} : run' = [run EXCEPT !.status = s]
    BY <1>6 DEF Closes, Close, Finish
  <2>2. Ended'
    BY <2>1 DEF OrderStep, WorkInv, TypeOK, Run, Ended, Terminal
  <2> QED BY <1>2, <2>2
<1> QED BY <1>3, <1>4, <1>5, <1>6

LEMMA OrderSettleSerial ==
  ASSUME OrderStep, NEW n \in Nodes, SettleSerial(n)
  PROVE  OrderInv'
<1>1. /\ driver.at = "drive" /\ driver.node = n /\ driver' = After(n)
      /\ task[n].at = "ended" /\ task' = [task EXCEPT ![n] = Idle]
      /\ SettleFrame /\ UNCHANGED lost
  BY DEF SettleSerial, SettleFrame
<1>2. /\ Kept(n) \/ Commits(n) \/ Parks(n) \/ Closes
      /\ Kept(n) /\ ~Ended => ~ (node[n] = "queued" /\ run.status = "running")
  <2>1. CASE /\ node[n] = "queued" /\ run.status = "running"
             /\ leaf[n] = "new" /\ task[n].error = "paused"
    <3>1. Close("failed") /\ UNCHANGED <<point, parked>>
      BY <2>1 DEF SettleSerial
    <3>2. Closes
      BY <2>1, <3>1 DEF Closes, Ended, Terminal
    <3>3. run' # run
      BY <2>1, <3>1 DEF Close, Finish, OrderStep, WorkInv, TypeOK, Run
    <3> QED BY <3>2, <3>3 DEF Kept
  <2>2. CASE ~ (/\ node[n] = "queued" /\ run.status = "running"
                /\ leaf[n] = "new" /\ task[n].error = "paused")
    <3>1. Settle(n)
      BY <2>2 DEF SettleSerial
    <3>2. leaf[n] # "open"
      BY <1>1 DEF OrderStep, WorkInv, TasksKept
    <3>3. Kept(n) \/ Commits(n) \/ Parks(n) \/ Closes
      BY <3>1, SettleIs DEF OrderStep, WorkInv
    <3> QED BY <2>2, <3>2, <3>3 DEF Kept
  <2> QED BY <2>1, <2>2
<1>3. /\ PausedKept'
      /\ \/ Ended'
         \/ ~Ended /\ ~Ended' /\ (Kept(n) \/ Committed(n) \/ Parking(n))
  BY <1>1, <1>2, SettleOrder
<1>4. shared' = shared /\ leaf' = leaf
  BY <1>1 DEF SettleFrame
<1>5. ~Ended =>
        /\ Behind(n) => n \in Active \cap shared
        /\ \A k \in Active \cap shared :
             /\ n \in Active \cap shared
             /\ leaf[k] = "interrupted" /\ segment[k] # "active"
  BY <1>1 DEF OrderStep, OrderInv, PhaseInv, AtDrive
<1>6. n \in Nat /\ Nodes \subseteq Nat /\ Active \subseteq Nodes /\ Active' \subseteq Nodes
  BY NodesAssumption DEF Active
<1>7. \A k \in Nodes : k <= n => k < n \/ k = n
  BY <1>6
<1>8. \A k \in Active : k <= n => k = n \/ Behind(n)
  BY <1>6, <1>7 DEF Behind, Active
<1>9. ASSUME ~Ended, Kept(n)
      PROVE  /\ run'.pausing
             /\ \A k \in Active' : k \in shared' \/ k <= n => Parked(k)'
  <2>1. leaf[n] = "new" /\ task[n].error = "paused"
    BY <1>1, <1>9 DEF Kept, OrderStep, WorkInv, TasksKept
  <2>2. n \notin Active /\ node[n] = "queued"
    BY <1>9, <2>1 DEF OrderStep, WorkInv, NodesKept, TypeOK, Active, Terminal
  <2>3. run.status \in {"draining", "paused"}
    <3>1. run.status # "queued"
      BY <2>1 DEF OrderStep, OrderInv, RefusedKept
    <3> QED BY <1>2, <1>9, <2>2, <3>1 DEF OrderStep, WorkInv, TypeOK, Run, Ended
  <2>4. run' = run /\ Active' = Active
    BY <1>9 DEF Kept, Active
  <2>5. run'.pausing
    BY <2>3, <2>4 DEF OrderStep, WorkInv, TypeOK
  <2> QED BY <1>4, <1>5, <1>8, <1>9, <2>2, <2>4, <2>5
<1>10. ASSUME ~Ended, Committed(n)
       PROVE  /\ \A k \in Nodes : k <= n => node'[k] = "completed"
              /\ \A k \in Active' : ~ (k \in shared' \/ k <= n)
  <2>1. leaf[n] = "ready" /\ node'[n] = "completed"
        /\ \A m \in Nodes \ {n} : node'[m] = node[m]
    BY <1>10 DEF Committed
  <2>2. ~Behind(n) /\ Active \cap shared = {}
    BY <1>5, <1>10, <2>1
  <2>3. \A k \in Active' : k \in Active /\ k # n
    BY <2>1 DEF Active
  <2>4. \A k \in Nodes : k <= n => node'[k] = "completed"
    BY <1>7, <2>1, <2>2 DEF Behind
  <2> QED BY <1>4, <1>8, <2>2, <2>3, <2>4
<1>11. ASSUME ~Ended, Parking(n)
       PROVE  /\ run'.pausing
              /\ \A k \in Active' : k \in shared' \/ k <= n => Parked(k)'
  <2>1. Active' = Active
    BY <1>11 DEF Parking, Active
  <2>2. ASSUME NEW k \in Active, k \in shared \/ k <= n
        PROVE  Parked(k)'
    <3>1. run'.status = "draining" /\ point'.life = "suspended"
      BY <1>11 DEF Parking
    <3>2. k = n \/ k \in shared
      <4>1. k # n /\ Behind(n) => k \in shared
        BY <1>5, <1>11 DEF OrderStep, WorkInv, Together
      <4> QED BY <1>8, <2>2, <4>1
    <3>3. leaf[k] = "interrupted" /\ segment'[k] # "active"
      BY <1>5, <1>6, <1>11, <3>2 DEF Parking
    <3> QED BY <1>4, <3>1, <3>3 DEF Parked
  <2> QED BY <1>4, <1>11, <2>1, <2>2 DEF Parking
<1>12. PhaseInv'
  <2>1. ~Ended' => /\ (\E k \in Nodes : k <= n /\ node'[k] # "completed")
                        => run'.pausing
                   /\ \A k \in Active' : k \in shared' \/ k <= n => Parked(k)'
    BY <1>3, <1>9, <1>10, <1>11
  <2> QED BY <1>1, <2>1, PhaseAfter
<1>13. RefusedKept'
  <2>1. \A m \in Nodes : task'[m].error = "paused" => task[m].error = "paused"
    BY <1>1 DEF OrderStep, WorkInv, TypeOK, Idle
  <2> QED BY <2>1, RefusedSame
<1>14. driver'.at # "off"
  BY <1>1, AfterRests
<1> QED BY <1>3, <1>12, <1>13, <1>14, InOrderStep DEF OrderInv, DriverLeavesNothing

(* A node of a frontier settles: what is still joined settles after it, and   *)
(* a doomed node closes the run before any Turn is left behind.               *)
LEMMA OrderSettleNext ==
  ASSUME OrderStep, NEW n \in Nodes, SettleNext(n)
  PROVE  OrderInv'
<1>1. /\ driver.at \in {"settle", "close"} /\ task[n].at = "joined"
      /\ task' = [task EXCEPT ![n].at = "off"] /\ SettleFrame /\ UNCHANGED lost
  BY DEF SettleNext, SettleFrame
<1>2. /\ task'[n].at = "off" /\ task'[n].error = task[n].error
      /\ \A m \in Nodes \ {n} : task'[m] = task[m]
  BY <1>1 DEF OrderStep, WorkInv, TypeOK, Drive
<1>3. /\ driver.node \in Nodes \cup {NoNode} /\ driver.team \subseteq Nodes
      /\ driver \in Driver /\ driver.at \in TeamAt
  BY <1>1 DEF OrderStep, WorkInv, TypeOK, Driver, TeamAt
<1>4. shared' = shared /\ leaf' = leaf
  BY <1>1 DEF SettleFrame
<1>5. \/ node[n] = "running" /\ (Kept(n) \/ Commits(n) \/ Parks(n) \/ Closes)
         /\ (Doomed(n) /\ ~Ended => Closes)
      \/ node[n] # "running" /\ UNCHANGED <<run, node, segment, point>>
  <2>1. CASE node[n] = "running" /\ Settle(n)
    <3>1. Kept(n) \/ Commits(n) \/ Parks(n) \/ Closes
      BY <2>1, SettleIs DEF OrderStep, WorkInv
    <3>2. Doomed(n) /\ ~Ended => ~Kept(n) /\ ~Commits(n) /\ ~Parks(n)
      BY DEF Doomed, Kept, Commits, Parks
    <3> QED BY <2>1, <3>1, <3>2
  <2> QED BY <2>1 DEF SettleNext
<1>6. /\ PausedKept'
      /\ \/ Ended'
         \/ /\ ~Ended /\ ~Ended' /\ ~Doomed(n)
            /\ \/ run' = run /\ UNCHANGED <<node, segment, point>>
                  /\ (node[n] = "running" => leaf[n] = "open")
               \/ Committed(n)
               \/ Parking(n)
  <2>1. CASE /\ node[n] = "running" /\ (Kept(n) \/ Commits(n) \/ Parks(n) \/ Closes)
             /\ Doomed(n) /\ ~Ended => Closes
    <3>1. /\ PausedKept'
          /\ \/ Ended'
             \/ ~Ended /\ ~Ended' /\ (Kept(n) \/ Committed(n) \/ Parking(n))
      BY <1>1, <2>1, SettleOrder
    <3>2. ~Ended /\ Doomed(n) => Ended'
      <4>1. ASSUME Closes PROVE Ended'
        <5>1. PICK s \in {"failed", "cancelled"} : run' = [run EXCEPT !.status = s]
          BY <4>1 DEF Closes, Close, Finish
        <5> QED BY <5>1 DEF OrderStep, WorkInv, TypeOK, Run, Ended, Terminal
      <4> QED BY <2>1, <4>1
    <3>3. Kept(n) /\ ~Ended => /\ run' = run /\ UNCHANGED <<node, segment, point>>
                               /\ leaf[n] = "open"
      BY <2>1 DEF Kept, OrderStep, WorkInv, NodesKept, Active
    <3> QED BY <3>1, <3>2, <3>3
  <2>2. CASE node[n] # "running" /\ UNCHANGED <<run, node, segment, point>>
    <3>1. Active' = Active /\ (Ended' <=> Ended) /\ PausedKept'
      BY <1>1, <2>2, PausedAway DEF Active, Ended
    <3> QED BY <2>2, <3>1 DEF Doomed
  <2> QED BY <1>5, <2>1, <2>2
<1>7. ASSUME ~Ended'
      PROVE  \A m \in driver.team :
               leaf'[m] = "open" => \E f \in driver.team : /\ Doomed(f)'
                                                           /\ task'[f].at = "joined"
  <2> TAKE m \in driver.team
  <2> HAVE leaf'[m] = "open"
  <2>1. ~Ended /\ ~Doomed(n) /\ \A k \in Nodes \ {n} : node'[k] = node[k]
    BY <1>6, <1>7 DEF Committed, Parking
  <2>2. PICK f \in driver.team : Doomed(f) /\ task[f].at = "joined"
    <3>1. task[m].at \in {"joined", "off"}
      BY <1>1 DEF OrderStep, WorkInv, TasksKept
    <3> QED BY <1>1, <1>3, <1>4, <2>1, <3>1
          DEF OrderStep, OrderInv, PhaseInv, LeftOpen
  <2> QED BY <1>2, <1>3, <1>4, <2>1, <2>2 DEF Doomed
<1>8. ASSUME ~Ended', driver.at = "close"
      PROVE  /\ run'.pausing
             /\ \A k \in Active' :
                  /\ k \in driver.team /\ leaf'[k] # "ready"
                  /\ task'[k].at = "off" => leaf'[k] = "open" \/ Parked(k)'
  <2>1. /\ ~Ended /\ run.pausing
        /\ \A k \in Active : /\ leaf[k] # "ready"
                             /\ task[k].at = "off" => leaf[k] = "open" \/ Parked(k)
    BY <1>6, <1>8 DEF OrderStep, OrderInv, PhaseInv, AtClose
  <2>2. Active \subseteq Nodes /\ Active' \subseteq Active
    BY <1>6, <1>8 DEF Active, Committed, Parking
  <2>3. run'.pausing
    BY <1>6, <1>8, <2>1 DEF Committed, Parking
  <2>4. Active \subseteq driver.team
    BY <1>3 DEF OrderStep, WorkInv, TeamKept
  <2>5. ASSUME NEW k \in Active', task'[k].at = "off"
        PROVE  leaf'[k] = "open" \/ Parked(k)'
    <3>1. CASE run' = run /\ UNCHANGED <<node, segment, point>>
               /\ (node[n] = "running" => leaf[n] = "open")
      <4>1. k # n => leaf[k] = "open" \/ Parked(k)
        BY <1>2, <2>1, <2>2, <2>5
      <4>2. Parked(k) => Parked(k)'
        BY <1>4, <3>1 DEF Parked
      <4>3. node[k] = "running"
        BY <2>2 DEF Active
      <4> QED BY <1>4, <3>1, <4>1, <4>2, <4>3
    <3>2. CASE Committed(n)
      <4>1. k # n
        BY <3>2 DEF Committed, Active
      <4>2. leaf[k] = "open" \/ Parked(k)
        BY <1>2, <2>1, <2>2, <2>5, <4>1
      <4>3. run' = run /\ point' = point /\ segment'[k] = segment[k]
        BY <2>2, <3>2, <4>1 DEF Committed
      <4> QED BY <1>4, <4>2, <4>3 DEF Parked
    <3>3. CASE Parking(n)
      <4>1. run'.status = "draining" /\ point'.life = "suspended"
        BY <2>2, <3>3 DEF Parking
      <4>2. k = n => leaf[k] = "interrupted" /\ segment'[k] # "active"
        BY <2>2, <3>3 DEF Parking
      <4>3. k # n => segment'[k] = segment[k] /\ (leaf[k] = "open" \/ Parked(k))
        BY <1>2, <2>1, <2>2, <2>5, <3>3 DEF Parking
      <4> QED BY <1>4, <4>1, <4>2, <4>3 DEF Parked
    <3> QED BY <1>6, <1>8, <3>1, <3>2, <3>3
  <2> QED BY <1>4, <2>1, <2>2, <2>3, <2>4, <2>5
<1>9. ~Ended' => \A k \in Nodes : k < driver.node => node'[k] = "completed"
  <2>1. ~Ended' => ~Behind(driver.node)
    BY <1>3 DEF OrderStep, Onward, OrderInv, PhaseInv, AtTeam
  <2>2. \A k \in Nodes : node'[k] # "completed" => node[k] # "completed"
    BY DEF OrderStep, Onward
  <2> QED BY <2>1, <2>2 DEF Behind
<1>10. driver'.at # "off" /\ PhaseInv'
  <2>1. CASE driver' = driver
    <3>1. AtTeam' /\ Begun'
      BY <1>1, <1>9, <2>1 DEF AtTeam, Begun, Behind
    <3>2. LeftOpen'
      BY <1>7, <2>1 DEF LeftOpen
    <3>3. AtClose'
      BY <1>8, <2>1 DEF AtClose
    <3> QED BY <1>1, <2>1, <3>1, <3>2, <3>3
          DEF PhaseInv, AtPick, AtEnd, AtDrive
  <2>2. CASE /\ ~ (\E m \in driver.team : m > n) /\ driver.at = "close"
             /\ driver' = After(driver.node)
    <3>1. \A m \in Nodes : task'[m].at = "off"
      BY <2>2, LastSettles DEF OrderStep
    <3>2. ~Ended' => run'.pausing /\ \A k \in Active' : Parked(k)'
      <4>1. ~Ended' => \A m \in driver.team : leaf'[m] # "open"
        BY <1>3, <1>7, <3>1
      <4> QED BY <1>3, <1>8, <2>2, <3>1, <4>1
    <3>3. PhaseInv'
      BY <1>3, <2>2, <3>2, PhaseAfter
    <3> QED BY <1>3, <2>2, <3>3, AfterRests
  <2>3. CASE driver' = [driver EXCEPT !.at = "publish"]
    <3>1. /\ driver'.at = "publish" /\ driver'.team = driver.team
          /\ driver'.node = driver.node
      BY <1>3, <2>3 DEF Driver
    <3>2. AtTeam'
      BY <1>9, <3>1 DEF AtTeam, Behind
    <3>3. LeftOpen'
      BY <1>7, <3>1 DEF LeftOpen
    <3> QED BY <3>1, <3>2, <3>3
          DEF PhaseInv, AtPick, AtEnd, AtDrive, Begun, AtClose
  <2> QED BY <1>1, <2>1, <2>2, <2>3 DEF SettleNext
<1>11. RefusedKept'
  BY <1>2, RefusedSame
<1> QED BY <1>6, <1>10, <1>11, InOrderStep DEF OrderInv, DriverLeavesNothing

LEMMA OrderJoin ==
  ASSUME OrderStep, Join
  PROVE  OrderInv'
<1>1. /\ driver.at = "frontier" /\ \A n \in driver.team : task[n].at = "joined"
      /\ UNCHANGED <<run, node, shared, leaf, segment, point, task, lost>>
      /\ \E at \in {"settle", "publish"} : driver' = [driver EXCEPT !.at = at]
  BY DEF Join, durable
<1>2. /\ driver'.at \in {"settle", "publish"} /\ driver'.team = driver.team
      /\ driver'.node = driver.node
  BY <1>1 DEF OrderStep, WorkInv, TypeOK, Driver
<1>3. Active' = Active /\ (Ended' <=> Ended) /\ driver.team \subseteq Nodes
  BY <1>1 DEF Active, Ended, OrderStep, WorkInv, TypeOK, Driver
<1>4. AtTeam'
  BY <1>1, <1>2, <1>3
    DEF OrderStep, OrderInv, PhaseInv, AtTeam, Behind, TeamAt
<1>5. LeftOpen'
  BY <1>1, <1>2, <1>3
    DEF OrderStep, OrderInv, PhaseInv, LeftOpen, Doomed, TeamAt
<1>6. PhaseInv'
  BY <1>2, <1>4, <1>5 DEF PhaseInv, AtPick, AtEnd, AtDrive, Begun, AtClose
<1>7. PausedKept'
  BY <1>1, <1>3, PausedAway
<1>8. RefusedKept'
  BY <1>1, RefusedSame
<1> QED BY <1>2, <1>6, <1>7, <1>8, InOrderStep DEF OrderInv, DriverLeavesNothing

(* A task that is joined keeps how it ended.                                  *)
LEMMA JoinsErrors ==
  ASSUME OrderStep, NEW ended, Joins(ended)
  PROVE  RefusedKept'
<1>1. task' = [n \in Nodes |-> IF n \in ended THEN [task[n] EXCEPT !.at = "joined"]
                                              ELSE task[n]]
  BY DEF Joins
<1>2. \A n \in Nodes : task[n] \in Drive
  BY DEF OrderStep, WorkInv, TypeOK
<1>3. \A n \in Nodes : task'[n].error = task[n].error
  BY <1>1, <1>2 DEF Drive
<1> QED BY <1>3, RefusedSame

LEMMA OrderNotice ==
  ASSUME OrderStep, NEW n \in Nodes, Notice(n)
  PROVE  OrderInv'
<1>1. /\ driver.at = "frontier" /\ task[n].at = "ended"
      /\ UNCHANGED <<plan, node, shared, segment, driver, lost>>
  BY NoticeIs
<1>2. /\ n \in driver.team /\ driver.team \subseteq Nodes
      /\ driver.at \in TeamAt /\ driver.node \in Nodes \cup {NoNode}
  BY <1>1 DEF OrderStep, WorkInv, DriverKept, TypeOK, Driver, TeamAt
<1>3. leaf[n] # "open" /\ \A m \in driver.team : task[m].at # "off"
  BY <1>1 DEF OrderStep, WorkInv, TasksKept
<1>4. /\ Active' = Active /\ (Ended => Ended')
      /\ run.status = "paused" => Active = {}
  BY <1>1 DEF Active, OrderStep, Onward, OrderInv, PausedKept
<1>5. AtTeam'
  BY <1>1, <1>2, <1>4 DEF OrderStep, OrderInv, PhaseInv, AtTeam, Behind
<1>6. \A m \in driver.team : ~Ended /\ leaf[m] = "open" /\ task[m].at = "joined" =>
        \E f \in driver.team : Doomed(f)
  BY <1>1, <1>2 DEF OrderStep, OrderInv, PhaseInv, LeftOpen
<1>7. ASSUME NEW S \in SUBSET driver.team, Joins(S)
      PROVE  /\ RefusedKept'
             /\ \A m \in Nodes : task'[m].at = IF m \in S THEN "joined" ELSE task[m].at
  BY <1>7, JoinsErrors, JoinsIs DEF OrderStep, WorkInv
<1>8. ASSUME \A m \in Nodes : task'[m].at \in {task[m].at, "joined"},
             \A m \in Nodes : leaf'[m] = "new" <=> leaf[m] = "new",
             LeftOpen', PausedKept', RefusedKept'
      PROVE  OrderInv'
  <2>1. Begun'
    BY <1>1, <1>2, <1>8 DEF OrderStep, OrderInv, PhaseInv, Begun, Starting
  <2>2. PhaseInv'
    BY <1>1, <1>5, <1>8, <2>1 DEF PhaseInv, AtPick, AtEnd, AtDrive, AtClose
  <2> QED BY <1>1, <1>8, <2>2, InOrderStep DEF OrderInv, DriverLeavesNothing
<1>9. ASSUME Joins({n}), leaf' = leaf
      PROVE  /\ RefusedKept' /\ LeftOpen'
             /\ \A m \in Nodes : task'[m].at \in {task[m].at, "joined"}
  <2>1. /\ RefusedKept'
        /\ \A m \in Nodes : task'[m].at = IF m = n THEN "joined" ELSE task[m].at
    BY <1>2, <1>7, <1>9
  <2>2. LeftOpen'
    <3>1. \A m \in driver.team : leaf'[m] = "open" /\ task'[m].at \in {"joined", "off"}
            => leaf[m] = "open" /\ task[m].at = "joined"
      BY <1>2, <1>3, <1>9, <2>1
    <3>2. \A f \in driver.team : Doomed(f) => Doomed(f)'
      BY <1>1, <1>9 DEF Doomed
    <3> QED BY <1>1, <1>4, <1>6, <3>1, <3>2 DEF LeftOpen
  <2> QED BY <2>1, <2>2
<1>10. CASE Interrupted # {} /\ ~run.pausing /\ PauseTheRest(n)
  <2>1. run' = AfterPause(run, Active) /\ Joins({n}) /\ leaf' = leaf
    BY <1>10 DEF PauseTheRest
  <2>2. ~Ended
    BY <1>1, <1>2, <1>10 DEF OrderStep, WorkInv, TeamKept, Interrupted
  <2>3. PausedKept'
    BY <1>4, <2>1, <2>2, PauseRun DEF OrderStep, WorkInv, PausedKept
  <2> QED BY <1>8, <1>9, <2>1, <2>3
<1>11. CASE Joins({n}) /\ UNCHANGED <<run, leaf, point, parked>>
  <2>1. PausedKept'
    BY <1>1, <1>4, <1>11, PausedAway
  <2> QED BY <1>8, <1>9, <1>11, <2>1
<1>12. CASE /\ leaf[n] # "ready" /\ (Interrupted = {} \/ run.pausing)
            /\ ~ (run.pausing /\ run.status = "draining") /\ CancelTheRest
  <2>1. /\ leaf' = [m \in Nodes |-> IF m \in driver.team /\ task[m].at = "turn"
                                      THEN "cancelled" ELSE leaf[m]]
        /\ Joins(driver.team) /\ run' = run
    BY <1>12 DEF CancelTheRest
  <2>2. /\ RefusedKept'
        /\ \A m \in Nodes : task'[m].at = IF m \in driver.team THEN "joined"
                                                              ELSE task[m].at
    BY <1>7, <2>1
  <2>3. \A m \in Nodes : leaf'[m] # leaf[m] => /\ leaf[m] = "open"
                                               /\ leaf'[m] = "cancelled"
    BY <2>1 DEF OrderStep, WorkInv, TasksKept, InTurn
  <2>4. \A f \in Nodes : Doomed(f) => Doomed(f)'
    BY <1>1, <2>3 DEF Doomed
  <2>5. PausedKept'
    BY <1>1, <1>4, <2>1, PausedAway
  <2>6. ASSUME ~Ended, NEW m \in driver.team, leaf'[m] = "open"
        PROVE  \E f \in driver.team : Doomed(f)
    <3>1. leaf[m] = "open" /\ task[m].at # "turn"
      BY <1>2, <2>1, <2>6
    <3>2. run.status # "paused" /\ run.status # "draining"
      <4>1. m \in Active
        BY <1>2, <2>6, <3>1 DEF OrderStep, WorkInv, NodesKept, Active
      <4> QED BY <1>4, <1>12, <4>1 DEF OrderStep, WorkInv, TypeOK
    <3>3. leaf[n] # "interrupted"
      <4>1. ~run.pausing
        BY <2>6, <3>2 DEF OrderStep, WorkInv, RunKept, Ended
      <4> QED BY <1>2, <1>12, <4>1 DEF Interrupted
    <3>4. node[n] \in {"queued", "running"} /\ (node[n] = "queued" => leaf[n] = "new")
      BY <1>1, <1>2, <2>6 DEF OrderStep, WorkInv, TeamKept, TypeOK
    <3>5. CASE leaf[n] \in {"failed", "cancelled"}
      BY <1>2, <3>4, <3>5 DEF Doomed
    <3>6. CASE leaf[n] = "new"
      <4>1. driver.node # NoNode
        BY <1>1, <1>2, <3>6 DEF OrderStep, OrderInv, PhaseInv, Begun
      <4>2. task[m].at # "again" /\ task[m].at # "start"
        BY <1>1, <3>1, <4>1
          DEF OrderStep, OrderInv, PhaseInv, Begun, Starting
      <4>3. task[m].at # "ended" /\ task[m].at # "off"
        BY <1>2, <1>3, <3>1 DEF OrderStep, WorkInv, TasksKept
      <4>4. task[m].at = "joined"
        BY <1>2, <3>1, <4>2, <4>3 DEF OrderStep, WorkInv, TypeOK, Drive
      <4> QED BY <1>6, <2>6, <3>1, <4>4
    <3> QED BY <1>2, <1>3, <1>12, <3>3, <3>5, <3>6 DEF OrderStep, WorkInv, TypeOK
  <2>7. LeftOpen'
    BY <1>1, <1>2, <1>4, <2>4, <2>6 DEF LeftOpen
  <2>8. \A m \in Nodes : leaf'[m] = "new" <=> leaf[m] = "new"
    BY <2>3
  <2>9. \A m \in Nodes : task'[m].at \in {task[m].at, "joined"}
    BY <2>2
  <2> QED BY <1>8, <2>2, <2>5, <2>7, <2>8, <2>9
<1> QED BY <1>10, <1>11, <1>12, NoticeIs

(* After the publication what is left of a frontier settles under a pause;    *)
(* without one nothing is left of it.                                         *)
LEMMA OrderPublish ==
  ASSUME OrderStep, Publish
  PROVE  OrderInv'
<1> DEFINE done == Publishable \cap driver.team
<1>1. /\ driver.at = "publish" /\ SettleFrame /\ UNCHANGED <<point, lost>>
      /\ shared' = shared /\ leaf' = leaf
  BY DEF Publish, SettleFrame
<1>2. /\ driver.node \in driver.team \cup {NoNode} /\ driver.team \subseteq Nodes
      /\ driver \in Driver /\ Active \subseteq driver.team
      /\ driver.node \in Nodes \cup {NoNode} /\ driver.at \in TeamAt
  BY <1>1 DEF OrderStep, WorkInv, TypeOK, Driver, DriverKept, TeamKept, TeamAt
<1>3. \/ /\ Complete(done) /\ run' = run
         /\ \/ Ended \/ run.pausing
            \/ \A n \in driver.team : node[n] = "completed" \/ n \in done
      \/ Finish([run EXCEPT !.status = "failed"], done)
  BY DEF Publish
<1>4. ASSUME Finish([run EXCEPT !.status = "failed"], done)
      PROVE  Ended'
  <2>1. run' = [run EXCEPT !.status = "failed"]
    BY <1>4 DEF Finish
  <2> QED BY <2>1 DEF OrderStep, WorkInv, TypeOK, Run, Ended, Terminal
<1>5. ~Ended' => /\ ~Ended /\ run' = run
                 /\ Active' = Active \ done
                 /\ \A n \in done : node'[n] = "completed"
                 /\ \A n \in Nodes \ done : node'[n] = node[n]
                 /\ \/ run.pausing
                    \/ \A n \in driver.team : node[n] = "completed" \/ n \in done
  <2>1. ASSUME Complete(done), run' = run
        PROVE  /\ Active' = Active \ done /\ (Ended' <=> Ended)
               /\ \A n \in done : node'[n] = "completed"
               /\ \A n \in Nodes \ done : node'[n] = node[n]
    <3>1. done \subseteq Nodes
      BY <1>2
    <3>2. node' = [n \in Nodes |-> IF n \in done THEN "completed" ELSE node[n]]
      BY <2>1 DEF Complete
    <3> HIDE DEF done
    <3> QED BY <2>1, <3>1, <3>2 DEF Active, Ended
  <2> HIDE DEF done
  <2> QED BY <1>3, <1>4, <2>1
<1>6. PausedKept'
  <2>1. CASE Ended'
    BY <2>1 DEF PausedKept, Ended, Terminal
  <2>2. CASE ~Ended'
    <3> HIDE DEF done
    <3> QED BY <1>1, <1>5, <2>2, PausedAway
  <2> QED BY <2>1, <2>2
<1>7. ~Ended' => \A k \in Nodes : k < driver.node => node'[k] = "completed"
  <2>1. ~Ended => ~Behind(driver.node)
    BY <1>2 DEF OrderStep, OrderInv, PhaseInv, AtTeam
  <2>2. \A k \in Nodes : node[k] = "completed" => node'[k] = "completed"
    BY DEF OrderStep, Onward
  <2> HIDE DEF done
  <2> QED BY <1>5, <2>1, <2>2 DEF Behind
<1>8. \A m \in Active : leaf[m] = "ready" => m \in done
  BY <1>2 DEF Publishable
<1>9. done \subseteq driver.team /\ \A m \in done : leaf[m] = "ready"
  BY DEF Publishable
<1> HIDE DEF done
<1>10. CASE /\ ~Ended /\ run.pausing
            /\ driver' = [driver EXCEPT !.at = "close"] /\ Joins(driver.team)
  <2>1. /\ driver'.at = "close" /\ driver'.team = driver.team
        /\ driver'.node = driver.node
    BY <1>2, <1>10 DEF Driver
  <2>2. /\ RefusedKept' /\ \A m \in driver.team : task'[m].at = "joined"
    BY <1>2, <1>10, JoinsErrors, JoinsIs DEF OrderStep, WorkInv
  <2>3. AtTeam'
    BY <1>7, <2>1 DEF AtTeam, Behind
  <2>4. LeftOpen'
    <3> SUFFICES ASSUME ~Ended', NEW m \in driver.team, leaf'[m] = "open"
                 PROVE  \E f \in driver.team : Doomed(f)' /\ task'[f].at = "joined"
      BY <2>1 DEF LeftOpen
    <3>1. task[m].at \in {"joined", "off"}
      BY <1>1 DEF OrderStep, WorkInv, TasksKept
    <3>2. PICK f \in driver.team : Doomed(f)
      BY <1>1, <1>2, <1>5, <3>1 DEF OrderStep, OrderInv, PhaseInv, LeftOpen
    <3>3. f \in Nodes \ done
      BY <1>2, <1>9, <3>2 DEF Doomed
    <3>4. Doomed(f)'
      BY <1>1, <1>5, <3>2, <3>3 DEF Doomed
    <3> QED BY <2>2, <3>4
  <2>5. AtClose'
    BY <1>1, <1>2, <1>5, <1>8, <1>10, <2>1, <2>2 DEF AtClose
  <2>6. PhaseInv'
    BY <2>1, <2>3, <2>4, <2>5 DEF PhaseInv, AtPick, AtEnd, AtDrive, Begun
  <2> QED BY <1>6, <2>1, <2>2, <2>6, InOrderStep DEF OrderInv, DriverLeavesNothing
<1>11. CASE /\ ~ (~Ended /\ run.pausing)
            /\ driver' = After(driver.node) /\ task' = [n \in Nodes |-> Idle]
  <2>1. ASSUME ~Ended'
        PROVE  /\ \A k \in Nodes : k <= driver.node => node'[k] = "completed"
               /\ Active' = {}
    <3>1. \A n \in driver.team : node'[n] = "completed"
      BY <1>2, <1>5, <1>11, <2>1
    <3>2. Active' = {}
      BY <1>2, <1>5, <2>1, <3>1 DEF Active
    <3>3. \A k \in Nodes : k <= driver.node => k < driver.node \/ k \in driver.team
      <4>1. Nodes \subseteq Nat /\ NoNode \in Nat /\ NoNode \notin Nodes
        BY NodesAssumption DEF NoNode
      <4>2. \A k, x \in Nat : k <= x => k < x \/ k = x
        OBVIOUS
      <4>3. driver.node \in Nat
        BY <1>2, <4>1
      <4> QED BY <1>2, <4>1, <4>2, <4>3
    <3> QED BY <1>7, <2>1, <3>1, <3>2, <3>3
  <2>2. PhaseInv'
    BY <1>2, <1>11, <2>1, PhaseAfter
  <2>3. driver'.at # "off"
    BY <1>2, <1>11, AfterRests
  <2>4. RefusedKept'
    BY <1>11, RefusedIdle
  <2> QED BY <1>6, <2>2, <2>3, <2>4, InOrderStep DEF OrderInv, DriverLeavesNothing
<1> QED BY <1>10, <1>11 DEF Publish

LEMMA OrderEnd ==
  ASSUME OrderStep, End
  PROVE  OrderInv'
<1>1. /\ driver.at = "end" /\ StopDriver
      /\ UNCHANGED <<plan, node, shared, leaf, segment, point, parked>>
  BY EndIs
<1>2. driver'.at = "off" /\ task' = [n \in Nodes |-> Idle] /\ Active' = Active
  BY <1>1 DEF StopDriver, Off, Active
<1>3. ~Ended => /\ AllCompleted \/ run.pausing
                /\ \A k \in Active : Parked(k)
  BY <1>1 DEF OrderStep, OrderInv, PhaseInv, AtEnd
<1>4. CASE run' = [run EXCEPT !.status = "completed"]
  <2>1. run'.status = "completed"
    BY <1>4 DEF OrderStep, WorkInv, TypeOK, Run
  <2>2. PausedKept'
    BY <2>1 DEF PausedKept
  <2> QED BY <1>2, <2>1, <2>2, OrderRests
<1>5. CASE run.status = "draining" /\ run' = [run EXCEPT !.status = "paused"]
  <2>1. run'.status = "paused"
    BY <1>5 DEF OrderStep, WorkInv, TypeOK, Run
  <2>2. \A k \in Active : Parked(k)
    BY <1>3, <1>5 DEF Ended, Terminal
  <2>3. PausedKept'
    BY <1>1, <1>2, <2>2 DEF PausedKept, Parked
  <2> QED BY <1>2, <2>1, <2>3, OrderRests
<1>6. CASE /\ run.status \in {"running", "draining"} => ~AllCompleted
           /\ run.status = "draining" =>
                \E n \in Active : segment[n] \in {"active", "none"}
           /\ UNCHANGED run
  <2>1. run.status \notin {"running", "draining"}
    <3>1. ~Ended => \A k \in Active : segment[k] \notin {"active", "none"}
      BY <1>3 DEF Parked, OrderStep, WorkInv, NodesKept
    <3>2. run.status = "running" => ~Ended /\ ~run.pausing
      BY DEF OrderStep, WorkInv, RunKept, Ended, Terminal
    <3>3. run.status = "draining" => ~Ended
      BY DEF Ended, Terminal
    <3> QED BY <1>3, <1>6, <3>1, <3>2, <3>3
  <2>2. PausedKept'
    BY <1>1, <1>2, <1>6, PausedAway
  <2> QED BY <1>2, <1>6, <2>1, <2>2, OrderRests
<1> QED BY <1>4, <1>5, <1>6, EndIs

LEMMA OrderInit ==
  Init => OrderInv
<1> SUFFICES ASSUME Init PROVE OrderInv
  OBVIOUS
<1>1. /\ driver.at = "start" /\ shared = {} /\ Active = {}
      /\ run.status = "queued" /\ \A n \in Nodes : task[n].error = "none"
  BY DEF Init, Off, Active, Idle
<1>2. InOrderKept /\ PausedKept /\ RefusedKept /\ DriverLeavesNothing
  BY <1>1 DEF InOrderKept, PausedKept, RefusedKept, DriverLeavesNothing
<1>3. PhaseInv
  BY <1>1 DEF PhaseInv, AtPick, AtEnd, AtDrive, AtTeam, Begun, LeftOpen, AtClose,
              TeamAt
<1> QED BY <1>2, <1>3 DEF OrderInv

LEMMA OrderNext ==
  ASSUME OrderStep, [Next]_vars
  PROVE  OrderInv'
<1>1. ASSUME NEW n \in Nodes, Drives(n)
      PROVE  OrderInv'
  BY <1>1, OrderPick, OrderAdmit, OrderReopen, OrderContinue, OrderLeave,
     OrderSettleSerial, OrderNotice, OrderSettleNext DEF Drives
<1>2. CASE Command
  BY <1>2, OrderPause, OrderBareResume, OrderCancel, OrderCliCancel, OrderDies,
     OrderResume DEF Command
<1>3. CASE UNCHANGED vars
  BY <1>3, OrderSame DEF vars
<1> QED BY <1>1, <1>2, <1>3, OrderBegin, OrderCancelRest, OrderJoin,
           OrderPublish, OrderEnd, OrderEndTurn DEF Next

(* The inductive invariant of a run: its books and the order of its driver.   *)
THEOREM RunInvariant == Spec => [](WorkInv /\ OrderInv)
<1>1. Init => WorkInv /\ OrderInv
  BY WorkInit, OrderInit
<1>2. WorkInv /\ OrderInv /\ [Next]_vars => WorkInv' /\ OrderInv'
  <2> SUFFICES ASSUME WorkInv, OrderInv, [Next]_vars
               PROVE  WorkInv' /\ OrderInv'
    OBVIOUS
  <2>1. OrderStep
    BY WorkStep, OnwardStep DEF OrderStep
  <2> QED BY <2>1, OrderNext DEF OrderStep
<1> QED BY <1>1, <1>2, PTL DEF Spec

(* A paused run is quiet: whatever was admitted, raced or crashed on the way  *)
(* to the pause, no leaf has an open Turn and no node an active segment.      *)
THEOREM PauseIsQuiet == Spec => []PausedIsQuiet
<1>1. WorkInv /\ OrderInv => PausedIsQuiet
  <2> SUFFICES ASSUME WorkInv, OrderInv, run.status = "paused", NEW n \in Nodes
               PROVE  leaf[n] # "open" /\ segment[n] # "active"
    BY DEF PausedIsQuiet
  <2>1. segment[n] = "active" => n \in Active
    BY DEF WorkInv, NodesKept, Active, Ended, Terminal
  <2>2. segment[n] # "active"
    BY <2>1 DEF OrderInv, PausedKept
  <2> QED BY <2>2 DEF WorkInv, NodesKept
<1> QED BY <1>1, RunInvariant, PTL

(* A run paused in the middle of a node can be continued: its latest cycle is *)
(* suspended, the only state in which it takes a continuation command.        *)
THEOREM PauseContinues == Spec => []PausedCanContinue
<1>1. OrderInv => PausedCanContinue
  BY DEF OrderInv, PausedKept, PausedCanContinue
<1> QED BY <1>1, RunInvariant, PTL

(* A driver that ends by itself leaves nothing half done: the run is terminal,*)
(* paused, or has not started.                                                *)
THEOREM LeavesNothing == Spec => []DriverLeavesNothing
<1>1. OrderInv => DriverLeavesNothing
  BY DEF OrderInv
<1> QED BY <1>1, RunInvariant, PTL

--------------------------------------------------------------------------------
(* What a run does for its plan                                               *)

(* A queued node is about to start only when its predecessors are done.       *)
ReadyKept == \A n \in Nodes : Starting(n) /\ node[n] = "queued" => Ready(n)

(* A node that is driven alone is not done, and only a pause refuses it.      *)
DriveKept ==
  driver.at = "drive" /\ ~Ended =>
    /\ node[driver.node] \in {"queued", "running"}
    /\ node[driver.node] = "queued" /\ task[driver.node].at = "ended" =>
         task[driver.node].error = "paused"

(* An answer that waits to be published keeps its segment active, so no drain *)
(* ends over it.                                                              *)
AnswersKept == \A n \in Active : leaf[n] = "ready" => segment[n] = "active"

DeedInv == ReadyKept /\ DriveKept /\ AnswersKept

(* A step that keeps every invariant of the run and its driver.               *)
DeedStep == OrderStep /\ OrderInv' /\ DeedInv

(* No step launches a queued node but the choice of the driver.               *)
LEMMA ReadySame ==
  ASSUME DeedStep, \A n \in Nodes : Starting(n)' => Starting(n) \/ node'[n] # "queued"
  PROVE  ReadyKept'
<1>1. \A n \in Nodes : Ready(n) => Ready(n)'
  <2>1. /\ plan' = plan /\ plan \in Plans
        /\ \A n \in Nodes : node[n] = "completed" => node'[n] = "completed"
    BY DEF DeedStep, OrderStep, Onward, WorkInv, TypeOK
  <2>2. \A e \in plan.edges : e[1] \in Nodes
    BY <2>1, PlansAssumption
  <2> QED BY <2>1, <2>2 DEF Ready
<1>2. \A n \in Nodes : node'[n] = "queued" => node[n] = "queued"
  BY DEF DeedStep, OrderStep, Onward
<1> QED BY <1>1, <1>2 DEF DeedStep, DeedInv, ReadyKept

LEMMA ReadyIdle ==
  ASSUME DeedStep, task' = [n \in Nodes |-> Idle]
  PROVE  ReadyKept'
BY ReadySame DEF Starting, Idle

LEMMA ReadyEnds ==
  ASSUME DeedStep, NEW n \in Nodes, NEW d, d.at # "start",
         task' = [task EXCEPT ![n] = d]
  PROVE  ReadyKept'
<1>1. \A m \in Nodes : task'[m] = IF m = n THEN d ELSE task[m]
  BY DEF DeedStep, OrderStep, WorkInv, TypeOK
<1> QED BY <1>1, ReadySame DEF Starting

LEMMA ReadyPick ==
  ASSUME DeedStep, NEW n \in Nodes, Pick(n)
  PROVE  ReadyKept'
<1>1. UNCHANGED <<plan, node>> /\ WorkInv
  BY PickIs DEF DeedStep, OrderStep, durable
<1>2. \A m \in Nodes : Ready(m)' <=> Ready(m)
  BY <1>1 DEF Ready
<1>3. CASE UNCHANGED task
  BY <1>3, ReadySame DEF Starting
<1>4. CASE StopDriver
  BY <1>4, ReadyIdle DEF StopDriver
<1>5. CASE Gathers(n)
  <2>1. /\ Launch(Frontier(n)) /\ \A m \in Frontier(n) : Ready(m)
    BY <1>5 DEF Gathers
  <2>2. \A m \in Nodes : Starting(m)' => m \in Frontier(n)
    BY <2>1, LaunchIs DEF Starting
  <2> QED BY <1>2, <2>1, <2>2 DEF ReadyKept
<1>6. CASE TakesUp(n)
  <2>1. Launch({n}) /\ (node[n] = "queued" => Ready(n))
    BY <1>6 DEF TakesUp
  <2>2. \A m \in Nodes : Starting(m)' => m = n
    BY <2>1, LaunchIs DEF Starting
  <2> QED BY <1>1, <1>2, <2>1, <2>2 DEF ReadyKept
<1> QED BY <1>1, <1>3, <1>4, <1>5, <1>6, PickIs DEF Skips

LEMMA ReadyBegin ==
  ASSUME DeedStep, Begin
  PROVE  ReadyKept'
<1>1. CASE StopDriver
  BY <1>1, ReadyIdle DEF StopDriver
<1>2. CASE Starts
  <2>1. UNCHANGED node /\ (UNCHANGED task \/ Launch(Active \cap shared))
    BY <1>2 DEF Starts
  <2>2. ASSUME Launch(Active \cap shared)
        PROVE  \A m \in Nodes : Starting(m)' => node'[m] # "queued"
    <3>1. \A m \in Nodes : Starting(m)' => m \in Active
      BY <2>2, LaunchIs DEF Starting
    <3> QED BY <2>1, <3>1 DEF Active
  <2> QED BY <2>1, <2>2, ReadySame DEF Starting
<1> QED BY <1>1, <1>2, BeginIs

LEMMA ReadyDrives ==
  ASSUME DeedStep, NEW n \in Nodes, Drives(n)
  PROVE  ReadyKept'
<1>1. TypeOK /\ task[n] \in Drive
  BY DEF DeedStep, OrderStep, WorkInv, TypeOK
<1>2. ASSUME NEW error, Ends(n, error)
      PROVE  ReadyKept'
  BY <1>2, ReadyEnds DEF Ends
<1>3. ASSUME NEW at \in {"turn", "again", "off"}, task' = [task EXCEPT ![n].at = at]
      PROVE  ReadyKept'
  <2> DEFINE d == [task[n] EXCEPT !.at = at]
  <2>1. d.at # "start" /\ task' = [task EXCEPT ![n] = d]
    BY <1>1, <1>3 DEF Drive
  <2> HIDE DEF d
  <2> QED BY <2>1, ReadyEnds
<1>4. CASE Admit(n)
  BY <1>2, <1>3, <1>4, AdmitIs DEF Admits
<1>5. CASE Reopen(n) \/ Leave(n)
  BY <1>2, <1>3, <1>5 DEF Reopen, Leave
<1>6. CASE Continue(n)
  BY <1>2, <1>3, <1>6, ContinueIs DEF Continued
<1>7. CASE SettleSerial(n)
  <2>1. task' = [task EXCEPT ![n] = Idle] /\ Idle.at # "start"
    BY <1>7 DEF SettleSerial, Idle
  <2> QED BY <2>1, ReadyEnds
<1>8. CASE SettleNext(n)
  BY <1>3, <1>8 DEF SettleNext
<1>9. CASE Notice(n)
  <2>1. PICK ended : Joins(ended)
    BY <1>9, NoticeIs DEF PauseTheRest, CancelTheRest
  <2> QED BY <1>1, <2>1, JoinsIs, ReadySame DEF Starting
<1> QED BY <1>4, <1>5, <1>6, <1>7, <1>8, <1>9, ReadyPick DEF Drives

LEMMA ReadyStep ==
  ASSUME DeedStep, [Next]_vars
  PROVE  ReadyKept'
<1>1. ASSUME NEW n \in Nodes, EndsTurn(n)
      PROVE  ReadyKept'
  BY <1>1, ReadyEnds DEF EndsTurn, Stop, Break, Answer, Fail, EndTurn, Ends
<1>2. CASE UNCHANGED task
  BY <1>2, ReadySame DEF Starting
<1>3. CASE Command
  <2>1. CASE Pause \/ CliPause \/ BareResume \/ CliCancel \/ \E c \in Commands : Resume(c)
    BY <1>2, <2>1 DEF Pause, CliPause, BareResume, CliCancel, Resume
  <2>2. CASE Cancel \/ Crash \/ \E c \in Commands : ResumeDies(c)
    BY <2>2, ReadyIdle DEF Cancel, Crash, ResumeDies, StopDriver
  <2> QED BY <1>3, <2>1, <2>2 DEF Command
<1>4. CASE CancelRest \/ End
  BY <1>4, EndIs, ReadyIdle DEF CancelRest, StopDriver
<1>5. CASE Publish
  <2>1. CASE Joins(driver.team)
    BY <2>1, JoinsIs, ReadySame DEF DeedStep, OrderStep, WorkInv, Starting
  <2> QED BY <1>5, <2>1, ReadyIdle DEF Publish
<1>6. CASE Join \/ UNCHANGED vars
  BY <1>2, <1>6 DEF Join, vars
<1> QED BY <1>1, <1>3, <1>4, <1>5, <1>6, ReadyBegin, ReadyDrives DEF Next

--------------------------------------------------------------------------------
(* The node driven alone                                                      *)

(* A driver that stays where it is, over a node that stays as it is.          *)
LEMMA DriveSame ==
  ASSUME DeedStep, driver' = driver,
         driver.at = "drive" => UNCHANGED <<node, task>>
  PROVE  DriveKept'
BY DEF DeedStep, DeedInv, OrderStep, Onward, DriveKept, Ended

LEMMA DriveAway ==
  ASSUME driver'.at # "drive"
  PROVE  DriveKept'
BY DEF DriveKept

(* A drive that moves on: its node runs, or a pause refused it.               *)
LEMMA DriveMoved ==
  ASSUME DeedStep, NEW n \in Nodes, driver' = driver,
         task[n].at \in {"start", "turn", "again", "ended"},
         ~Ended' => \/ node'[n] = "running"
                    \/ node'[n] = "queued" /\ task'[n].error = "paused"
  PROVE  DriveKept'
<1>1. driver.at = "drive" => driver.node = n
  BY DrivenBy DEF DeedStep, OrderStep
<1> QED BY <1>1 DEF DriveKept

(* Nobody else is at work while a queued node is driven alone.                *)
LEMMA Alone ==
  ASSUME DeedStep, driver.at = "drive", ~Ended, node[driver.node] = "queued"
  PROVE  Active = {}
<1> SUFFICES ASSUME NEW k \in Active PROVE FALSE
  OBVIOUS
<1>1. driver.node \in Nodes /\ Nodes \subseteq Nat /\ k \in Nodes
  BY NodesAssumption DEF DeedStep, OrderStep, WorkInv, DriverKept, Active
<1>2. driver.node \notin Active /\ node[k] # "completed" /\ k # driver.node
  BY DEF Active
<1>3. Active \cap shared = {} /\ ~Behind(driver.node)
  BY <1>2 DEF DeedStep, OrderStep, OrderInv, PhaseInv, AtDrive
<1>4. ~Behind(k)
  BY <1>3 DEF DeedStep, OrderStep, OrderInv, InOrderKept
<1>5. k < driver.node \/ driver.node < k
  <2>1. k \in Nat /\ driver.node \in Nat
    BY <1>1
  <2> DEFINE d == driver.node
  <2>2. k # d /\ k \in Nat /\ d \in Nat
    BY <1>2, <2>1
  <2> HIDE DEF d
  <2>3. k < d \/ d < k
    BY <2>2
  <2> QED BY <2>3 DEF d
<1> QED BY <1>1, <1>2, <1>3, <1>4, <1>5 DEF Behind

LEMMA DriveDrives ==
  ASSUME DeedStep, NEW n \in Nodes, Drives(n)
  PROVE  DriveKept'
<1>1. task \in [Nodes -> Drive] /\ node \in [Nodes -> {"queued", "running"} \cup Terminal]
  BY DEF DeedStep, OrderStep, WorkInv, TypeOK
<1>2. WorkInv /\ OrderInv
  BY DEF DeedStep, OrderStep
<1>3. CASE Pick(n)
  <2>1. UNCHANGED <<run, node>> /\ (Ended' <=> Ended)
    BY <1>2, <1>3, PickIs DEF durable, Ended
  <2>2. CASE driver' = [Off EXCEPT !.at = "end"] \/ StopDriver
    BY <2>2, DriveAway DEF Off, StopDriver
  <2>3. CASE Skips(n) \/ Gathers(n)
    <3>1. driver'.at # "drive"
      BY <2>3, AfterRests DEF Skips, Gathers
    <3> QED BY <3>1, DriveAway
  <2>4. CASE ~Ended /\ TakesUp(n)
    <3>1. /\ node[n] # "completed" /\ driver'.node = n /\ Launch({n})
      BY <2>4 DEF TakesUp
    <3>2. node[n] \in {"queued", "running"}
      BY <1>1, <1>2, <2>4, <3>1 DEF WorkInv, NodesKept, Terminal
    <3>3. task'[n].at = "start"
      BY <3>1, LaunchIs
    <3> QED BY <2>1, <3>1, <3>2, <3>3 DEF DriveKept
  <2> QED BY <1>2, <1>3, <2>2, <2>3, <2>4, PickIs
<1>4. CASE Admit(n)
  <2>1. Starting(n) /\ node[n] = "queued" /\ driver' = driver
    BY <1>4, AdmitIs DEF Admits
  <2>2. CASE Ends(n, "paused") /\ UNCHANGED durable
    <3>1. node'[n] = "queued" /\ task'[n].error = "paused"
      BY <1>1, <2>1, <2>2 DEF Ends, durable
    <3> QED BY <2>1, <3>1, DriveMoved DEF Starting
  <2>3. CASE /\ run.status \in {"queued", "running"} /\ Active # {}
             /\ Ends(n, "other") /\ UNCHANGED durable
    <3>1. ~Ended
      BY <2>3 DEF Ended, Terminal
    <3>2. driver.at # "drive"
      <4>1. driver.at = "drive" => driver.node = n
        BY <1>2, <2>1, DrivenBy DEF Starting
      <4> QED BY <2>1, <2>3, <3>1, <4>1, Alone
    <3> QED BY <2>1, <3>2, DriveAway
  <2>4. CASE Admits(n)
    <3>1. node'[n] = "running"
      BY <1>1, <2>4 DEF Admits
    <3> QED BY <2>1, <3>1, DriveMoved DEF Starting
  <2> QED BY <1>4, <2>2, <2>3, <2>4, AdmitIs
<1>5. CASE Reopen(n) \/ Continue(n)
  <2>1. Starting(n) /\ node'[n] = "running" /\ driver' = driver
    BY <1>5, ContinueIs DEF Reopen, Continued, durable
  <2> QED BY <2>1, DriveMoved DEF Starting
<1>6. CASE Leave(n)
  <2>1. Starting(n) /\ UNCHANGED <<run, node, driver>> /\ node[n] # "queued"
    BY <1>6 DEF Leave, durable
  <2>2. CASE driver.at = "drive" /\ ~Ended
    <3>1. driver.node = n
      BY <1>2, <2>1, <2>2, DrivenBy DEF Starting
    <3>2. node'[n] = "running"
      BY <2>1, <2>2, <3>1 DEF DeedStep, DeedInv, DriveKept
    <3> QED BY <2>1, <3>2, DriveMoved DEF Starting
  <2> QED BY <2>1, <2>2 DEF DriveKept, Ended
<1>7. CASE SettleSerial(n)
  BY <1>7, AfterRests, DriveAway DEF SettleSerial
<1>8. CASE Notice(n)
  BY <1>8, NoticeIs, DriveAway
<1>9. CASE SettleNext(n)
  <2>1. /\ driver.at \in {"settle", "close"}
        /\ \/ driver' = driver \/ driver' = After(driver.node)
           \/ driver' = [driver EXCEPT !.at = "publish"]
    BY <1>9 DEF SettleNext
  <2>2. driver.node \in Nodes \cup {NoNode} /\ driver \in Driver
    BY <1>2 DEF WorkInv, TypeOK, Driver
  <2>3. driver'.at # "drive"
    BY <2>1, <2>2, AfterRests DEF Driver
  <2> QED BY <2>3, DriveAway
<1> QED BY <1>3, <1>4, <1>5, <1>6, <1>7, <1>8, <1>9 DEF Drives

LEMMA DriveStep ==
  ASSUME DeedStep, [Next]_vars
  PROVE  DriveKept'
<1>1. WorkInv /\ driver.node \in Nodes \cup {NoNode} /\ driver \in Driver
  BY DEF DeedStep, OrderStep, WorkInv, TypeOK, Driver
<1>2. ASSUME NEW n \in Nodes, EndsTurn(n)
      PROVE  DriveKept'
  <2>1. /\ InTurn(n) /\ UNCHANGED <<run, node, driver>>
    BY <1>2 DEF EndsTurn, Stop, Break, Answer, Fail, EndTurn
  <2>2. node[n] # "queued"
    BY <1>1, <2>1 DEF WorkInv, TypeOK, TasksKept
  <2>3. CASE driver.at = "drive" /\ ~Ended
    <3>1. driver.node = n
      BY <1>1, <2>1, <2>3, DrivenBy DEF InTurn
    <3>2. node'[n] = "running"
      BY <2>1, <2>2, <2>3, <3>1 DEF DeedStep, DeedInv, DriveKept
    <3> QED BY <2>1, <3>2, DriveMoved DEF InTurn
  <2> QED BY <2>1, <2>3 DEF DriveKept, Ended
<1>3. CASE Command
  <2>1. CASE Pause \/ CliPause
    BY <2>1, DriveSame DEF Pause, CliPause
  <2>2. CASE BareResume \/ \E c \in Commands : Resume(c)
    <3>1. EnsureDriver /\ UNCHANGED <<node, task>>
      BY <2>2 DEF BareResume, Resume
    <3>2. CASE driver.at = "off"
      BY <3>1, <3>2, DriveAway DEF EnsureDriver, Off
    <3> QED BY <3>1, <3>2, DriveSame DEF EnsureDriver
  <2>3. CASE CliCancel
    <3>1. driver' = driver /\ task' = task
      BY <2>3 DEF CliCancel
    <3>2. CASE Active = {}
      <4>1. run'.status = "cancelled"
        BY <1>1, <2>3, <3>2 DEF CliCancel, WorkInv, TypeOK, Run
      <4> QED BY <4>1 DEF DriveKept, Ended, Terminal
    <3> QED BY <2>3, <3>1, <3>2, DriveSame DEF CliCancel
  <2>4. CASE Cancel \/ Crash \/ \E c \in Commands : ResumeDies(c)
    <3>1. driver' \in {Off, [Off EXCEPT !.at = "cancel"]}
      BY <2>4 DEF Cancel, Crash, ResumeDies, StopDriver
    <3> QED BY <3>1, DriveAway DEF Off
  <2> QED BY <1>3, <2>1, <2>2, <2>3, <2>4 DEF Command
<1>4. CASE CancelRest \/ End
  BY <1>4, EndIs, DriveAway DEF CancelRest, StopDriver, Off
<1>5. CASE Publish
  <2>1. driver'.at # "drive"
    BY <1>1, <1>5, AfterRests DEF Publish, Driver
  <2> QED BY <2>1, DriveAway
<1>6. CASE Join
  BY <1>1, <1>6, DriveAway DEF Join, Driver
<1>7. CASE UNCHANGED vars
  BY <1>7, DriveSame DEF vars
<1>8. CASE Begin
  <2>1. CASE StopDriver
    BY <2>1, DriveAway DEF StopDriver, Off
  <2>2. CASE Starts
    <3>1. driver'.at # "drive"
      BY <2>2, AfterRests DEF Starts
    <3> QED BY <3>1, DriveAway
  <2> QED BY <1>8, <2>1, <2>2, BeginIs
<1> QED BY <1>2, <1>3, <1>4, <1>5, <1>6, <1>7, <1>8, DriveDrives DEF Next

--------------------------------------------------------------------------------
(* The answers                                                                *)

(* An answer is kept, or comes from a Turn that was open.                     *)
LEMMA AnswersFrom ==
  ASSUME DeedStep,
         \A n \in Nodes : node'[n] = "running" /\ leaf'[n] = "ready" =>
           /\ node[n] = "running" /\ segment'[n] = segment[n]
           /\ leaf[n] \in {"open", "ready"}
  PROVE  AnswersKept'
<1>1. ASSUME NEW n \in Nodes, node'[n] = "running", leaf'[n] = "ready"
      PROVE  segment'[n] = "active"
  <2>1. n \in Active
    BY <1>1 DEF Active
  <2>2. segment[n] = "active"
    BY <1>1, <2>1 DEF DeedStep, DeedInv, OrderStep, WorkInv, NodesKept, AnswersKept
  <2> QED BY <1>1, <2>2
<1> QED BY <1>1 DEF AnswersKept, Active

LEMMA AnswersSame ==
  ASSUME DeedStep, UNCHANGED <<node, leaf, segment>>
  PROVE  AnswersKept'
BY AnswersFrom

LEMMA AnswersFinish ==
  ASSUME NEW r, NEW done, Finish(r, done)
  PROVE  AnswersKept'
BY DEF Finish, AnswersKept, Active

LEMMA AnswersComplete ==
  ASSUME DeedStep, NEW done, Complete(done), UNCHANGED leaf
  PROVE  AnswersKept'
<1>1. \A n \in Nodes : node'[n] = "running" =>
        node[n] = "running" /\ segment'[n] = segment[n]
  BY DEF Complete
<1> QED BY <1>1, AnswersFrom

LEMMA AnswersSettle ==
  ASSUME DeedStep, NEW n \in Nodes, UNCHANGED leaf,
         Kept(n) \/ Commits(n) \/ Parks(n) \/ Closes
  PROVE  AnswersKept'
<1>1. CASE Kept(n)
  BY <1>1, AnswersSame DEF Kept
<1>2. CASE Commits(n)
  BY <1>2, AnswersFinish, AnswersComplete DEF Commits
<1>3. CASE Parks(n)
  <2>1. leaf[n] # "ready" /\ node' = node
    BY <1>3 DEF Parks
  <2>2. \A m \in Nodes \ {n} : segment'[m] = segment[m]
    BY <1>3 DEF Parks, DeedStep, OrderStep, WorkInv, TypeOK
  <2> QED BY <2>1, <2>2, AnswersFrom
<1>4. CASE Closes
  BY <1>4, AnswersFinish DEF Closes, Close
<1> QED BY <1>1, <1>2, <1>3, <1>4

(* The Turn of one leaf begins or ends.                                       *)
LEMMA AnswersTurn ==
  ASSUME DeedStep, NEW n \in Nodes,
         \A m \in Nodes \ {n} : /\ node'[m] = node[m] /\ leaf'[m] = leaf[m]
                                /\ segment'[m] = segment[m],
         \/ leaf'[n] # "ready"
         \/ leaf[n] = "open" /\ node'[n] = node[n] /\ segment'[n] = segment[n]
  PROVE  AnswersKept'
BY AnswersFrom

LEMMA AnswersDrives ==
  ASSUME DeedStep, NEW n \in Nodes, Drives(n)
  PROVE  AnswersKept'
<1>1. /\ WorkInv /\ leaf \in [Nodes -> {"new", "open", "interrupted", "ready",
                                        "failed", "cancelled"}]
      /\ node \in [Nodes -> {"queued", "running"} \cup Terminal]
      /\ segment \in [Nodes -> {"none", "active", "interrupted", "completed"}]
  BY DEF DeedStep, OrderStep, WorkInv, TypeOK
<1>2. CASE Pick(n) \/ Reopen(n) \/ Leave(n)
  BY <1>1, <1>2, PickIs, AnswersSame DEF Reopen, Leave, durable
<1>3. CASE Admit(n)
  <2>1. CASE Admits(n)
    BY <1>1, <2>1, AnswersTurn DEF Admits
  <2> QED BY <1>3, <2>1, AdmitIs, AnswersSame DEF durable
<1>4. CASE Continue(n)
  <2>1. CASE Continued(n)
    BY <1>1, <2>1, AnswersTurn DEF Continued
  <2> QED BY <1>4, <2>1, ContinueIs, AnswersSame DEF durable
<1>5. CASE SettleSerial(n)
  <2>1. UNCHANGED leaf
    BY <1>5 DEF SettleSerial
  <2> QED BY <1>1, <1>5, <2>1, SettleIs, AnswersSettle, AnswersFinish
        DEF SettleSerial, WorkInv, Close
<1>6. CASE Notice(n)
  <2>1. UNCHANGED <<node, segment>> /\ (UNCHANGED leaf \/ CancelTheRest)
    BY <1>6, NoticeIs DEF PauseTheRest
  <2>2. \A m \in Nodes : leaf'[m] = "ready" => leaf[m] = "ready"
    BY <2>1 DEF CancelTheRest
  <2> QED BY <2>1, <2>2, AnswersFrom
<1>7. CASE SettleNext(n)
  <2>1. UNCHANGED leaf
    BY <1>7 DEF SettleNext
  <2> QED BY <1>1, <1>7, <2>1, SettleIs, AnswersSettle, AnswersSame
        DEF SettleNext, WorkInv
<1> QED BY <1>2, <1>3, <1>4, <1>5, <1>6, <1>7 DEF Drives

LEMMA AnswersStep ==
  ASSUME DeedStep, [Next]_vars
  PROVE  AnswersKept'
<1>1. WorkInv
  BY DEF DeedStep, OrderStep
<1>2. ASSUME NEW n \in Nodes, EndsTurn(n)
      PROVE  AnswersKept'
  <2>1. PICK last : EndTurn(n, last)
    BY <1>2 DEF EndsTurn, Stop, Break, Answer, Fail
  <2>2. /\ InTurn(n) /\ leaf' = [leaf EXCEPT ![n] = last]
        /\ UNCHANGED <<node, segment>>
    BY <2>1 DEF EndTurn
  <2>3. leaf[n] = "open" /\ \A m \in Nodes \ {n} : leaf'[m] = leaf[m]
    BY <1>1, <2>2 DEF WorkInv, TypeOK, TasksKept
  <2> QED BY <2>2, <2>3, AnswersTurn
<1>3. CASE Command
  <2>1. CASE \/ Pause \/ CliPause \/ BareResume \/ Crash
             \/ \E c \in Commands : Resume(c) \/ ResumeDies(c)
    BY <2>1, AnswersSame DEF Pause, CliPause, BareResume, Crash, Resume,
                             ResumeDies, durable
  <2>2. CASE Cancel
    <3>1. CASE driver.at = "drive"
      BY <2>2, <3>1, AnswersFinish DEF Cancel
    <3>2. CASE driver.at # "drive"
      <4>1. \A n \in Nodes : leaf'[n] = "ready" => leaf[n] = "ready"
        BY <2>2 DEF Cancel
      <4> QED BY <2>2, <3>2, <4>1, AnswersFrom DEF Cancel
    <3> QED BY <3>1, <3>2
  <2>3. CASE CliCancel
    <3>1. UNCHANGED <<leaf, segment>> /\ \A n \in Nodes : node'[n] = "running" =>
                                                            node[n] = "running"
      BY <2>3 DEF CliCancel
    <3> QED BY <3>1, AnswersFrom
  <2> QED BY <1>3, <2>1, <2>2, <2>3 DEF Command
<1>4. CASE CancelRest
  BY <1>4, AnswersSame, AnswersFinish DEF CancelRest
<1>5. CASE Publish
  BY <1>5, AnswersComplete, AnswersFinish DEF Publish
<1>6. CASE End \/ Join \/ UNCHANGED vars
  BY <1>6, EndIs, AnswersSame DEF Join, vars, durable
<1>7. CASE Begin
  <2>1. UNCHANGED leaf
    BY <1>7, BeginIs
  <2> QED BY <1>7, <2>1, BeginIs, AnswersSame, AnswersFinish DEF Starts
<1> QED BY <1>2, <1>3, <1>4, <1>5, <1>6, <1>7, AnswersDrives DEF Next

LEMMA DeedInit ==
  ASSUME Init
  PROVE  DeedInv
BY DEF Init, DeedInv, ReadyKept, DriveKept, AnswersKept, Active, Starting, Idle, Off

--------------------------------------------------------------------------------
(* What a run promises of its plan                                            *)

(* A step that touches no fact of the promise.                                *)
LEMMA NoDeed ==
  ASSUME UNCHANGED <<plan, run, node, leaf>>
  PROVE  UNCHANGED Promise!vars
BY DEF Promise!vars, PhaseOf, StageOf

(* Turns end: nobody starts, and what was at work has answered or rests.      *)
LEMMA RestDeed ==
  ASSUME UNCHANGED <<plan, node>>, run'.status = run.status,
         run'.cancel \in {run.cancel, TRUE},
         \A n \in Nodes : leaf'[n] = leaf[n] \/ (leaf[n] = "open" /\ leaf'[n] # "open")
  PROVE  Promise!Rest
<1>1. PhaseOf' = PhaseOf
  BY DEF PhaseOf
<1>2. Promise!Moves("working", {"resting", "answered"})
  BY DEF Promise!Moves, StageOf
<1> QED BY <1>1, <1>2 DEF Promise!Rest

(* Nodes complete, each with its answer.                                      *)
LEMMA PublishDeed ==
  ASSUME NEW done \in SUBSET Publishable, Complete(done),
         UNCHANGED <<plan, run, leaf>>
  PROVE  Promise!Publish
<1>1. PhaseOf' = PhaseOf
  BY DEF PhaseOf
<1>2. \A n \in Nodes :
        \/ node'[n] = node[n]
        \/ node[n] = "running" /\ leaf[n] = "ready" /\ node'[n] = "completed"
  BY DEF Complete, Publishable, Active
<1>3. Promise!Moves("answered", {"done"})
  BY <1>2 DEF Promise!Moves, StageOf
<1> QED BY <1>1, <1>3 DEF Promise!Publish

LEMMA AskDeed ==
  ASSUME run' = [run EXCEPT !.cancel = TRUE], run \in Run,
         UNCHANGED <<plan, node, leaf>>
  PROVE  Promise!Ask
<1>1. run'.status = run.status /\ run'.cancel
  BY DEF Run
<1> QED BY <1>1 DEF Promise!Ask, PhaseOf, StageOf

(* A run that stops, or is held with nobody at work and nothing to publish.   *)
LEMMA PauseDeed ==
  ASSUME DeedStep, DeedInv', ~Ended, run.status # "paused",
         run'.status \in {"draining", "paused"}, run'.cancel = run.cancel,
         UNCHANGED <<plan, node, leaf>>
  PROVE  Promise!Pause
<1>1. PhaseOf \in {"going", "stopping"}
  BY DEF DeedStep, OrderStep, WorkInv, TypeOK, Run, Ended, PhaseOf
<1>2. PhaseOf' = IF run'.status = "paused" THEN "held" ELSE "stopping"
  BY DEF PhaseOf
<1>3. ASSUME run'.status = "paused", NEW n \in Nodes, node[n] = "running"
      PROVE  leaf[n] \notin {"open", "ready"}
  <2>1. n \in Active'
    BY <1>3 DEF Active
  <2>2. segment'[n] # "active"
    BY <1>3, <2>1 DEF DeedStep, OrderInv, PausedKept
  <2> QED BY <2>1, <2>2 DEF DeedStep, DeedInv, OrderStep, WorkInv, NodesKept, AnswersKept
<1>4. run'.status = "paused" => Promise!In("working") = {} /\ Promise!In("answered") = {}
  BY <1>3 DEF Promise!In, StageOf
<1>5. UNCHANGED <<plan, run.cancel, [n \in Nodes |-> StageOf(n)]>>
  BY DEF StageOf
<1> QED BY <1>1, <1>2, <1>4, <1>5 DEF Promise!Pause

LEMMA ResumeDeed ==
  ASSUME run.status \in {"draining", "paused"}, run'.status = "running",
         run'.cancel = run.cancel, UNCHANGED <<plan, node, leaf>>
  PROVE  Promise!Resume
BY DEF Promise!Resume, PhaseOf, StageOf

(* A run that ends: what is answered may be published, the rest closes.       *)
LEMMA EndDeed ==
  ASSUME run \in Run, run' \in Run, ~Ended, Ended', plan' = plan,
         run.status = "paused" => run.cancel /\ run'.status = "cancelled",
         run'.cancel \in {run.cancel, TRUE},
         run'.status = "completed" => AllCompleted',
         \A n \in Nodes :
           \/ /\ node'[n] = "completed"
              /\ node[n] = "completed" \/ (node[n] = "running" /\ leaf[n] = "ready")
           \/ node'[n] \in {"failed", "cancelled"} /\ node[n] # "completed"
  PROVE  Promise!End
<1>1. PhaseOf \notin Promise!Outcomes /\ (PhaseOf = "held" => run.status = "paused")
  BY DEF Ended, Terminal, Run, PhaseOf, Promise!Outcomes
<1>2. PhaseOf' = run'.status /\ PhaseOf' \in Promise!Outcomes
  BY DEF Ended, Terminal, Run, PhaseOf, Promise!Outcomes
<1>3. \A n \in Nodes :
        \/ StageOf(n)' = "done" /\ StageOf(n) \in {"done", "answered"}
        \/ StageOf(n)' = "closed" /\ StageOf(n) # "done"
  BY DEF StageOf
<1>4. run'.status = "completed" => \A n \in Nodes : StageOf(n)' = "done"
  BY DEF AllCompleted, StageOf
<1> QED BY <1>1, <1>2, <1>3, <1>4 DEF Promise!End

(* The ways a run is finished.                                                *)
LEMMA FinishDeed ==
  ASSUME DeedStep, NEW r \in Run, NEW done \in SUBSET Publishable,
         ~Ended, r.status \in Terminal, Finish(r, done), plan' = plan,
         run.status = "paused" => run.cancel /\ r.status = "cancelled",
         r.cancel \in {run.cancel, TRUE},
         r.status = "completed" =>
           \A n \in Nodes : node[n] = "completed" \/ n \in done
  PROVE  Promise!End
<1>1. /\ run' = r
      /\ \A n \in Nodes :
           node'[n] = IF node[n] = "completed" \/ n \in done THEN "completed"
                      ELSE IF node[n] = "running" /\ r.status = "failed"
                        THEN "failed" ELSE "cancelled"
  BY DEF Finish
<1>2. run \in Run /\ Ended'
  BY <1>1 DEF DeedStep, OrderStep, WorkInv, TypeOK, Ended
<1>3. \A n \in Nodes :
        \/ /\ node'[n] = "completed"
           /\ node[n] = "completed" \/ (node[n] = "running" /\ leaf[n] = "ready")
        \/ node'[n] \in {"failed", "cancelled"} /\ node[n] # "completed"
  BY <1>1 DEF Publishable, Active
<1>4. run'.status = "completed" => AllCompleted'
  BY <1>1 DEF AllCompleted
<1> QED BY <1>1, <1>2, <1>3, <1>4, EndDeed

(* An admitted node starts: its predecessors are done, and those at work are  *)
(* readers as it is.                                                          *)
LEMMA WorksWith ==
  ASSUME DeedStep, NEW n \in Nodes, n \in Active', Active \subseteq Active',
         NEW m \in Active, m # n
  PROVE  {m, n} \subseteq plan.readers
BY DEF DeedStep, OrderStep, Onward, WorkInv, Together

LEMMA WorksDeed ==
  ASSUME DeedStep, NEW n \in Nodes, run.status \in {"queued", "running"},
         run'.status \in {"queued", "running"}, run'.cancel = run.cancel,
         plan' = plan, StageOf(n) \in {"waiting", "resting"},
         node'[n] = "running", leaf'[n] = "open",
         \A m \in Nodes \ {n} : node'[m] = node[m] /\ leaf'[m] = leaf[m]
  PROVE  Promise!Works(n)
<1>1. PhaseOf = "going" /\ PhaseOf' = "going"
  BY DEF PhaseOf
<1>2. n \in Active' /\ Active \subseteq Active'
  BY DEF Active
<1>3. \A m \in Promise!In("working") : {m, n} \subseteq plan.readers
  <2>1. ASSUME NEW m \in Nodes, StageOf(m) = "working"
        PROVE  m \in Active /\ m # n
    BY <2>1 DEF StageOf, Active
  <2>2. \A m \in Promise!In("working") : m \in Active /\ m # n
    BY <2>1 DEF Promise!In
  <2> QED BY <1>2, <2>2, WorksWith
<1>4. [m \in Nodes |-> StageOf(m)]' =
        [[m \in Nodes |-> StageOf(m)] EXCEPT ![n] = "working"]
  <2>1. \A m \in Nodes : m # n => StageOf(m)' = StageOf(m)
    BY DEF StageOf
  <2>2. StageOf(n)' = "working"
    BY DEF StageOf
  <2> QED BY <2>1, <2>2
<1> QED BY <1>1, <1>3, <1>4 DEF Promise!Works

LEMMA StartDeed ==
  ASSUME DeedStep, NEW n \in Nodes, Starting(n), node[n] = "queued", Admits(n)
  PROVE  Promise!Start(n)
<1>1. run \in Run /\ plan \in Plans
      /\ node \in [Nodes -> {"queued", "running"} \cup Terminal]
      /\ leaf \in [Nodes -> {"new", "open", "interrupted", "ready", "failed",
                             "cancelled"}]
  BY DEF DeedStep, OrderStep, WorkInv, TypeOK
<1>2. /\ run.status \in {"queued", "running"} /\ plan' = plan
      /\ run'.status = "running" /\ run'.cancel = run.cancel
      /\ node'[n] = "running" /\ leaf'[n] = "open"
      /\ \A m \in Nodes \ {n} : node'[m] = node[m] /\ leaf'[m] = leaf[m]
  BY <1>1 DEF Admits, Run
<1>3. StageOf(n) = "waiting"
  BY DEF StageOf
<1>4. Promise!Works(n)
  BY <1>2, <1>3, WorksDeed
<1>5. \A e \in plan.edges : e[2] = n => StageOf(e[1]) = "done" /\ e[1] \in Nodes
  <2>1. Ready(n)
    BY DEF DeedStep, DeedInv, ReadyKept
  <2>2. \A e \in plan.edges : e[1] \in Nodes
    BY <1>1, PlansAssumption
  <2> QED BY <2>1, <2>2 DEF Ready, StageOf
<1> QED BY <1>3, <1>4, <1>5 DEF Promise!Start

(* A parked node goes on.                                                     *)
LEMMA GoOnDeed ==
  ASSUME DeedStep, NEW n \in Nodes, node[n] = "running", leaf[n] = "interrupted",
         Continued(n)
  PROVE  Promise!GoOn(n)
<1>1. /\ run.status \in {"queued", "running"} /\ UNCHANGED <<plan, run, node>>
      /\ leaf'[n] = "open" /\ \A m \in Nodes \ {n} : leaf'[m] = leaf[m]
  BY DEF Continued, DeedStep, OrderStep, WorkInv, TypeOK
<1>2. StageOf(n) = "resting"
  BY DEF StageOf
<1>3. Promise!Works(n)
  BY <1>1, <1>2, WorksDeed
<1> QED BY <1>2, <1>3 DEF Promise!GoOn

(* Every step of a run is a deed of the promise, or none.                     *)
Deed == Promise!Next \/ UNCHANGED Promise!vars

LEMMA DeedIs ==
  ASSUME \/ Promise!Rest \/ Promise!Publish \/ Promise!Ask \/ Promise!Pause
         \/ Promise!Resume \/ Promise!End \/ UNCHANGED Promise!vars
         \/ \E n \in Nodes : Promise!Start(n) \/ Promise!GoOn(n)
  PROVE  Deed
BY DEF Deed, Promise!Next

LEMMA PausesIs ==
  ASSUME DeedStep, DeedInv', ~Ended, run' = AfterPause(run, Active),
         UNCHANGED <<plan, node, leaf>>
  PROVE  Deed
<1>1. /\ run'.status \in {"draining", "paused"} /\ run'.cancel = run.cancel
      /\ run.status = "paused" => run' = run
  BY PauseRun DEF DeedStep, OrderStep, WorkInv
<1>2. CASE run.status = "paused"
  BY <1>1, <1>2, NoDeed, DeedIs
<1>3. CASE run.status # "paused"
  BY <1>1, <1>3, PauseDeed, DeedIs
<1> QED BY <1>2, <1>3

LEMMA ResumesIs ==
  ASSUME DeedStep, ~Ended, run' = AfterResume(run), UNCHANGED <<plan, node, leaf>>
  PROVE  Deed
<1>1. CASE run.pausing
  <2>1. run \in Run /\ run.status \in {"draining", "paused"}
    BY <1>1 DEF DeedStep, OrderStep, WorkInv, TypeOK, RunKept, Ended
  <2>2. run'.status = "running" /\ run'.cancel = run.cancel
    BY <1>1, <2>1 DEF AfterResume, Run
  <2> QED BY <2>1, <2>2, ResumeDeed, DeedIs
<1>2. CASE ~run.pausing
  BY <1>2, NoDeed, DeedIs DEF AfterResume
<1> QED BY <1>1, <1>2

(* What settles a node publishes its answer, stops the run or ends it.        *)
LEMMA SettlesIs ==
  ASSUME DeedStep, DeedInv', NEW n \in Nodes, UNCHANGED <<plan, leaf>>,
         Kept(n) \/ Commits(n) \/ Parks(n) \/ Closes,
         run.status = "paused" => Kept(n), ~Ended /\ leaf[n] = "ready" => n \in Active
  PROVE  Deed
<1>1. run \in Run
  BY DEF DeedStep, OrderStep, WorkInv, TypeOK
<1>2. CASE Kept(n)
  BY <1>2, NoDeed, DeedIs DEF Kept
<1>3. CASE Commits(n) /\ run.status # "paused"
  <2> DEFINE r == [run EXCEPT !.status = "completed"]
             done == {n}
  <2>1. ~Ended /\ done \in SUBSET Publishable
    BY <1>3 DEF Commits, Publishable
  <2>2. CASE Complete(done) /\ UNCHANGED run
    <3> HIDE DEF done
    <3> QED BY <2>1, <2>2, PublishDeed, DeedIs
  <2>3. CASE /\ Finish(r, done)
             /\ \A m \in Nodes : m # n => node[m] = "completed"
    <3>1. r \in Run /\ r.status \in Terminal /\ r.cancel = run.cancel
      BY <1>1 DEF Run, Terminal
    <3>2. \A m \in Nodes : node[m] = "completed" \/ m \in done
      BY <2>3
    <3> HIDE DEF r, done
    <3> QED BY <1>3, <2>1, <2>3, <3>1, <3>2, FinishDeed, DeedIs
  <2> QED BY <1>3, <2>2, <2>3 DEF Commits
<1>4. CASE Parks(n)
  <2>1. ~Ended /\ UNCHANGED node /\ (run' = run \/ run' = AfterPause(run, Active))
    BY <1>4 DEF Parks
  <2>2. CASE run' = run
    BY <2>1, <2>2, NoDeed, DeedIs
  <2> QED BY <2>1, <2>2, PausesIs
<1>5. CASE Closes /\ run.status # "paused"
  <2>1. PICK s \in {"failed", "cancelled"} : Finish([run EXCEPT !.status = s], {})
    BY <1>5 DEF Closes, Close
  <2> DEFINE r == [run EXCEPT !.status = s]
  <2>2. /\ r \in Run /\ r.status \in Terminal /\ r.cancel = run.cancel
        /\ r.status # "completed" /\ Finish(r, {}) /\ {} \in SUBSET Publishable
    BY <1>1, <2>1 DEF Run, Terminal
  <2>3. ~Ended
    BY <1>5 DEF Closes
  <2> HIDE DEF r
  <2> QED BY <1>5, <2>2, <2>3, FinishDeed, DeedIs
<1> QED BY <1>2, <1>3, <1>4, <1>5

(* A node that is driven alone while its run is paused was refused, and keeps *)
(* its facts.                                                                 *)
LEMMA SerialDeed ==
  ASSUME DeedStep, DeedInv', NEW n \in Nodes, SettleSerial(n)
  PROVE  Deed
<1>1. /\ driver.at = "drive" /\ driver.node = n /\ task[n].at = "ended"
      /\ UNCHANGED <<plan, leaf>>
  BY DEF SettleSerial
<1>2. ~Ended => /\ node[n] \in {"queued", "running"}
                /\ node[n] = "queued" => task[n].error = "paused"
  BY <1>1 DEF DeedStep, DeedInv, DriveKept
<1>3. ~Ended /\ leaf[n] = "ready" => n \in Active
  BY <1>2 DEF DeedStep, OrderStep, WorkInv, TypeOK, Active
<1>4. CASE run.status = "paused"
  <2>1. ~Ended /\ Active = {}
    BY <1>1, <1>4 DEF DeedStep, OrderStep, OrderInv, PausedKept, Ended, Terminal
  <2>2. leaf[n] = "new" /\ task[n].error = "paused"
    BY <1>2, <2>1 DEF DeedStep, OrderStep, WorkInv, TypeOK, Active
  <2>3. Settle(n)
    BY <1>4 DEF SettleSerial
  <2>4. UNCHANGED <<run, node>>
    BY <2>2, <2>3 DEF Settle
  <2> QED BY <1>1, <2>4, NoDeed, DeedIs
<1>5. CASE run.status # "paused"
  <2>1. Kept(n) \/ Commits(n) \/ Parks(n) \/ Closes
    <3>1. CASE /\ run.status = "running"
               /\ Close("failed") /\ UNCHANGED <<point, parked>>
      BY <3>1 DEF Closes, Ended, Terminal
    <3>2. CASE Settle(n)
      BY <3>2, SettleIs DEF DeedStep, OrderStep, WorkInv
    <3> QED BY <3>1, <3>2 DEF SettleSerial
  <2> QED BY <1>1, <1>3, <1>5, <2>1, SettlesIs
<1> QED BY <1>4, <1>5

LEMMA NextDeed ==
  ASSUME DeedStep, DeedInv', NEW n \in Nodes, SettleNext(n)
  PROVE  Deed
<1>1. driver.at \in {"settle", "close"} /\ UNCHANGED <<plan, leaf>>
  BY DEF SettleNext
<1>2. CASE node[n] = "running"
  <2>1. n \in Active /\ run.status # "paused"
    BY <1>1, <1>2 DEF DeedStep, OrderStep, OrderInv, PausedKept, Active
  <2>2. Settle(n)
    BY <1>2 DEF SettleNext
  <2> QED BY <1>1, <2>1, <2>2, SettleIs, SettlesIs DEF DeedStep, OrderStep, WorkInv
<1>3. CASE node[n] # "running"
  BY <1>1, <1>3, NoDeed, DeedIs DEF SettleNext
<1> QED BY <1>2, <1>3

LEMMA NoticeDeed ==
  ASSUME DeedStep, DeedInv', NEW n \in Nodes, Notice(n)
  PROVE  Deed
<1>1. /\ driver.at = "frontier" /\ task[n].at = "ended" /\ UNCHANGED <<plan, node>>
      /\ WorkInv
  BY NoticeIs DEF DeedStep, OrderStep
<1>2. CASE Interrupted # {} /\ PauseTheRest(n)
  <2>1. run' = AfterPause(run, Active) /\ UNCHANGED leaf
    BY <1>2 DEF PauseTheRest
  <2>2. ~Ended
    <3>1. driver.team \subseteq Nodes
      BY <1>1 DEF WorkInv, TypeOK, Driver
    <3> QED BY <1>1, <1>2, <3>1 DEF WorkInv, TeamKept, Interrupted
  <2> QED BY <1>1, <2>1, <2>2, PausesIs
<1>3. CASE UNCHANGED <<run, leaf>>
  BY <1>1, <1>3, NoDeed, DeedIs
<1>4. CASE CancelTheRest
  <2>1. /\ UNCHANGED run
        /\ \A m \in Nodes : leaf'[m] = leaf[m] \/ (InTurn(m) /\ leaf'[m] = "cancelled")
    BY <1>4 DEF CancelTheRest, InTurn
  <2>2. \A m \in Nodes : leaf'[m] = leaf[m] \/ (leaf[m] = "open" /\ leaf'[m] # "open")
    BY <1>1, <2>1 DEF WorkInv, TasksKept
  <2> QED BY <1>1, <2>1, <2>2, RestDeed, DeedIs
<1> QED BY <1>2, <1>3, <1>4, NoticeIs

LEMMA CancelDeed ==
  ASSUME DeedStep, Cancel
  PROVE  Deed
<1> DEFINE done == {driver.node} \cap Publishable
           won == \A n \in Nodes : node[n] = "completed" \/ n \in done
           asked == [run EXCEPT !.cancel = TRUE]
           closed == [asked EXCEPT !.status = IF won THEN "completed"
                                                    ELSE "cancelled"]
<1>1. /\ ~Ended /\ run.status # "paused" /\ UNCHANGED plan
      /\ leaf' = [n \in Nodes |-> IF InTurn(n) THEN "cancelled" ELSE leaf[n]]
      /\ WorkInv
  BY DEF Cancel, DeedStep, OrderStep
<1>2. asked \in Run /\ asked.status = run.status /\ asked.cancel
  BY <1>1 DEF WorkInv, TypeOK, Run
<1>3. CASE driver.at = "drive"
  <2>1. Finish(closed, done) /\ done \in SUBSET Publishable
    BY <1>3 DEF Cancel
  <2>2. /\ closed \in Run /\ closed.status \in Terminal /\ closed.cancel
        /\ closed.status = "completed" => won
    BY <1>2 DEF Run, Terminal
  <2> HIDE DEF closed, done
  <2> QED BY <1>1, <2>1, <2>2, FinishDeed, DeedIs
<1>4. CASE driver.at # "drive"
  <2>1. run' = asked /\ UNCHANGED node
    BY <1>4 DEF Cancel
  <2>2. \A m \in Nodes : leaf'[m] = leaf[m] \/ (leaf[m] = "open" /\ leaf'[m] # "open")
    BY <1>1 DEF WorkInv, TasksKept
  <2>3. run'.status = run.status /\ run'.cancel \in {run.cancel, TRUE}
    BY <1>2, <2>1 DEF Run
  <2> QED BY <1>1, <2>1, <2>2, <2>3, RestDeed, DeedIs
<1> QED BY <1>3, <1>4

LEMMA CliCancelDeed ==
  ASSUME DeedStep, CliCancel
  PROVE  Deed
<1>1. /\ ~Ended /\ run.status # "paused" /\ UNCHANGED <<plan, leaf>>
      /\ WorkInv /\ run \in Run
  BY DEF CliCancel, DeedStep, OrderStep, WorkInv, TypeOK
<1>2. CASE Active = {}
  <2>1. /\ run' = [run EXCEPT !.cancel = TRUE, !.status = "cancelled"]
        /\ node' = [n \in Nodes |-> IF node[n] = "queued" THEN "cancelled"
                                                           ELSE node[n]]
    BY <1>2 DEF CliCancel
  <2>2. run' \in Run /\ run'.status = "cancelled" /\ run'.cancel /\ Ended'
    BY <1>1, <2>1 DEF Run, Ended, Terminal
  <2>3. \A n \in Nodes : node[n] \in {"queued", "completed"}
    BY <1>1, <1>2 DEF WorkInv, TypeOK, NodesKept, Active, Terminal
  <2>4. \A n \in Nodes :
          \/ node'[n] = "completed" /\ node[n] = "completed"
          \/ node'[n] \in {"failed", "cancelled"} /\ node[n] # "completed"
    BY <2>1, <2>3
  <2> QED BY <1>1, <2>2, <2>4, EndDeed, DeedIs
<1>3. CASE Active # {}
  BY <1>1, <1>3, AskDeed, DeedIs DEF CliCancel
<1> QED BY <1>2, <1>3

LEMMA CommandDeed ==
  ASSUME DeedStep, DeedInv', Command
  PROVE  Deed
<1>1. CASE Pause \/ CliPause
  BY <1>1, PausesIs DEF Pause, CliPause
<1>2. CASE \E c \in Commands : Resume(c)
  BY <1>2, ResumesIs DEF Resume
<1>3. CASE BareResume \/ Crash \/ \E c \in Commands : ResumeDies(c)
  BY <1>3, NoDeed, DeedIs DEF BareResume, Crash, ResumeDies, durable
<1> QED BY <1>1, <1>2, <1>3, CancelDeed, CliCancelDeed DEF Command

LEMMA BeginDeed ==
  ASSUME DeedStep, Begin
  PROVE  Deed
<1>1. UNCHANGED <<plan, leaf>> /\ WorkInv
  BY BeginIs DEF DeedStep, OrderStep
<1>2. CASE UNCHANGED <<run, node, segment>>
  BY <1>1, <1>2, NoDeed, DeedIs
<1>3. CASE /\ ~Ended /\ BeginRow.cancel
           /\ Finish([BeginRow EXCEPT !.status = "cancelled"], Publishable)
  <2> DEFINE r == [BeginRow EXCEPT !.status = "cancelled"]
  <2>1. BeginRow \in Run /\ run.cancel
    BY <1>1, <1>3, BeginRowIs, ResumeRun DEF BeginRow, WorkInv
  <2>2. /\ r \in Run /\ r.status = "cancelled" /\ r.status \in Terminal /\ r.cancel
        /\ Finish(r, Publishable)
    BY <1>3, <2>1 DEF Run, Terminal
  <2> HIDE DEF r
  <2> QED BY <1>1, <1>3, <2>1, <2>2, FinishDeed, DeedIs
<1>4. CASE ~Ended /\ Starts
  <2>1. run' = BeginRow /\ UNCHANGED node
    BY <1>4 DEF Starts
  <2>2. CASE driver.at = "resume"
    BY <1>1, <1>4, <2>1, <2>2, ResumesIs DEF BeginRow
  <2>3. CASE driver.at # "resume"
    BY <1>1, <2>1, <2>3, NoDeed, DeedIs DEF BeginRow
  <2> QED BY <2>2, <2>3
<1> QED BY <1>2, <1>3, <1>4, BeginIs

LEMMA CancelRestDeed ==
  ASSUME DeedStep, CancelRest
  PROVE  Deed
<1>1. UNCHANGED <<plan, leaf>> /\ run \in Run
  BY DEF CancelRest, DeedStep, OrderStep, WorkInv, TypeOK
<1>2. CASE Ended \/ run.status = "paused"
  BY <1>1, <1>2, NoDeed, DeedIs DEF CancelRest
<1>3. CASE ~ (Ended \/ run.status = "paused")
  <2> DEFINE r == [run EXCEPT !.status = "cancelled"]
  <2>1. /\ r \in Run /\ r.status = "cancelled" /\ r.status \in Terminal
        /\ r.cancel = run.cancel
    BY <1>1 DEF Run, Terminal
  <2>2. Finish(r, Publishable)
    BY <1>3 DEF CancelRest
  <2> HIDE DEF r
  <2> QED BY <1>1, <1>3, <2>1, <2>2, FinishDeed, DeedIs
<1> QED BY <1>2, <1>3

LEMMA PublishesDeed ==
  ASSUME DeedStep, Publish
  PROVE  Deed
<1> DEFINE done == Publishable \cap driver.team
           r == [run EXCEPT !.status = "failed"]
<1>1. UNCHANGED <<plan, leaf>> /\ done \in SUBSET Publishable /\ run \in Run
  BY DEF Publish, DeedStep, OrderStep, WorkInv, TypeOK
<1>2. CASE Complete(done) /\ UNCHANGED run
  <2> HIDE DEF done
  <2> QED BY <1>1, <1>2, PublishDeed, DeedIs
<1>3. CASE ~Ended /\ ~run.pausing /\ Finish(r, done)
  <2>1. r \in Run /\ r.status = "failed" /\ r.status \in Terminal /\ r.cancel = run.cancel
    BY <1>1 DEF Run, Terminal
  <2>2. run.status # "paused"
    BY <1>3 DEF DeedStep, OrderStep, WorkInv, TypeOK
  <2> HIDE DEF r, done
  <2> QED BY <1>1, <1>3, <2>1, <2>2, FinishDeed, DeedIs
<1> QED BY <1>2, <1>3 DEF Publish

LEMMA EndsDeed ==
  ASSUME DeedStep, DeedInv', End
  PROVE  Deed
<1>1. UNCHANGED <<plan, node, leaf>> /\ run \in Run
  BY EndIs DEF DeedStep, OrderStep, WorkInv, TypeOK
<1>2. CASE /\ run.status \in {"running", "draining"} /\ AllCompleted
           /\ run' = [run EXCEPT !.status = "completed"]
  <2>1. /\ run' \in Run /\ run'.status = "completed" /\ run'.cancel = run.cancel
        /\ ~Ended /\ Ended' /\ run.status # "paused"
    BY <1>1, <1>2 DEF Run, Ended, Terminal
  <2>2. \A n \in Nodes : node'[n] = "completed" /\ node[n] = "completed"
    BY <1>1, <1>2 DEF AllCompleted
  <2> QED BY <1>1, <2>1, <2>2, EndDeed, DeedIs DEF AllCompleted
<1>3. CASE run.status = "draining" /\ run' = [run EXCEPT !.status = "paused"]
  <2>1. run'.status = "paused" /\ run'.cancel = run.cancel /\ ~Ended
    BY <1>1, <1>3 DEF Run, Ended, Terminal
  <2> QED BY <1>1, <1>3, <2>1, PauseDeed, DeedIs
<1>4. CASE UNCHANGED run
  BY <1>1, <1>4, NoDeed, DeedIs
<1> QED BY <1>2, <1>3, <1>4, EndIs

LEMMA DrivesDeed ==
  ASSUME DeedStep, DeedInv', NEW n \in Nodes, Drives(n)
  PROVE  Deed
<1>1. CASE UNCHANGED durable
  BY <1>1, NoDeed, DeedIs DEF durable
<1>2. CASE Pick(n) \/ Reopen(n) \/ Leave(n)
  BY <1>1, <1>2, PickIs DEF Reopen, Leave, DeedStep, OrderStep
<1>3. CASE Admit(n)
  BY <1>1, <1>3, AdmitIs, StartDeed, DeedIs
<1>4. CASE Continue(n)
  BY <1>1, <1>4, ContinueIs, GoOnDeed, DeedIs
<1> QED BY <1>2, <1>3, <1>4, SerialDeed, NoticeDeed, NextDeed DEF Drives

LEMMA TurnDeed ==
  ASSUME DeedStep, NEW n \in Nodes, EndsTurn(n)
  PROVE  Deed
<1>1. PICK last \in {"interrupted", "ready", "failed"} :
        InTurn(n) /\ leaf' = [leaf EXCEPT ![n] = last] /\ UNCHANGED <<plan, run, node>>
  BY DEF EndsTurn, Stop, Break, Answer, Fail, EndTurn
<1>2. \A m \in Nodes : leaf'[m] = leaf[m] \/ (leaf[m] = "open" /\ leaf'[m] # "open")
  BY <1>1 DEF DeedStep, OrderStep, WorkInv, TypeOK, TasksKept
<1> QED BY <1>1, <1>2, RestDeed, DeedIs

LEMMA StepDeed ==
  ASSUME DeedStep, DeedInv', [Next]_vars
  PROVE  Deed
<1>1. CASE Join \/ UNCHANGED vars
  BY <1>1, NoDeed, DeedIs DEF Join, durable, vars
<1> QED BY <1>1, BeginDeed, CancelRestDeed, PublishesDeed, EndsDeed, DrivesDeed,
           TurnDeed, CommandDeed DEF Next

(* Refinement: a run keeps the promise of module PlanRun, for any plan, any   *)
(* commands and any interleaving of two processes and crashes.                *)
THEOREM PlanPromiseKept == Spec => RunKeepsPromise
<1>1. Init => Promise!Init
  BY DEF Init, Promise!Init, PhaseOf, StageOf
<1>2. Init => WorkInv /\ OrderInv /\ DeedInv
  BY WorkInit, OrderInit, DeedInit
<1>3. WorkInv /\ OrderInv /\ DeedInv /\ [Next]_vars =>
        WorkInv' /\ OrderInv' /\ DeedInv' /\ Deed
  <2> SUFFICES ASSUME WorkInv, OrderInv, DeedInv, [Next]_vars
               PROVE  WorkInv' /\ OrderInv' /\ DeedInv' /\ Deed
    OBVIOUS
  <2>1. OrderStep
    BY WorkStep, OnwardStep DEF OrderStep
  <2>2. DeedStep
    BY <2>1, OrderNext DEF DeedStep
  <2>3. DeedInv'
    BY <2>2, ReadyStep, DriveStep, AnswersStep DEF DeedInv
  <2> QED BY <2>1, <2>2, <2>3, StepDeed DEF OrderStep, DeedStep
<1>4. Deed <=> [Promise!Next]_(Promise!vars)
  BY DEF Deed
<1> QED BY <1>1, <1>2, <1>3, <1>4, PTL DEF Spec, RunKeepsPromise

================================================================================
