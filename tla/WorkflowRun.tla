---------------------------- MODULE WorkflowRun ----------------------------
(* One workflow run: its nodes, the driver that executes them               *)
(* (application/workflows/scheduler.py), and the durable pause cycle that    *)
(* the commands of the server and of a second process act on                 *)
(* (transitions.py, application/execution_pause.py).                         *)
(*                                                                           *)
(* The driver is one asyncio task.  It works without interruption from one   *)
(* await to the next, so commands of its own process reach it only AtAwait;  *)
(* a second process (the command line) commits between any two steps.        *)
(*                                                                           *)
(* Left out: blocking recovery reports, replan signals, revocation, budgets  *)
(* and deadlines.  Each ends a run or keeps it from being driven before any  *)
(* of the steps below is reached.                                            *)
EXTENDS Integers, FiniteSets

CONSTANTS
  Nodes,          \* in the stable execution order
  Plans,          \* the graphs a run may have: predecessors, parallel readers
  Commands,       \* ids of the resume commands clients may send
  MaxConcurrency  \* budget_snapshot.max_concurrency

NoCommand == "none"
NoNode == 0

ASSUME NodesAssumption == Nodes \subseteq Nat \ {NoNode} /\ IsFiniteSet(Nodes)
ASSUME PlansAssumption ==
  \A p \in Plans : /\ p.readers \subseteq Nodes
                   /\ p.edges \subseteq {e \in Nodes \X Nodes : e[1] < e[2]}
ASSUME CommandsAssumption == NoCommand \notin Commands
ASSUME ConcurrencyAssumption == MaxConcurrency \in Nat \ {0}

VARIABLES
  plan,      \* the frozen revision
  run,       \* the run row: status, pause fact, pending user cancellation
  node,      \* node[n]: the status of its NodeRun
  shared,    \* the nodes admitted as parallel readers
  leaf,      \* leaf[n]: its leaf task and the last Turn of it
  segment,   \* segment[n]: the status of its last execution segment
  point,     \* the latest pause point
  parked,    \* the nodes whose last interruption opened a pause cycle
  receipts,  \* receipts[c]: who holds the receipt of continuation c
  driver,    \* the driver: where it is, the node or the frontier it drives
  task,      \* task[n]: the drive of node n, and how it ended
  sent,      \* the resume commands already accepted
  lost       \* the last driver ended without finishing

durable == <<plan, run, node, shared, leaf, segment, point, parked, receipts,
             sent>>
vars == <<plan, run, node, shared, leaf, segment, point, parked, receipts,
          sent, driver, task, lost>>

Terminal == {"completed", "failed", "cancelled"}
Run == [status : {"queued", "running", "draining", "paused"} \cup Terminal,
        pausing : BOOLEAN, cancel : BOOLEAN]
Point == [life : {"none", "requested", "suspended", "resumed"},
          node : Nodes \cup {NoNode}, command : Commands \cup {NoCommand},
          taken : BOOLEAN]
Receipt == [first : Nodes \cup {NoNode}, own : SUBSET Nodes]
Driver == [at : {"off", "start", "resume", "cancel", "pick", "drive",
                 "frontier", "settle", "publish", "close", "end"},
           node : Nodes \cup {NoNode}, team : SUBSET Nodes, saw : BOOLEAN]
Drive == [at : {"off", "start", "turn", "again", "ended", "joined"},
          error : {"none", "paused", "reused", "other"}]

TypeOK ==
  /\ plan \in Plans
  /\ run \in Run
  /\ node \in [Nodes -> {"queued", "running"} \cup Terminal]
  /\ shared \in SUBSET Nodes
  /\ leaf \in [Nodes -> {"new", "open", "interrupted", "ready", "failed",
                         "cancelled"}]
  /\ segment \in [Nodes -> {"none", "active", "interrupted", "completed"}]
  /\ point \in Point
  /\ parked \in SUBSET Nodes
  /\ receipts \in [Commands -> Receipt]
  /\ driver \in Driver
  /\ task \in [Nodes -> Drive]
  /\ sent \in SUBSET Commands
  /\ lost \in BOOLEAN
  /\ run.status \in {"draining", "paused"} => run.pausing
  /\ \A n \in Nodes : node[n] = "queued" => leaf[n] = "new" /\ segment[n] = "none"

Ended == run.status \in Terminal
Active == {n \in Nodes : node[n] = "running"}
AllCompleted == \A n \in Nodes : node[n] = "completed"
InTurn(n) == task[n].at \in {"turn", "again"}  \* again: a continuation
Idle == [at |-> "off", error |-> "none"]
Off == [at |-> "off", node |-> NoNode, team |-> {}, saw |-> FALSE]
NoPoint == [life |-> "none", node |-> NoNode, command |-> NoCommand,
            taken |-> FALSE]

-----------------------------------------------------------------------------
(* The pause facts                                                           *)

\* Mutant: the run pauses without waiting for its active nodes.
AfterPauseAtOnce(r, active) ==
  IF r.pausing THEN r ELSE [r EXCEPT !.pausing = TRUE, !.status = "paused"]

\* The run row after request_pause.  A run without an active node pauses at
\* once; the others drain.
AfterPause(r, active) ==
  IF r.pausing
    THEN IF r.status = "draining" /\ active = {}
           THEN [r EXCEPT !.status = "paused"] ELSE r
    ELSE [r EXCEPT !.pausing = TRUE,
                   !.status = IF @ = "running" /\ active # {} THEN "draining"
                                                              ELSE "paused"]

\* A new cycle: requested, bound to no node and no continuation.
Requested == [NoPoint EXCEPT !.life = "requested"]

\* request_pause with a command id opens a cycle, unless the pause fact stands.
PointAfterPause(withId) == IF withId /\ ~run.pausing THEN Requested ELSE point

\* Mutant: a pause without a cycle gets none when its node parks.
AfterSuspendNone(p, n) ==
  IF p.life \in {"none", "suspended"}
    THEN p
    ELSE [p EXCEPT !.life = "suspended", !.node = n]

\* The cycle once node n is parked; none yet opens one.  The first node to
\* park it is the one it names.
AfterSuspend(p, n) ==
  IF p.life = "suspended" THEN p
  ELSE [(IF p.life = "none" THEN Requested ELSE p) EXCEPT
          !.life = "suspended", !.node = n]

\* Mutant: a draining run keeps its status when it resumes.
AfterResumeDraining(r) ==
  IF r.pausing THEN [r EXCEPT !.pausing = FALSE,
                              !.status = IF @ = "draining" THEN @ ELSE "running"]
               ELSE r

\* resume_run: the pause fact goes, a paused or draining run runs.
AfterResume(r) ==
  IF r.pausing THEN [r EXCEPT !.pausing = FALSE, !.status = "running"] ELSE r

\* Does the live Turn of a leaf see a pause?  (NodePauseControl)
Signalled ==
  /\ run.pausing
  /\ \/ point.life = "requested"
     \/ point.life \in {"suspended", "none"} /\ run.status = "draining"

\* The accepted continuation node n still has to take.
Continues(n) ==
  /\ point.life \in {"suspended", "resumed"}
  /\ point.command # NoCommand
  /\ segment[n] = "interrupted"

-----------------------------------------------------------------------------
(* The end of a run                                                          *)

\* The nodes of done complete, which settles their active segment in the same
\* transaction; what still runs or waits closes with the run.
Finish(r, done) ==
  /\ run' = r
  /\ node' = [n \in Nodes |->
       IF node[n] = "completed" \/ n \in done THEN "completed"
       ELSE IF node[n] = "running" /\ r.status = "failed" THEN "failed"
       ELSE "cancelled"]
  /\ segment' = [n \in Nodes |->
       IF n \in done /\ segment[n] = "active" THEN "completed" ELSE segment[n]]

\* finalize_failure, finalize_cancel; the run is neither paused nor ended.
Close(status) == Finish([run EXCEPT !.status = status], {})

\* complete_node for the nodes of done, while the run goes on.
Complete(done) ==
  /\ node' = [n \in Nodes |-> IF n \in done THEN "completed" ELSE node[n]]
  /\ segment' = [n \in Nodes |->
       IF n \in done /\ segment[n] = "active" THEN "completed" ELSE segment[n]]

\* Mutant: an interrupted leaf counts as committed.
PublishableParked == {n \in Active : leaf[n] \in {"ready", "interrupted"}}

\* Committed leaves of nodes still running.
Publishable == {n \in Active : leaf[n] = "ready"}

-----------------------------------------------------------------------------
(* Where the driver goes                                                     *)

\* Commands of the driver's own process run while it awaits: the execution lock
\* of the workspace, a Turn or the closing of its runtime, and the barrier of a
\* frontier, but not between the starts of its parked nodes.
AtAwait ==
  \/ driver.at \in {"off", "start", "resume", "cancel"}
  \/ driver.at = "drive" /\ task[driver.node].at # "start"
  \/ /\ driver.at = "frontier"
     /\ \/ \A n \in driver.team : task[n].at = "start"
        \/ \A n \in driver.team : task[n].at = "start" => node[n] = "queued"

\* The step after node n in the stable order.
After(n) ==
  LET later == {m \in Nodes : m > n}
  IN IF later = {} THEN [Off EXCEPT !.at = "end"]
     ELSE [Off EXCEPT !.at = "pick",
                      !.node = CHOOSE m \in later : \A k \in later : m <= k]

Ready(n) == \A e \in plan.edges : e[2] = n => node[e[1]] = "completed"

\* Mutant: the access mode is not looked at.
FrontierOfReady(n) ==
  IF run.status \notin {"queued", "running"} \/ Active # {} THEN {}
  ELSE {m \in Nodes : m >= n /\ node[m] = "queued" /\ Ready(m)}

\* The queued readers from n on that may run together: nothing is active, and
\* no writer and no waiting node stands between them.
Frontier(n) ==
  LET open(m) == m >= n /\ node[m] # "completed"
      mate(m) == node[m] = "queued" /\ m \in plan.readers /\ Ready(m)
      all == {m \in Nodes : open(m) /\ \A k \in n..m \cap Nodes :
                                         open(k) => mate(k)}
  IN IF run.status \notin {"queued", "running"} \/ Active # {} THEN {}
     ELSE {m \in all : Cardinality({k \in all : k <= m}) <= MaxConcurrency}

Launch(team) ==
  task' = [n \in Nodes |-> IF n \in team THEN [Idle EXCEPT !.at = "start"]
                                         ELSE Idle]
Ends(n, error) == task' = [task EXCEPT ![n] = [at |-> "ended", error |-> error]]

\* ensure_driver: at most one driver of a run.  It will resume the run when it
\* gets the execution lock; saw tells whether the pause stood when it was asked.
EnsureDriver ==
  IF driver.at = "off"
    THEN /\ driver' = [Off EXCEPT !.at = "resume", !.saw = run'.pausing]
         /\ lost' = FALSE
    ELSE UNCHANGED <<driver, lost>>

StopDriver == driver' = Off /\ task' = [n \in Nodes |-> Idle]

-----------------------------------------------------------------------------
(* Commands                                                                  *)

\* pause with a command id.
Pause ==
  /\ AtAwait /\ ~Ended
  /\ run' = AfterPause(run, Active)
  /\ point' = PointAfterPause(TRUE)
  /\ UNCHANGED <<plan, node, shared, leaf, segment, parked, receipts, sent,
                 driver, task, lost>>

\* "workflow pause" of another process: the fact without a cycle.
CliPause ==
  /\ ~Ended
  /\ run' = AfterPause(run, Active)
  /\ point' = PointAfterPause(FALSE)
  /\ UNCHANGED <<plan, node, shared, leaf, segment, parked, receipts, sent,
                 driver, task, lost>>

\* A suspended cycle takes one continuation command, and refuses another.
Binds(c) == point.life = "suspended"
Refused(c) == Binds(c) /\ point.command \notin {NoCommand, c}
Bind(c) == point' = IF Binds(c) THEN [point EXCEPT !.command = c] ELSE point

\* resume with a command id: bind the continuation, then clear the pause fact,
\* then see to a driver.
Resume(c) ==
  /\ AtAwait /\ ~Ended
  /\ c \notin sent /\ ~Refused(c)
  /\ Bind(c)
  /\ run' = AfterResume(run)
  /\ sent' = sent \cup {c}
  /\ EnsureDriver
  /\ UNCHANGED <<plan, node, shared, leaf, segment, parked, receipts, task>>

\* The process dies between the binding and the resume.
ResumeDies(c) ==
  /\ AtAwait /\ ~Ended
  /\ c \notin sent /\ ~Refused(c)
  /\ Bind(c)
  /\ StopDriver
  /\ lost' = TRUE
  /\ UNCHANGED <<plan, run, node, shared, leaf, segment, parked, receipts,
                 sent>>

\* resume without a command id ("workflow resume"), or a replayed command: it
\* only sees to a driver.
BareResume ==
  /\ driver.at = "off" /\ ~Ended
  /\ run' = run
  /\ EnsureDriver
  /\ UNCHANGED <<plan, node, shared, leaf, segment, point, parked, receipts,
                 sent, task>>

\* cancel: the intent, then the driver is cancelled and its Turns close; a
\* serial drive settles its node.  What is left waits for a driver of its own.
Cancel ==
  /\ AtAwait /\ ~Ended /\ run.status # "paused"
  /\ leaf' = [n \in Nodes |-> IF InTurn(n) THEN "cancelled" ELSE leaf[n]]
  /\ LET done == {driver.node} \cap Publishable
         won == \A n \in Nodes : node[n] = "completed" \/ n \in done
         asked == [run EXCEPT !.cancel = TRUE]
     IN IF driver.at = "drive"
          THEN /\ Finish([asked EXCEPT !.status = IF won THEN "completed"
                                                        ELSE "cancelled"], done)
               /\ driver' = Off
          ELSE /\ run' = asked /\ UNCHANGED <<node, segment>>
               /\ driver' = [Off EXCEPT !.at = "cancel"]
  /\ task' = [n \in Nodes |-> Idle]
  /\ lost' = FALSE
  /\ UNCHANGED <<plan, shared, point, parked, receipts, sent>>

\* _drive_cancel, once it has the execution lock.  Only a resume gets a paused
\* run any further.
CancelRest ==
  /\ driver.at = "cancel"
  /\ IF Ended \/ run.status = "paused"
       THEN UNCHANGED <<run, node, segment>>
       ELSE Finish([run EXCEPT !.status = "cancelled"], Publishable)
  /\ StopDriver
  /\ UNCHANGED <<plan, shared, leaf, point, parked, receipts, sent, lost>>

\* "workflow cancel" of another process: the intent, and the mapping only if
\* nothing is in flight.
CliCancel ==
  /\ ~Ended /\ run.status # "paused"
  /\ IF Active = {}
       THEN /\ run' = [run EXCEPT !.cancel = TRUE, !.status = "cancelled"]
            /\ node' = [n \in Nodes |-> IF node[n] = "queued" THEN "cancelled"
                                                              ELSE node[n]]
       ELSE run' = [run EXCEPT !.cancel = TRUE] /\ UNCHANGED node
  /\ UNCHANGED <<plan, shared, leaf, segment, point, parked, receipts, sent,
                 driver, task, lost>>

\* The process of the driver dies.
Crash ==
  /\ driver.at # "off"
  /\ StopDriver
  /\ lost' = TRUE
  /\ UNCHANGED durable

-----------------------------------------------------------------------------
(* The driver                                                                *)

\* A started run runs.  A resumed one first clears the pause fact, then recover
\* lets what is left of an earlier driver decide where to start.
Begin ==
  /\ driver.at \in {"start", "resume"}
  /\ LET r == IF driver.at = "resume" THEN AfterResume(run) ELSE run
         team == Active \cap shared
     IN IF Ended \/ r.status = "paused"
          THEN StopDriver /\ UNCHANGED <<run, node, segment>>
        ELSE IF r.cancel /\ Active # {}
          THEN /\ Finish([r EXCEPT !.status = "cancelled"], Publishable)
               /\ StopDriver
        ELSE /\ run' = r
             /\ IF team = {}
                  THEN driver' = After(NoNode) /\ UNCHANGED task
                  ELSE /\ driver' = [Off EXCEPT !.at = "frontier",
                                        !.team = team, !.saw = r.pausing]
                       /\ Launch(team)
             /\ UNCHANGED <<node, segment>>
  /\ UNCHANGED <<plan, shared, leaf, point, parked, receipts, sent, lost>>

\* The next node of the order: drive it, with its siblings if they may run
\* together.  A node whose predecessor is not completed ends the driver.
Pick(n) ==
  /\ driver.at = "pick" /\ driver.node = n
  /\ LET team == Frontier(n)
         started == [Off EXCEPT !.node = n, !.saw = run.pausing]
     IN IF Ended \/ run.status = "paused"
          THEN driver' = [Off EXCEPT !.at = "end"] /\ UNCHANGED <<task, lost>>
        ELSE IF node[n] = "completed"
          THEN driver' = After(n) /\ UNCHANGED <<task, lost>>
        ELSE IF Cardinality(team) > 1
          THEN /\ driver' = [started EXCEPT !.at = "frontier", !.team = team]
               /\ Launch(team) /\ UNCHANGED lost
        ELSE IF node[n] = "queued" /\ run.status = "draining"
          THEN driver' = After(n) /\ UNCHANGED <<task, lost>>
        ELSE IF node[n] = "queued" /\ ~Ready(n)
          THEN StopDriver /\ lost' = TRUE
        ELSE /\ driver' = [started EXCEPT !.at = "drive"]
             /\ Launch({n}) /\ UNCHANGED lost
  /\ UNCHANGED durable

Starting(n) == task[n].at = "start"

\* Parked nodes of a frontier start in order: no await separates them.
InOrder(n) ==
  \A m \in driver.team : m < n => ~(Starting(m) /\ node[m] = "running")

\* The first Turn of a queued node.  The pause fact and the admission have
\* exactly one winner; a writer is admitted alone.
Admit(n) ==
  /\ Starting(n) /\ node[n] = "queued"
  /\ IF run.pausing \/ run.status \notin {"queued", "running"}
       THEN Ends(n, "paused") /\ UNCHANGED <<run, node, shared, leaf, segment>>
     ELSE IF Active # {} /\ (n \notin driver.team \/ ~(Active \subseteq shared))
       THEN Ends(n, "other") /\ UNCHANGED <<run, node, shared, leaf, segment>>
     ELSE /\ node' = [node EXCEPT ![n] = "running"]
          /\ leaf' = [leaf EXCEPT ![n] = "open"]
          /\ segment' = [segment EXCEPT ![n] = "active"]
          /\ shared' = IF n \in driver.team THEN shared \cup {n} ELSE shared
          /\ run' = [run EXCEPT !.status = "running"]
          /\ task' = [task EXCEPT ![n].at = "turn"]
  /\ UNCHANGED <<plan, point, parked, receipts, sent, driver, lost>>

\* A Turn left open by a lost driver goes on.
Reopen(n) ==
  /\ Starting(n) /\ InOrder(n) /\ node[n] = "running" /\ leaf[n] = "open"
  /\ task' = [task EXCEPT ![n].at = "turn"]
  /\ UNCHANGED <<durable, driver, lost>>

\* A later node of a frontier keeps a receipt of its own; the digest names the
\* new agent run, so a receipt that exists never matches.
OwnReceipt(n) == point.taken /\ point.node # n
HasReceipt(n, c) == IF OwnReceipt(n) THEN n \in receipts[c].own
                                     ELSE receipts[c].first # NoNode

\* The continuation of a parked node: a new Turn and segment on its leaf, the
\* receipt and the resumed cycle in one transaction.
Continue(n) ==
  /\ Starting(n) /\ InOrder(n) /\ node[n] = "running"
  /\ leaf[n] = "interrupted" /\ ~driver.saw /\ Continues(n)
  /\ LET c == point.command
     IN IF run.pausing \/ run.status \notin {"queued", "running"}
          THEN Ends(n, "paused") /\ UNCHANGED <<leaf, segment, point, receipts>>
        ELSE IF HasReceipt(n, c)
          THEN Ends(n, "reused") /\ UNCHANGED <<leaf, segment, point, receipts>>
        ELSE /\ leaf' = [leaf EXCEPT ![n] = "open"]
             /\ segment' = [segment EXCEPT ![n] = "active"]
             /\ point' = IF point.life = "resumed" THEN point
                         ELSE [point EXCEPT !.life = "resumed", !.taken = TRUE]
             /\ receipts' = IF OwnReceipt(n)
                              THEN [receipts EXCEPT ![c].own = @ \cup {n}]
                              ELSE [receipts EXCEPT ![c].first = n]
             /\ task' = [task EXCEPT ![n].at = "again"]
  /\ UNCHANGED <<plan, run, node, shared, parked, sent, driver, lost>>

\* Nothing to drive: the leaf has ended, or waits for a continuation.
Leave(n) ==
  /\ Starting(n) /\ InOrder(n) /\ node[n] # "queued" /\ leaf[n] # "open"
  /\ leaf[n] = "interrupted" => driver.saw \/ ~Continues(n)
  /\ Ends(n, "none")
  /\ UNCHANGED <<durable, driver, lost>>

\* A Turn ends: it sees the pause, its model or provider breaks off, it commits
\* its answer, or it fails.  Readers first wait for the whole frontier.
EndTurn(n, last) ==
  /\ InTurn(n) /\ \A m \in driver.team : ~Starting(m)
  /\ leaf' = [leaf EXCEPT ![n] = last]
  /\ parked' = parked \ {n}
  /\ Ends(n, "none")
  /\ UNCHANGED <<plan, run, node, shared, segment, point, receipts, sent,
                 driver, lost>>
Stop(n) == Signalled /\ EndTurn(n, "interrupted")
Break(n) == EndTurn(n, "interrupted")
Answer(n) == EndTurn(n, "ready")
Fail(n) == EndTurn(n, "failed")

\* _settle: the facts of the leaf decide.  An interrupted leaf opens a cycle,
\* once for each interruption, and parks its node in it.
Settle(n) ==
  LET opens == ~run.pausing /\ n \notin parked
      cycle == IF opens THEN Requested ELSE point
      refused == leaf[n] = "new" /\ task[n].error = "paused"
  IN CASE Ended \/ refused \/ leaf[n] = "open" ->
            UNCHANGED <<run, node, segment, point, parked>>
       [] ~Ended /\ leaf[n] = "ready" ->
            /\ IF \A m \in Nodes : m # n => node[m] = "completed"
                 THEN Finish([run EXCEPT !.status = "completed"], {n})
                 ELSE Complete({n}) /\ UNCHANGED run
            /\ UNCHANGED <<point, parked>>
       [] ~Ended /\ leaf[n] = "interrupted" /\ cycle.life # "resumed" ->
            /\ run' = AfterPause(run, Active)
            /\ point' = AfterSuspend(cycle, n)
            /\ parked' = IF opens THEN parked \cup {n} ELSE parked
            /\ segment' = IF segment[n] = "active"
                            THEN [segment EXCEPT ![n] = "interrupted"]
                            ELSE segment
            /\ UNCHANGED node
       \* The leaf failed or was cancelled, its cycle is consumed already, or the
       \* node was refused its admission for another reason.
       [] OTHER ->
            /\ Close(IF leaf[n] = "cancelled" THEN "cancelled" ELSE "failed")
            /\ UNCHANGED <<point, parked>>

\* _drive_node returns: its facts settle, and a node that is not terminal then
\* fails a running run (_require_settled).
SettleSerial(n) ==
  /\ driver.at = "drive" /\ driver.node = n /\ task[n].at = "ended"
  /\ IF /\ node[n] = "queued" /\ run.status = "running"
        /\ leaf[n] = "new" /\ task[n].error = "paused"
       THEN Close("failed") /\ UNCHANGED <<point, parked>>
       ELSE Settle(n)
  /\ driver' = After(n)
  /\ task' = [task EXCEPT ![n] = Idle]
  /\ UNCHANGED <<plan, shared, leaf, receipts, sent, lost>>

\* The barrier of a frontier hears of a leaf that did not commit.  It opens a
\* pause cycle for an interruption, lets a drain go on, and otherwise cancels
\* the siblings.
Interrupted == {n \in driver.team : leaf[n] = "interrupted"}

Joins(ended) ==
  task' = [n \in Nodes |-> IF n \in ended THEN [task[n] EXCEPT !.at = "joined"]
                                          ELSE task[n]]

PauseTheRest(n) ==
  LET first == CHOOSE m \in Interrupted : \A k \in Interrupted : m <= k
  IN /\ run' = AfterPause(run, Active)
     /\ point' = IF first \in parked THEN point ELSE Requested
     /\ parked' = parked \cup {first}
     /\ Joins({n})
     /\ UNCHANGED leaf

\* The Turn of a continuation is not told of this cancel: it stays open.
CancelTheRest ==
  /\ leaf' = [m \in Nodes |-> IF m \in driver.team /\ task[m].at = "turn"
                               THEN "cancelled" ELSE leaf[m]]
  /\ Joins(driver.team)
  /\ UNCHANGED <<run, point, parked>>

Notice(n) ==
  /\ driver.at = "frontier" /\ task[n].at = "ended"
  /\ CASE leaf[n] # "ready" /\ Interrupted # {} /\ ~run.pausing ->
            PauseTheRest(n)
       [] leaf[n] = "ready" \/ (run.pausing /\ run.status = "draining") ->
            Joins({n}) /\ UNCHANGED <<run, leaf, point, parked>>
       [] OTHER -> CancelTheRest
  /\ UNCHANGED <<plan, node, shared, segment, receipts, sent, driver, lost>>

\* All are joined.  If one was interrupted its facts settle first, then the
\* others', in order.
Join ==
  /\ driver.at = "frontier" /\ \A n \in driver.team : task[n].at = "joined"
  /\ driver' = [driver EXCEPT !.at = IF ~Ended /\ Interrupted # {} THEN "settle"
                                                                 ELSE "publish"]
  /\ UNCHANGED <<durable, task, lost>>

SettleNext(n) ==
  /\ driver.at \in {"settle", "close"}
  /\ task[n].at = "joined" /\ \A m \in driver.team : m < n => task[m].at = "off"
  /\ IF node[n] = "running" THEN Settle(n)
                            ELSE UNCHANGED <<run, node, segment, point, parked>>
  /\ task' = [task EXCEPT ![n].at = "off"]
  /\ driver' = IF \E m \in driver.team : m > n THEN driver
               ELSE IF driver.at = "close" THEN After(driver.node)
               ELSE [driver EXCEPT !.at = "publish"]
  /\ UNCHANGED <<plan, shared, leaf, receipts, sent, lost>>

\* Mutant: under a pause the other nodes are left as they are.
PublishOnly ==
  /\ driver.at = "publish"
  /\ Complete(Publishable \cap driver.team)
  /\ driver' = After(driver.node) /\ task' = [n \in Nodes |-> Idle]
  /\ UNCHANGED <<plan, run, shared, leaf, point, parked, receipts, sent, lost>>

\* Every committed leaf of the frontier is published.  Under a pause the other
\* nodes settle; without one they fail the run.
Publish ==
  /\ driver.at = "publish"
  /\ LET done == Publishable \cap driver.team
     IN IF \/ Ended \/ run.pausing
           \/ \A n \in driver.team : node[n] = "completed" \/ n \in done
          THEN Complete(done) /\ UNCHANGED run
          ELSE Finish([run EXCEPT !.status = "failed"], done)
  /\ IF ~Ended /\ run.pausing
       THEN driver' = [driver EXCEPT !.at = "close"] /\ Joins(driver.team)
       ELSE driver' = After(driver.node) /\ task' = [n \in Nodes |-> Idle]
  /\ UNCHANGED <<plan, shared, leaf, point, parked, receipts, sent, lost>>

\* Mutant: a drain ends only when no node is active.
EndInactive ==
  /\ driver.at = "end"
  /\ run' = IF AllCompleted /\ run.status \in {"running", "draining"}
               THEN [run EXCEPT !.status = "completed"]
             ELSE IF run.status = "draining" /\ Active = {}
               THEN [run EXCEPT !.status = "paused"] ELSE run
  /\ StopDriver
  /\ UNCHANGED <<plan, node, shared, leaf, segment, point, parked, receipts,
                 sent, lost>>

\* The end of the order: a run whose nodes are all completed succeeds, and a
\* drain is over when no node has an active segment.
End ==
  /\ driver.at = "end"
  /\ CASE run.status \in {"running", "draining"} /\ AllCompleted ->
            run' = [run EXCEPT !.status = "completed"]
       [] run.status = "draining" /\ ~AllCompleted
          /\ \A n \in Active : segment[n] \notin {"active", "none"} ->
            run' = [run EXCEPT !.status = "paused"]
       [] OTHER -> UNCHANGED run
  /\ StopDriver
  /\ UNCHANGED <<plan, node, shared, leaf, segment, point, parked, receipts,
                 sent, lost>>

-----------------------------------------------------------------------------
(* The specification                                                         *)

Init ==
  /\ plan \in Plans
  /\ run = [status |-> "queued", pausing |-> FALSE, cancel |-> FALSE]
  /\ node = [n \in Nodes |-> "queued"]
  /\ shared = {}
  /\ leaf = [n \in Nodes |-> "new"]
  /\ segment = [n \in Nodes |-> "none"]
  /\ point = NoPoint
  /\ parked = {}
  /\ receipts = [c \in Commands |-> [first |-> NoNode, own |-> {}]]
  /\ driver = [Off EXCEPT !.at = "start"]
  /\ task = [n \in Nodes |-> Idle]
  /\ sent = {}
  /\ lost = FALSE

Drives(n) ==
  \/ Pick(n) \/ Admit(n) \/ Reopen(n) \/ Continue(n) \/ Leave(n)
  \/ SettleSerial(n) \/ Notice(n) \/ SettleNext(n)

EndsTurn(n) == Stop(n) \/ Break(n) \/ Answer(n) \/ Fail(n)

Command ==
  \/ Pause \/ CliPause \/ BareResume \/ Cancel \/ CliCancel \/ Crash
  \/ \E c \in Commands : Resume(c) \/ ResumeDies(c)

Next ==
  \/ Begin \/ CancelRest \/ Join \/ Publish \/ End
  \/ \E n \in Nodes : Drives(n) \/ EndsTurn(n)
  \/ Command

\* The driver never waits for itself.  It may wait for others without bound: for
\* the execution lock, and for a Turn, which may ask for an approval and is woken
\* by a pause of its own process only.
Fairness ==
  WF_vars(\/ Join \/ Publish \/ End \/ \E n \in Nodes : Drives(n))

Spec == Init /\ [][Next]_vars /\ Fairness

-----------------------------------------------------------------------------
(* Properties                                                                *)

\* A paused run is quiet: whatever was admitted, raced or crashed on the way to
\* the pause, no leaf has an open Turn and no node an active segment
\* (request_pause, complete_drain and the settlement of each node agree on it).
PausedIsQuiet ==
  run.status = "paused" =>
    \A n \in Nodes : leaf[n] # "open" /\ segment[n] # "active"

\* A run paused in the middle of a node can be continued: its latest cycle is
\* suspended, the only state in which it takes a continuation command
\* (store_continuation_input_in_txn, _suspend_node_segment).
PausedCanContinue ==
  run.status = "paused" /\ Active # {} => point.life = "suspended"

\* A driver that ends by itself leaves nothing half done: the run is terminal,
\* paused, or has not started.
DriverLeavesNothing ==
  driver.at = "off" /\ ~lost => run.status \notin {"running", "draining"}

\* A writer never works beside another node: two Turns are open together only
\* in parallel readers, over every pause, crash and continuation.
WriterAlone ==
  \A m, n \in Nodes : leaf[m] = "open" /\ leaf[n] = "open" /\ m # n =>
    {m, n} \subseteq plan.readers

\* A run is completed for real: every node is, and its leaf committed.
CompletedForReal ==
  run.status = "completed" => AllCompleted /\ \A n \in Nodes : leaf[n] = "ready"

\* How far a node is, and its run, to module PlanRun.
StageOf(n) ==
  CASE node[n] = "queued" -> "waiting"
    [] node[n] = "running" ->
         (CASE leaf[n] = "open" -> "working"
            [] leaf[n] = "ready" -> "answered"
            [] OTHER -> "resting")
    [] node[n] = "completed" -> "done"
    [] OTHER -> "closed"

PhaseOf ==
  CASE run.status \in {"queued", "running"} -> "going"
    [] run.status = "draining" -> "stopping"
    [] run.status = "paused" -> "held"
    [] OTHER -> run.status

Promise == INSTANCE PlanRun WITH
  phase <- PhaseOf, asked <- run.cancel, stage <- [n \in Nodes |-> StageOf(n)]

\* Refinement.  A run keeps the promise of module PlanRun: over two processes,
\* crashes and continuations nodes start in the order of the plan, work together
\* only as readers, and a held run loses no answer and does not end by itself
\* (Promise!Spec).
RunKeepsPromise == Promise!Init /\ [][Promise!Next]_(Promise!vars)

\* If every Turn ends and the driver gets the execution lock, a drain ends while
\* its driver lives: each leaf parks or ends, and the last one pauses or closes
\* the run (_settle, complete_drain, _drive_frontier).
DrainEnds ==
  /\ \A n \in Nodes : []<>~InTurn(n)
  /\ []<>(driver.at \notin {"start", "resume", "cancel"})
  => (run.status = "draining" /\ driver.at # "off"
        ~> run.status # "draining" \/ lost)

\* "the cancel still stops every not-yet-started node": after a recorded cancel
\* no queued node is admitted.
CancelStopsAdmission ==
  [][\A n \in Nodes : node[n] = "queued" /\ node'[n] = "running" => ~run.cancel]_vars

====
