------------------------------- MODULE ChatQueue -------------------------------
(* The input queue of one chat Session (application/interactions.py), the     *)
(* driver that drains it (application/orchestrator.py) and the commands of    *)
(* the server that race with the driver: submit, withdraw, stop, continue,    *)
(* recover.  All of them are tasks of one event loop, so an action is what    *)
(* one task does between two suspension points.  The execution gate is seen   *)
(* from outside: somebody else may hold it whenever the driver waits for it   *)
(* (module ExecutionGate), and what happens inside a Turn is its outcome      *)
(* (modules ToolCycle and SessionRecovery).                                   *)
(*                                                                            *)
(* Not here: workflow inputs, attachments and computer selections, a pause    *)
(* asked for by the user (a Turn interrupts itself when its provider fails),  *)
(* the queue limits, eviction of idle runtimes, and a crash between the       *)
(* terminal of a Turn and the update of its input.                            *)
EXTENDS Naturals, FiniteSets

CONSTANTS
    N,              \* inputs the user sends, numbered in order of submission
    MaxCrashes,     \* bound: restarts of the host
    MaxSwitches     \* bound: changes of the Provider configuration

ASSUME ChatQueueAssumption ==
    N \in Nat \ {0} /\ MaxCrashes \in Nat /\ MaxSwitches \in Nat

Inputs == 1..N
None == 0

VARIABLES
    status,     \* the rows of chat_interactions; "new": not submitted yet
    intent,     \* send, steer or follow_up
    turn,       \* the Turn an input is bound to: open or how it finished
    control,    \* its row of runtime_control_queue
    binding,    \* the configuration the input was bound to when submitted
    config,     \* the configuration now
    paused,     \* the durable control of the queue
    task,       \* "failed": the current TaskRun refuses new Turns
    point,      \* the interruption point: lifecycle, interrupted input, continuation
    review,     \* a crash left executions to decide: found, then marked in health
    built,      \* the process has a runtime of the Session
    wired,      \* ... and its orchestrator was given the execution gate
    driver,     \* the driver task of the Session
    holder,     \* who is inside the execution gate
    crashes, switches

rows == <<status, intent, turn, control, binding>>
vars == <<status, intent, turn, control, binding, config, paused, task, point,
          review, built, wired, driver, holder, crashes, switches>>

Ended == {"stop", "steered", "error", "cancelled", "interrupted"}

(* outer: the entry the loop of the driver took, None when it resumes a Turn; *)
(* key: the input of the Turn it is about; stop: the task is being cancelled. *)
Off == [at |-> "off", outer |-> None, key |-> None, stop |-> FALSE]

TypeOK ==
    /\ status \in [Inputs -> {"new", "queued", "consumed", "settled", "blocked", "withdrawn"}]
    /\ intent \in [Inputs -> {"send", "steer", "follow_up"}]
    /\ turn \in [Inputs -> {"none", "open"} \cup Ended]
    /\ control \in [Inputs -> {"none", "pending", "consumed", "superseded"}]
    /\ binding \in [Inputs -> BOOLEAN]
    /\ config \in BOOLEAN /\ paused \in BOOLEAN
    /\ task \in {"ok", "failed"}
    /\ point \in [state : {"none", "suspended", "resumed"},
                  of : Inputs \cup {None}, by : Inputs \cup {None}]
    /\ review \in {"no", "found", "marked"}
    /\ built \in BOOLEAN /\ wired \in BOOLEAN
    /\ driver \in [at : {"off", "head", "gate1", "gate2", "gateR", "turn", "closing", "self"},
                   outer : Inputs \cup {None}, key : Inputs \cup {None}, stop : BOOLEAN]
    /\ holder \in {"none", "chat", "other"}
    /\ crashes \in 0..MaxCrashes /\ switches \in 0..MaxSwitches

Init ==
    /\ status = [i \in Inputs |-> "new"]
    /\ intent = [i \in Inputs |-> "send"]
    /\ turn = [i \in Inputs |-> "none"]
    /\ control = [i \in Inputs |-> "none"]
    /\ binding = [i \in Inputs |-> TRUE]
    /\ config = TRUE /\ paused = FALSE /\ task = "ok"
    /\ point = [state |-> "none", of |-> None, by |-> None]
    /\ review = "no" /\ built = FALSE /\ wired = FALSE
    /\ driver = Off /\ holder = "none"
    /\ crashes = 0 /\ switches = 0

--------------------------------------------------------------------------------
(* What the queue looks like                                                  *)

Oldest(S) == CHOOSE i \in S : \A j \in S : i <= j

Pending(st) == {i \in Inputs : st[i] \in {"queued", "blocked"}}

OpenTurns == {i \in Inputs : turn[i] = "open"}

Waiting(kind) == {i \in Inputs : control[i] = "pending" /\ intent[i] = kind}

(* prepare_options: the binding of an input must be the configuration now.    *)
Usable(i) == binding[i] = config

(* The run a steer, a follow-up or a stop may name: active_run.               *)
ActiveRun == IF driver.at \in {"gate2", "turn"} THEN OpenTurns ELSE {}

(* chat_continuation_point: the next input continues the interrupted Turn.    *)
Interrupted == point.state = "suspended" /\ task = "ok"

\* Mutant: the newest entry goes first.
NextEntryNewest(st) == CHOOSE i \in Pending(st) : \A j \in Pending(st) : j <= i

(* The head of the loop in _drive_unlocked, with the rows and the control as  *)
(* the step before it leaves them.  The continuation goes before the oldest.  *)
NextEntry(st) == IF point.by \in Pending(st) THEN point.by ELSE Oldest(Pending(st))

EnterLoop(st, stopped) ==
    \/ /\ stopped \/ Pending(st) = {}
       /\ driver' = Off /\ paused' = stopped
    \/ /\ ~stopped /\ Pending(st) # {} /\ st[NextEntry(st)] = "queued"
       /\ driver' = [Off EXCEPT !.at = "gate1", !.outer = NextEntry(st)]
       /\ paused' = FALSE
    \/ /\ ~stopped /\ Pending(st) # {} /\ st[NextEntry(st)] = "blocked"
       /\ driver' = Off /\ paused' = TRUE

(* ensure_driver: a Session has one driver; a paused queue gets none.         *)
Wake(stopped) ==
    driver' = IF driver.at = "off" /\ ~stopped THEN [Off EXCEPT !.at = "head"] ELSE driver

--------------------------------------------------------------------------------
(* The commands of the user                                                   *)

(* submit: an ordinary input, or a steer or a follow-up to the active run.    *)
(* After an interruption an ordinary input is the continuation: it inherits   *)
(* the binding, resumes the point and unpauses, all in the admission.         *)
(* continue_queue and a recovery resume submit such an input themselves.      *)
Submit(i, kind) ==
    /\ status[i] = "new" /\ \A j \in Inputs : j < i => status[j] # "new"
    /\ review # "marked"
    /\ kind # "send" => ActiveRun # {} /\ ~Interrupted
    /\ status' = [status EXCEPT ![i] = "queued"]
    /\ intent' = [intent EXCEPT ![i] = kind]
    /\ control' = [control EXCEPT ![i] = IF kind = "send" THEN "none" ELSE "pending"]
    /\ binding' = [binding EXCEPT ![i] = IF Interrupted THEN binding[point.of] ELSE config]
    /\ point' = IF Interrupted THEN [point EXCEPT !.state = "resumed", !.by = i] ELSE point
    /\ paused' = (paused /\ ~Interrupted)
    /\ Wake(paused')
    /\ UNCHANGED <<turn, config, task, review, built, wired, holder, crashes, switches>>

\* Mutant: the control row of a withdrawn input stays.
WithdrawnEntryOnly(S) ==
    /\ status' = [i \in Inputs |-> IF i \in S THEN "withdrawn" ELSE status[i]]
    /\ UNCHANGED control

(* records.withdraw: the entry, and its control row if that is still pending. *)
Withdrawn(S) ==
    /\ status' = [i \in Inputs |-> IF i \in S THEN "withdrawn" ELSE status[i]]
    /\ control' = [i \in Inputs |->
          IF i \in S /\ control[i] = "pending" THEN "superseded" ELSE control[i]]

Unconsumed == {i \in Pending(status) : turn[i] = "none"}

Withdraw(i) ==
    /\ i \in Unconsumed
    /\ Withdrawn({i})
    /\ UNCHANGED <<intent, turn, binding, config, paused, task, point, review,
                   built, wired, driver, holder, crashes, switches>>

(* Stop of the active run, with or without withdrawing what is pending: the   *)
(* queue is paused, the driver task is cancelled at its suspension point.     *)
Stop(S) ==
    /\ ActiveRun # {}
    /\ S \in {{}, Unconsumed}
    /\ Withdrawn(S)
    /\ paused' = TRUE
    /\ driver' = [driver EXCEPT !.stop = TRUE]
    /\ UNCHANGED <<intent, turn, binding, config, task, point, review, built,
                   wired, holder, crashes, switches>>

(* continue_queue without an interrupted Turn: a blocked continuation is      *)
(* queued again if its settings are usable (else the command is refused).     *)
Continue ==
    /\ ~Interrupted
    /\ LET again == point.by # None /\ status[point.by] = "blocked" /\ turn[point.by] = "none"
       IN  /\ again => Usable(point.by)
           /\ status' = IF again THEN [status EXCEPT ![point.by] = "queued"] ELSE status
    /\ paused' = FALSE
    /\ Wake(FALSE)
    /\ UNCHANGED <<intent, turn, control, binding, config, task, point, review,
                   built, wired, holder, crashes, switches>>

(* recover answers only without a driver and with the gate free.  Looking     *)
(* builds the runtime, which reads what a crash left.                         *)
MayRecover == driver.at = "off" /\ holder = "none"

Restored == IF review = "found" THEN "marked" ELSE review

Discover ==
    /\ MayRecover /\ ~built
    /\ built' = TRUE /\ review' = Restored
    /\ UNCHANGED <<rows, config, paused, task, point, wired, driver, holder,
                   crashes, switches>>

(* Resume of an open Turn that has nothing to decide.                         *)
Resume ==
    /\ MayRecover /\ ~Interrupted /\ OpenTurns # {} /\ review = "no"
    /\ built' = TRUE
    /\ driver' = [Off EXCEPT !.at = "gateR"]
    /\ UNCHANGED <<rows, config, paused, task, point, review, wired, holder,
                   crashes, switches>>

(* The report is decided: the Turn goes on, or is aborted.                    *)
ResolveResume ==
    /\ MayRecover /\ built /\ review = "marked"
    /\ review' = "no" /\ paused' = TRUE
    /\ driver' = [Off EXCEPT !.at = "gateR"]
    /\ UNCHANGED <<rows, config, task, point, built, wired, holder, crashes, switches>>

ResolveAbort ==
    /\ MayRecover /\ built /\ review = "marked"
    /\ review' = "no" /\ paused' = TRUE
    /\ turn' = [i \in Inputs |-> IF i \in OpenTurns THEN "cancelled" ELSE turn[i]]
    /\ UNCHANGED <<status, intent, control, binding, config, task, point, built,
                   wired, driver, holder, crashes, switches>>

(* The task is resumed explicitly; the Provider configuration changes.        *)
TaskResume ==
    /\ task = "failed" /\ task' = "ok"
    /\ UNCHANGED <<rows, config, paused, point, review, built, wired, driver,
                   holder, crashes, switches>>

SwitchConfig ==
    /\ switches < MaxSwitches /\ switches' = switches + 1
    /\ config' = ~config
    /\ UNCHANGED <<rows, paused, task, point, review, built, wired, driver,
                   holder, crashes>>

--------------------------------------------------------------------------------
(* The driver                                                                 *)

Head ==
    /\ driver.at = "head"
    /\ EnterLoop(status, paused)
    /\ UNCHANGED <<rows, config, task, point, review, built, wired, holder,
                   crashes, switches>>

(* First time through the gate: options and runtime.  The entry may have been *)
(* withdrawn meanwhile; nobody looks before the admission.                    *)
GateOne ==
    /\ driver.at = "gate1" /\ holder = "none"
    /\ Usable(driver.outer)
    /\ built' = TRUE /\ wired' = TRUE
    /\ review' = IF built THEN review ELSE Restored
    /\ driver' = [driver EXCEPT !.at = "gate2", !.key = driver.outer]
    /\ UNCHANGED <<rows, config, paused, task, point, holder, crashes, switches>>

(* The handlers of an exception: whatever failed, the entry of the loop is    *)
(* blocked and the queue paused, and the loop ends.                           *)
Blocked(i) ==
    /\ status' = [status EXCEPT ![i] = "blocked"]
    /\ EnterLoop(status', TRUE)
    /\ UNCHANGED <<intent, turn, control, binding>>

(* prepare_options raised, or no runtime could be built.                      *)
GateOneFails ==
    /\ driver.at = "gate1" /\ holder = "none"
    /\ ~Usable(driver.outer) \/ ~built
    /\ Blocked(driver.outer)
    /\ UNCHANGED <<config, task, point, review, built, wired, holder, crashes, switches>>

(* The same check, by pre_admission_check inside the gate of the Turn.        *)
PreCheckFails ==
    /\ driver.at = "gate2" /\ holder = "none" /\ ~driver.stop
    /\ ~Usable(driver.key)
    /\ Blocked(driver.outer)
    /\ UNCHANGED <<config, task, point, review, built, wired, holder, crashes, switches>>

(* submit_user accepts: no open Turn in the log, no failed TaskRun, the entry *)
(* still queued, a healthy Session.                                           *)
Admissible(k) ==
    /\ OpenTurns = {} /\ task = "ok"
    /\ status[k] = "queued" /\ review # "marked"

(* One transaction: the Turn, its binding, the consumption of the control row.*)
Admit(k) ==
    /\ Admissible(k)
    /\ status' = [status EXCEPT ![k] = "consumed"]
    /\ turn' = [turn EXCEPT ![k] = "open"]
    /\ control' = [control EXCEPT ![k] = IF @ = "pending" THEN "consumed" ELSE @]
    /\ driver' = [driver EXCEPT !.at = "turn", !.key = k]
    /\ UNCHANGED task

(* submit_user refuses, or its preparation fails.  With a report the outcome  *)
(* carries the id of the open Turn, whose input is taken for settled; without *)
(* one the loop's error handler finishes whatever Turn the log has open.      *)
Refuse(k) ==
    /\ driver' = [driver EXCEPT !.at = "closing", !.key = k]
    /\ UNCHANGED control
    /\ \/ /\ review = "marked"
          /\ status' = [i \in Inputs |-> IF i \in OpenTurns THEN "settled" ELSE status[i]]
          /\ UNCHANGED <<turn, task>>
       \/ /\ review # "marked"
          /\ turn' = [i \in Inputs |-> IF i \in OpenTurns THEN "error" ELSE turn[i]]
          /\ task' = IF OpenTurns # {} THEN "failed" ELSE task
          /\ UNCHANGED status

(* The Turn of key, inside the gate.                                          *)
GateTwo ==
    /\ driver.at = "gate2" /\ holder = "none" /\ ~driver.stop
    /\ Usable(driver.key)
    /\ Admit(driver.key) \/ Refuse(driver.key)
    /\ holder' = "chat"
    /\ UNCHANGED <<intent, binding, config, paused, point, review, built, wired,
                   crashes, switches>>

(* A stop reaches a driver that waits for the gate.                           *)
StoppedAtGate ==
    /\ driver.at = "gate2" /\ driver.stop
    /\ driver' = Off /\ paused' = TRUE
    /\ UNCHANGED <<rows, config, task, point, review, built, wired, holder,
                   crashes, switches>>

(* _resume holds the gate of recovery around everything it does.              *)
GateResume ==
    /\ driver.at = "gateR" /\ holder = "none"
    /\ holder' = "chat"
    /\ driver' = [driver EXCEPT !.at = "turn", !.key = Oldest(OpenTurns)]
    /\ UNCHANGED <<rows, config, paused, task, point, review, built, wired,
                   crashes, switches>>

(* A Turn finishes: its terminal, the TaskRun and, of an interruption, the    *)
(* point and the pause are one transaction; turn.completed settles the input. *)
Finish(how) ==
    /\ turn' = [turn EXCEPT ![driver.key] = how]
    /\ status' = [status EXCEPT ![driver.key] = "settled"]
    /\ task' = IF how = "error" THEN "failed" ELSE task
    /\ point' = IF how = "interrupted"
                THEN [state |-> "suspended", of |-> driver.key, by |-> None] ELSE point
    /\ paused' = (paused \/ how = "interrupted")
    /\ driver' = [driver EXCEPT !.at = "closing", !.stop = FALSE]
    /\ UNCHANGED <<intent, control, binding, config, review, built, wired, holder,
                   crashes, switches>>

(* A pending steer is seen before the final answer is committed.              *)
EndTurn ==
    /\ driver.at = "turn" /\ ~driver.stop
    /\ \E how \in Ended \ {"cancelled"} :
          /\ how = "stop" => Waiting("steer") = {}
          /\ how = "steered" => Waiting("steer") # {}
          /\ Finish(how)

StopTurn == driver.at = "turn" /\ driver.stop /\ Finish("cancelled")

--------------------------------------------------------------------------------
(* After a Turn: the loop of stream and of resume_recovery                    *)

(* How the Turn of key finished; a refused one reports an error.              *)
Outcome == IF turn[driver.key] \in Ended THEN turn[driver.key] ELSE "error"

\* Mutant: a paused queue is drained on.
NextControlAnyway ==
    IF Outcome \notin {"stop", "steered"} THEN {}
    ELSE IF Waiting("steer") # {} THEN {Oldest(Waiting("steer"))}
    ELSE IF Outcome = "stop" /\ Waiting("follow_up") # {} THEN {Oldest(Waiting("follow_up"))}
    ELSE {}

(* The steer that ended the Turn, or after a normal stop the next follow-up.  *)
NextControl ==
    IF paused \/ Outcome \notin {"stop", "steered"} THEN {}
    ELSE IF Waiting("steer") # {} THEN {Oldest(Waiting("steer"))}
    ELSE IF Outcome = "stop" /\ Waiting("follow_up") # {} THEN {Oldest(Waiting("follow_up"))}
    ELSE {}

(* The driver of the queue leaves the gate and waits for it again.            *)
Drain ==
    /\ driver.at = "closing" /\ driver.outer # None
    /\ \E k \in NextControl : driver' = [driver EXCEPT !.at = "gate2", !.key = k]
    /\ holder' = "none"
    /\ UNCHANGED <<rows, config, paused, task, point, review, built, wired,
                   crashes, switches>>

(* The driver of a resume is still inside the gate.  An orchestrator that was *)
(* given the gate by an earlier driver asks for it a second time; another one *)
(* starts the Turn at once, with the settings of the runtime.                 *)
DrainWired ==
    /\ driver.at = "closing" /\ driver.outer = None /\ wired
    /\ \E k \in NextControl : driver' = [driver EXCEPT !.at = "self", !.key = k]
    /\ UNCHANGED <<rows, config, paused, task, point, review, built, wired, holder,
                   crashes, switches>>

DrainUnwired ==
    /\ driver.at = "closing" /\ driver.outer = None /\ ~wired
    /\ \E k \in NextControl : Admit(k) \/ Refuse(k)
    /\ UNCHANGED <<intent, binding, config, paused, point, review, built, wired,
                   holder, crashes, switches>>

\* Mutant: the input ends as its Turn did.
EntrySettledByTurn(i) == IF turn[i] = "none" THEN "blocked" ELSE turn[i]

(* The queue driver settles the entry it took and goes back to the head of    *)
(* its loop, unless the Turn of that entry ended in another way than a stop   *)
(* or a steer, and no continuation was accepted meanwhile.                    *)
EntrySettled(i) == IF turn[i] = "none" THEN "blocked" ELSE "settled"

GoesOn(i) ==
    \/ turn[i] \in {"stop", "steered"}
    \/ turn[i] = "interrupted" /\ point.state = "resumed" /\ point.of = i

AfterStream ==
    /\ driver.at = "closing" /\ driver.outer # None /\ NextControl = {}
    /\ holder' = "none"
    /\ status' = [status EXCEPT ![driver.outer] = EntrySettled(driver.outer)]
    /\ EnterLoop(status', paused \/ ~GoesOn(driver.outer))
    /\ UNCHANGED <<intent, turn, control, binding, config, task, point, review,
                   built, wired, crashes, switches>>

(* _resume_unlocked pauses the queue, whatever happened.                      *)
AfterResume ==
    /\ driver.at = "closing" /\ driver.outer = None /\ NextControl = {}
    /\ holder' = "none" /\ driver' = Off /\ paused' = TRUE
    /\ UNCHANGED <<rows, config, task, point, review, built, wired, crashes, switches>>

--------------------------------------------------------------------------------
(* The rest of the host                                                       *)

OtherEnters ==
    /\ holder = "none" /\ holder' = "other"
    /\ UNCHANGED <<rows, config, paused, task, point, review, built, wired,
                   driver, crashes, switches>>

OtherLeaves ==
    /\ holder = "other" /\ holder' = "none"
    /\ UNCHANGED <<rows, config, paused, task, point, review, built, wired,
                   driver, crashes, switches>>

\* Mutant: the queue of a Session starts as it was left.
PausedAsLeft == paused

(* pause_on_restart: a Session with anything but settled or withdrawn inputs. *)
PausedOnRestart ==
    paused \/ \E i \in Inputs : status[i] \in {"queued", "consumed", "blocked"}

(* The host stops at any moment and starts again: tasks, runtimes and the     *)
(* gate are new.  A Turn cut short may leave executions to decide.            *)
Crash ==
    /\ crashes < MaxCrashes /\ crashes' = crashes + 1
    /\ paused' = PausedOnRestart
    /\ review' \in IF review = "no" /\ OpenTurns # {} THEN {"no", "found"} ELSE {review}
    /\ built' = FALSE /\ wired' = FALSE
    /\ driver' = Off /\ holder' = "none"
    /\ UNCHANGED <<rows, config, task, point, switches>>

User ==
    \/ \E i \in Inputs, kind \in {"send", "steer", "follow_up"} : Submit(i, kind)
    \/ \E i \in Inputs : Withdraw(i)
    \/ \E S \in SUBSET Inputs : Stop(S)
    \/ Continue \/ Discover \/ Resume \/ ResolveResume \/ ResolveAbort
    \/ TaskResume \/ SwitchConfig

AtGate == GateOne \/ GateOneFails \/ PreCheckFails \/ GateTwo \/ GateResume

Driver ==
    \/ Head \/ AtGate \/ StoppedAtGate \/ StopTurn
    \/ Drain \/ DrainWired \/ DrainUnwired \/ AfterStream \/ AfterResume

Next == User \/ Driver \/ EndTurn \/ OtherEnters \/ OtherLeaves \/ Crash

(* A task that can run runs, and one that waits for the gate gets it in the   *)
(* end if the others keep leaving it (NobodyStarves of ExecutionGate): hence  *)
(* the strong fairness at the gate.  No Turn has to end, of this Session or   *)
(* of another one: it may wait for an approval without bound.                 *)
Spec ==
    /\ Init /\ [][Next]_vars
    /\ WF_vars(Driver) /\ SF_vars(AtGate)

--------------------------------------------------------------------------------
(* Properties                                                                 *)

(* The log of a Session has at most one open Turn, over restarts, resumes and *)
(* drains of two kinds of drivers (submit_user, plan_begin_turn).             *)
OneOpenTurn == \A i, j \in OpenTurns : i = j

(* A control row that waits to end or to follow a Turn belongs to an input    *)
(* that can still be admitted or withdrawn: a steer nobody can see any more   *)
(* would end Turn after Turn (submit, withdraw, bind_turn).                   *)
NoGhostControl ==
    \A i \in Inputs : control[i] = "pending" => i \in Unconsumed

(* A held queue admits nothing, wherever the driver was when it was held:     *)
(* paused by a stop, an error, an interruption or a restart, or with a report *)
(* to decide (queue_enabled, _drive_unlocked, session_can_start_work).        *)
HeldAdmitsNothing ==
    [][\A i \in Inputs :
          turn[i] = "none" /\ turn'[i] # "none" => ~paused /\ review = "no"]_vars

(* If every Turn ends, of this Session and of the others, a queued input of a *)
(* queue that is not paused is taken up: it gets its Turn, is blocked with a  *)
(* reason or withdrawn, or the queue is paused (wake, ensure_driver, the end  *)
(* of the loop).  Except behind a driver that waits for its own gate.         *)
QueueMoves ==
    /\ []<>(driver.at # "turn")
    /\ []<>(holder # "other")
    => \A i \in Inputs :
        status[i] = "queued" /\ ~paused
            ~> status[i] # "queued" \/ paused \/ driver.at = "self"

(* A Turn that a crash left open is ended by its own resumption or by a       *)
(* decision on it, not by the admission of another input: agent.py keeps it   *)
(* "open so another host can resume".                                         *)
OpenTurnIsKept ==
    [][\A i \in Inputs :
          turn[i] = "open" /\ turn'[i] = "error" => driver.at = "turn" /\ driver.key = i]_vars

--------------------------------------------------------------------------------
(* The promise of module InputLine, read off the rows of the inputs.          *)

StageOf(i) == IF turn[i] = "none" THEN status[i] ELSE turn[i]

Held == paused \/ review # "no"

Promise == INSTANCE InputLine WITH
    stage <- [i \in Inputs |-> StageOf(i)],
    kind <- intent,
    first <- point.by,
    held <- Held

(* Refinement.  The queue keeps the promise of InputLine: an input has one    *)
(* Turn at most, one is open at a time, inputs are taken in order, a held     *)
(* queue gives nobody a Turn (submit, withdraw, bind_turn, _drive_unlocked).  *)
QueueKeepsPromise == Promise!Init /\ [][Promise!Next]_(Promise!vars)

================================================================================
