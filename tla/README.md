# Morrow: a TLA+ model of its durable core

Morrow is a local coding agent. A chat Session asks a model, executes the tool
calls the model proposes, and keeps everything that matters in a SQLite store so
that a crash, a restart or a second process never repeats an effect, runs a call
nobody agreed to, or claims a result nobody saw. Around the Session stand the queue
of its inputs, workflow runs of many Turns, a background queue that reviews what was
said, and the files users attach. This directory models these and checks them with
TLC; TLAPS proves all its invariants, action properties and refinements for any number
of calls, drivers, inputs, nodes, jobs, workers, drafts and files.

Paths below are relative to `src/src/morrow/`; `docs/` and `tests/` are in `src/`.

## 1. Inventory

| Part | State it keeps | Operations | What is hard | What makes it correct |
|---|---|---|---|---|
| **Execution records** `core/execution.py`, `core/recovery.py` | value types | transitions, approval resolution, recovery classification | decision tables | only legal transitions; nothing offered that cannot be done |
| **Tool cycle** `runtime/tool_cycle.py`, `runtime/agent.py`, `application/prepared.py` | driver coroutine, held row version | gate, approval wait, entry, timeout, result, closing a batch | every await is an interleaving point; two commits per result | a call runs once, with consent, and is answered once |
| **Tool persistence** `application/tool_persistence.py`, `adapters/state/tool_journal.py` | `tool_executions`, `approvals` | one transaction each, optimistic row versions | stale versions | rows and log agree |
| **Approvals, grants, scopes** `application/api_permissions.py`, `turn_permissions.py`, `chat_permissions.py`, `server/approvals.py`, `server/host.py` | approval rows, capability grants, session scopes, waiters | resolve, revoke, expire, wake | commit first, wake later; evidence may vanish | lost evidence stops a call; a decision ends the wait |
| **Conversation log** `runtime/conversation.py`, `runtime/durable_log.py` | records, unresolved calls, open Turn | append batch, reply, finish | grammar across crashes | one reply per call, in order |
| **Turn lifecycle** `application/turn_lifecycle.py`, `orchestrator.py`, `interactions.py` | Session health, Tasks, runs | submit, restore, resume | what may start when | no work under review |
| **Recovery** `application/recovery.py`, `api_recovery.py` | reports, items, receipts | discover, acknowledge, abort, quarantine, resume | any state of the above may be found | unknown stays unknown; a report can be answered |
| **Command line as a second process** `interfaces/approval_cli.py`, `interfaces/cli.py`, `bootstrap.py` | none of its own | resolve an approval, revoke a grant | restores a Session that is alive elsewhere | the owner is not misled |
| **Execution gate** `application/execution_gate.py`, `server/workspaces.py` | active and waiting admissions | enter, wait, leave, give up | lost wake-ups, stale confinement, cancellation | exclusion, nobody forgotten |
| **Input queue** `application/interactions.py`, `orchestrator.py`, `runtime_control.py`, `task_continuity.py`, `server/chat.py` | inputs, control rows, the pause, the interruption point, one driver task | submit, steer, follow up, withdraw, stop, continue, recover, drain | commands race with a driver that waits for its gate twice; restarts; peek, then consume | one open Turn, a held queue admits nothing, an input does not wait for ever |
| **Execution pause** `application/execution_pause.py` | pause points, segments, receipts | pause, suspend, bind a continuation, continue | one point, many nodes; replays | a paused run is quiet and can be continued |
| **Workflow driver** `application/workflows/scheduler.py`, `leaf.py`, `transitions.py`, `management.py` | run, nodes, leaf Turns | admit, settle, drain, finalise; pause, resume, cancel | parallel frontiers, commands of two processes between any two steps | nothing left half done, writers alone, completed means committed |
| Workflow planning `application/workflows/task_planning.py`, `replanning.py` | revisions, plans, patches | propose, validate, patch | boundaries of a replan | one frozen revision per run |
| **Preference review** `application/preferences/worker.py`, `jobs.py` | jobs with leases, retry timers | list, claim, complete, fail, retry | leases that end under their owner, late answers | one owner at a time, a closed job stays, every job settles |
| Learning and promotion `application/learning/*` | candidates, promotions | promote, undo, recover | saga over store and files | a promotion is all or nothing |
| **Attachments, artifacts, cleanup, backup** `application/attachments.py`, `artifacts.py`, `cleanup.py`, `backup_service.py` | drafts, metadata rows, files | upload, parse, publish, release, copy; quarantine orphans; bundle | crash between row and file, two processes over one directory | available means present, a message keeps its files, a bundle is complete |
| Workspace restore and undo `application/workspace_restore.py` | change sets, operations | restore, undo | partial application | compensation is idempotent |
| Computer use `adapters/computer_use/*` | desktop lease, native session | open, act, close | timed-out start | one owner of the desktop |
| MCP runtime `application/mcp/runtime.py` | server processes per run | start, call, close | late start, cancel | no process outlives its run |
| Live projections `server/replies.py`, `activities.py` | bounded rings | publish, pull | eviction | a gap is reported |
| Files, processes, sandbox; providers and context; skills and definitions; store and schema; terminal, server routes, GUI | | | mostly I/O or presentation | |

How they interact: a user message is queued (`interactions.py`), a driver task
enters the gate of its workspace, `turn_lifecycle.py` admits the Turn in one
transaction, and `agent.py` loops between model and tools. Tool rows and log
records share transactions. The server's commands act on the same rows and wake
the driver through in-process futures; the command line acts on them from another
process and cannot wake anybody. A restart restores a Session, which discovers
what was interrupted and may put it under review. A workflow run drives its nodes as
Turns of their own under the same gate; its commands come from the server and from
a second process. The end of a Turn enqueues a preference review, which any
process may drain. An attachment is parsed beside all this, and the message that
carries it keeps its artifacts; the cleanup and the backup read the same rows and
files from another process.

## 2. Modules

| Module | What it models |
|---|---|
| `ExecutionModel` | The pure part: states, legal transitions, recovery classes and the resolutions offered. Constants: the calls and what the frozen intent says of each. |
| `ToolCycle` | One Session executing batches of calls: rows, approvals, grant, log, the driver's control points, API, revocations, clocks. |
| `ToolCall` | Abstract: what the system promises of one call. |
| `SessionRecovery` | `ToolCycle` with crash, restore, resume and every recovery decision; properties; the refinement to `ToolCall`. |
| `SessionWithCli` | `SessionRecovery` with a second process that resolves approvals and revokes the grant. |
| `ExecutionGate` | The admission queue of all Runs of a host. |
| `ChatQueue` | The input queue of one Session, its driver and the commands that race with it, over restarts. |
| `InputLine` | Abstract: what the queue promises of its inputs. |
| `WorkflowRun` | One workflow run: driver, frontiers, Turns of its nodes, the pause cycle, commands of two processes, crashes. |
| `PlanRun` | Abstract: what a workflow run promises of its plan. |
| `ReviewWorker` | The preference review queue and any number of loops and one-shot commands draining it. |
| `ReviewJob` | Abstract: what the review queue promises of one job. |
| `Attachments` | Drafts, their artifacts in rows and files, beside a cleanup and a backup, over crashes and power failures. |
| `MCSessionRecovery`, `MCSessionWithCli`, `MCExecutionGate`, `MCWorkflowRun`, `MCAttachments` | Instances for TLC (`ReviewWorker` and `ChatQueue` need none). |
| `SessionSafety_proofs` | Types of a Session, one run of each call, consent, evidence. |
| `SessionPromise_proofs` | Log, reports, honest outcomes; the Session implements `ToolCall`. |
| `WorkflowRun_proofs` | Rows, drives and order of a run; it implements `PlanRun`. |
| `ReviewWorker_proofs` | Leases and owners; every job implements `ReviewJob`. |
| `SessionWithCli_proofs` | The safety of a Session with the second process at work. |
| `ChatQueue_proofs` | Driver, report and rows of the queue; it implements `InputLine`. |
| `ExecutionGate_proofs`, `Attachments_proofs` | The theorems of these modules. |

### State and actions of the Session

`state, disp, ver, cancel` are the columns of a `tool_executions` row: its state,
disposition, row version and cancellation request. `appr` is the approval row;
APPROVED is split into `granted` (created from a session-wide precedent, not yet
consumed) and `approved` (consumed). `sessioned` holds the calls whose approval
was given for the session, `bound` those whose scope revision is still current,
so that revoking the scope empties `bound`. `pending, turn, reply` are the log.
`rstatus, class, resol` are the latest recovery report; `handled` the calls
decided in earlier reports. `up, pc, live, res, lver, fin, resumable` are process
memory and are lost in a crash; `lver` is the row version the driver holds.
`entered` and `effect` say what handlers really did, which the program cannot see.
`quarantinedLater` is a history variable.

One action is one transaction or one suspension point of the driver, in the order
of the code: `DenyAtGate`, `RequestApproval`, `ConsumePrecedent`, `MarkExecuting`,
`ApproveHere` / `AdoptApproval` / `RefuseApproval` (what a woken waiter finds when
it re-reads the rows), `EnterHandler` / `RefuseEntry`, `HandlerReturns` /
`HandlerTimesOut` / `HandlerCancelled`, `RecordCompleted`, `CommitReply`, and for
an interruption `Interrupt`, then `SettleRow` and `CommitSynthetic` for each call.
`CommitFails` and `ClosingFails` are the store refusing a commit or failing.
Evidence is not a variable the driver remembers: every guard reads the rows, as
`assert_handler_may_enter` does, and `EnterHandler` is the last of them.

Abstractions. A call is a model value; its identity stands for call id and
execution id together. A batch is any sequence of unused calls. All calls bound to
a grant share one grant row. Files are not modelled: what recovery observes of
them is any of the four outcomes for a reconciled tool. `Permitted` stands for all
of `assert_execution_permission`: of the run's frozen permissions only the grant
can change. Receipts of replayed commands are left out (a replay changes nothing).
A session has at most one report at a time, as `get_open_report` enforces.

### State and actions of the gate

An admission is identified with the task that owns it. `waiting` with `ahead`
(who was queued before whom) is the list `coordinator.waiting`; `asleep` are the
tasks inside `condition.wait()` nobody notified. The condition's lock is never
held across a suspension, so `Arrive` and `WakeUp` run to the next wait. `GiveUp`
is the `except BaseException` path: cancellation, or a predicate that raises.
`Reclassify` lets any answer of `confined()` change at any time, which covers all
the code it looks at (pending inputs, profile, MCP servers).

### State and actions of the input queue

Inputs are numbered in the order of their submission. `status` is the row of an input
in `chat_interactions`, `intent` whether it was sent, steers or follows up, `control`
its row in `runtime_control_queue`, `binding` the configuration it was accepted with
(`config` is the configuration now), `turn` the Turn it was bound to: none, open, or
how it finished. `paused` is the durable control of the queue, `task` whether the
current TaskRun has failed, `point` the interruption point with the input it is of and
the continuation that resumed it. `review` says what a restart left to decide:
nothing, executions nobody looked at yet (`found`), or a report that shows in the
health of the Session (`marked`). A process has a runtime of the Session (`built`) whose
orchestrator knows the execution gate once the queue drove it (`wired`).

`driver` is the driver task: `head` of its loop, `gate1` (preparing options and
runtime), `gate2` (the Turn), `gateR` (a resumption), inside a `turn`, `closing` (what
follows a Turn), or `self`, waiting for the gate it holds. `outer` is the entry the
loop took, `key` the input of the Turn, which a drained steer or follow-up makes a
different one. Everything runs on one event loop, so an action is what one task does
between two suspensions: `Submit`, `Withdraw`, `Stop`, `Continue`, `Discover`,
`Resume`, `ResolveResume`, `ResolveAbort`, `TaskResume` and `SwitchConfig` are the
commands; `Head`, `GateOne`, `GateOneFails`, `PreCheckFails`, `GateTwo` (with `Admit`
or `Refuse`), `StoppedAtGate`, `GateResume`, `EndTurn`, `StopTurn`, `Drain`,
`DrainWired`, `DrainUnwired`, `AfterStream` and `AfterResume` the driver. The gate is
seen from outside: `OtherEnters` and `OtherLeaves` say that somebody else is in it. What
happens inside a Turn is its outcome, which `SessionRecovery` and `ToolCycle` resolve.

Abstractions. `continue_queue` of an interrupted Turn and the resume of a report that
ends with a new input are `Submit`, which they call. A Turn interrupts itself (its
provider fails); a pause asked for by the user, which ends the same way, is left out.
Configuration is two values, since only equality of a binding matters.

### State and actions of a workflow run

`run` is the run row: its status, the pause fact and the pending cancellation;
`node`, `segment` and `leaf` are the NodeRun, its last execution segment and the
leaf task with its last Turn. `point` is the latest pause point, the singleton
all nodes of a run share; `receipts` the receipts of continuations, which the
first node and its later siblings keep under different ids. `parked` names the
nodes whose last interruption opened a cycle. `driver` and `task` are the
asyncio task of the driver and the drives it awaits; a crash loses them, and `lost`
remembers that the last driver did not end by itself.

The driver is one task on one event loop, so the commands of its own process run
only where it awaits (`AtAwait`), while those of the command line (`CliPause`,
`CliCancel`) may commit between any two of its transactions. `Begin` is
`management.start` or `resume` with `recover`; `Pick` walks the stable order and
chooses between a node alone and a frontier of readers; `Admit`, `Reopen`,
`Continue`, `Leave` begin the drive of a node; `Stop`, `Break`, `Answer`, `Fail`
end its Turn; `SettleSerial`, and for a frontier `Notice`, `Join`, `SettleNext`,
`Publish`, settle what the Turns left; `End` finalises or completes a drain.
`ResumeDies` is a process that dies between the two transactions of a resume.
`Publish` merges the transactions of its nodes and `Cancel` the cancelling of the
driver with the closing of its Turns: nothing but the command line can come
between them, and it would find nodes that are each in one of the two states. `Settle`
merges the opening of a pause cycle with the parking of the node in it
(`request_pause`, `_suspend_node_segment`): no await lies between. What a crash between
the two leaves behind, an open cycle and a node not parked in it, is what a crash after
`PauseTheRest` leaves, where the two are steps of their own.

### State and actions of the review queue

`row` holds the job rows; a lease is named by the row version its claim wrote,
which is unique, as the lease id of the code is. Time is abstract: `live` says
whether the lease has not expired, and `Expire` may end it at any moment, also
under a worker that goes on. The order of a drain is that of `drain_once`:
`Choose`, `ExhaustExpired` or `Claim`, `NameReviewer`, `Ask`, `Persist`,
`Complete`, and after a failure `ReadFailure` and `RecordFailure`. Every read and
every save is a step of its own (`seen` is the version read, `Unchanged` the
optimistic check), so all other processes may act in between. `wake` and `timers`
belong to the loop.

### State and actions of attachments

An artifact is its draft and its number: the id the code derives from draft, role
and content. `temp` and `final` are the bytes under its two names; a final name is
`unsynced` until its directory was synced. `lost` is a history variable: the
artifacts a power failure took after their rows were marked. `owner` is the
procedure of the server's event loop that is under way. Publishing has no await, so
there is at most one: `Look`, `Write`, `Rename`, `Sync`, `Mark`, `Link`, `Finish`,
or `Discard` and `Sweep` for a release; `Fails` is a full disk or a refused
transaction at any of these. `other` is the second process with one cleanup or one
backup. `Crash` loses memory, `PowerFails` also names that were not synced.

## 3. Runs

| Run | Instance | States (about) | What it asks |
|---|---|---|---|
| `SessionCore` | a reconciled edit, a gated shell call on a grant | 490 000 | all safety properties, refinement, liveness; a report can be answered |
| `SessionScope` | two gated calls a session scope may cover, unreadable projections | 2 840 000 | precedents and their revocation: evidence that went away stops a handler |
| `SessionCli` | a gated call on a grant, a denied call, a second process, unreadable projections | 1 640 000 | safety with the command line at work |
| `Gate` | four drivers, three workspaces, one nested | 20 000 | the queue |
| `ChatQueue` | three inputs, one restart, one change of settings | 430 000 | the promise of the line, no admission while held, no lost control row; a queued input moves |
| `Workflow` | two nodes as a chain, as two writers and as two readers; two resume commands, two at a time | 623 000 | quiet pauses, continuation, the promise of the plan; drains end |
| `Reviews` | one job, two attempts, one manual retry; a loop and a one-shot command | 423 000 | leases keep processes apart, jobs keep their promise; every job settles |
| `Attachments` | a file of two artifacts, two copies of its message, a cleanup or a backup | 27 000 | rows, files, messages and bundles agree; every upload settles |
| `StaleReport`, `OpenCycle`, `InterruptedEnded`, `CancelIgnored` | smallest instance that shows it | | where code and text disagree, section 6 |

Bounds. The set of calls is the only bound of the Session: each call is used once,
so that row versions, entries and messages are bounded without a constraint. Two
calls suffice for the order of a batch, for one call to be a precedent of the
other, for a batch after a batch, and for a report about an earlier call while a
later one is open; the three policies of recovery declarations and the kinds of
consent (none, approval, grant, session scope, policy denial) are spread over the
runs. Crashes, restores, resumes, reports and decisions are unbounded. Four tasks
are enough for one in the gate, one queued, one queued behind it and one that gives
up; the roots are disjoint, nested and equal. Three inputs give one whose Turn runs or
was interrupted, a follow-up or a steer of it, and one queued behind both; the restart
and the change of settings may come at any moment, also before the other, while stops,
withdrawals, continuations and recoveries are unbounded. The inductive invariant was
checked for two inputs with two restarts. Two nodes give a chain, two writers
that must not overlap and a frontier whose members pause, fail and finish in any
order; pauses, crashes and replacements of the driver are unbounded, resumes are
bounded by the command ids, of which a cycle needs one and a replay or refusal a
second. `MaxAttempts` is 2 instead of 3, so that a first, a last and a too late
attempt exist; the one bound of that run is `MaxRetries`. Two workers suffice for a
lease that ends under one while the other claims. Two artifacts give an order of
publishing, two copies a file shared by three drafts; uploads, failures, crashes
and power failures are unbounded. The inductive invariant of `Attachments` was
checked once with a second upload as well (4.1 million states). No symmetry is
used: the calls, inputs, nodes and jobs differ, and liveness is checked. All runs check
deadlock except `Workflow`, `CancelIgnored`, `ChatQueue` and `InterruptedEnded`: a run
that has ended, or waits for a user, rests, and so does a Session whose inputs are done.

### Properties

Safety of the Session: `AtMostOnce` (no handler is entered twice),
`ConsentBeforeEffect` (none runs that was denied or not approved, and what ran is
not recorded as denied), `SuccessIsReal` (success in the row and to the model is
what the handler did), `CycleClosed` (one message per closed call, none left by a
closed Turn), `ResolvedMeansSettled`, `ReportHasWayOut` (an open report takes an
abort, a resume or an acknowledgement, but for the case section 6 names). Action properties:
`LostEvidenceStopsEntry` (in `SessionScope`, where scopes exist), `UnknownSticky`.
Refinement: `CallsKeepPromise`, every call implements `ToolCall`. The quantifier
over calls is inside the box because one step (a revocation, an abort of the
report) may be a step of several calls. Liveness: `DecisionReleasesWaiter`,
`HandlerSettles`.

The gate: `Exclusion`, `NobodySleepsFree`, `ConfinedWhenJoining`, `NobodyStarves`.

The input queue: `NoGhostControl` (a pending steer or follow-up belongs to
an input that can still be admitted or withdrawn; a steer nobody sees would end Turn
after Turn), `HeldAdmitsNothing` (no input gets a Turn while the queue is paused or a
report waits, wherever the driver was when that happened); liveness `QueueMoves` (if
every Turn ends, of this Session and of whoever else is in the gate, a queued input of
an open queue is taken up, blocked with a reason or withdrawn, or the queue is paused).
It excepts what is behind a driver at `self`, see section 6, and so says nothing of that
deadlock.
Refinement: `QueueKeepsPromise`, the queue implements `InputLine`: an input gets one Turn
at most and one is open at a time (`OneOpenTurn`), taken is the continuation of an
interrupted Turn, whoever has nobody ahead, or the first steer or follow-up, and nobody
while the queue is held; an interruption holds it until it is continued, a Turn ends for
a steer only if one waits, and how it ended is never rewritten. The stage of an input is
its row until it has a Turn, then how that stands. `InputLine` lets a withdrawn input come
back blocked, because the code does (section 6), and leaves open when a user lets a held
queue go.

A workflow run: `PausedIsQuiet` (no open Turn, no active segment in a paused run),
`PausedCanContinue` (its cycle takes a continuation), `DriverLeavesNothing` (a driver
that ends by itself leaves a run that is terminal, paused or not begun),
`WriterAlone`; liveness `DrainEnds` (if every Turn ends and the driver gets the execution
lock, a drain ends while its driver lives). Refinement: `RunKeepsPromise`, the run implements
`PlanRun`: a node starts only after its predecessors and beside another one only if
both just read, a held run has nobody at work and no answer unpublished, goes on only by
a resume and ends only by a cancellation, what is done stays done, and a completed run
has all of its plan done.

The review queue: `OneOwner`, `OnlyTheOwnerMoves` (while a lease lives nobody else
changes the row); liveness `JobsSettle`. Refinement: `JobsKeepPromise`, every job
implements `ReviewJob`: one attempt at most owns it, only its owner ends it and
completes it only with its proposals stored, attempts are counted, and a closed job
stays closed until a user retries it.

Attachments: `RowMatchesFile` (available means present, and nothing is found
corrupt, but for what a power failure took), `MessageKeepsFiles` (a ready or
submitted draft has all artifacts of one upload), `BundleComplete` (an accepted
backup has the file of every artifact in its database); liveness `DraftSettles`.

Every property of a passing run has a mutant of a mapped definition that breaks
it; the mutated forms stand before the definition they mutate, under a comment
that begins with "Mutant".

### Fairness

`WF_vars(DriverStep)`: a driver is a coroutine of a running event loop, a handler
ends at the latest with `tool_timeout_seconds` (`tool_cycle.py:279-294`), and no
other step of the driver waits for anything outside the process. The model's answer
(`CommitBatch`), decisions, interruptions, revocations, clocks, crashes and
restarts are not fair. In `ExecutionGate` only `WakeUp` is fair: a notified task is
scheduled. That Runs end is not assumed but is the antecedent of `NobodyStarves`.

That a Turn ends is assumed nowhere. Its model calls and handlers have timeouts, but it
may ask for an approval, and that wait has none: `ServerApprovalPort.request` awaits a
future (`server/approvals.py:16-25`), outside the timeout of the handler
(`tool_cycle.py:476-514`), and `core/execution_pause.py:126-127` calls the wait
unbounded. The end of Turns is therefore the antecedent of `QueueMoves` and `DrainEnds`,
as it is of `NobodyStarves`: each says that nothing else keeps the input, or the drain,
from moving.

In `ChatQueue` the steps of the driver are weakly fair, because it is a task of the event
loop, but for `EndTurn`; a Turn that is being cancelled ends (`StopTurn`). `AtGate` is
strongly fair because the gate is: a waiting Run is not overtaken for ever
(`NobodyStarves` of `ExecutionGate`, from which this assumption is taken). Whoever else is
inside need not leave: `[]<>(holder # "other")` is the second antecedent of `QueueMoves`.
Commands, changes of settings and restarts are not fair.

In `WorkflowRun` the steps of the driver are fair as one (it is one task that never
waits for itself), but for `Begin` and `CancelRest`, which wait for the execution lock
others may hold; that it gets the lock is the second antecedent of `DrainEnds`. The end of
a Turn is not fair, not even under a pause: a pause of the driver's own process wakes the
Turns that wait (`wake_run`), one of the command line wakes nobody
(`execution_pause.py:770-799`). Commands and crashes are not fair. In `ReviewWorker` the loops drain, wake and take their timers, and leases
end because time passes; one-shot commands are not fair, they may be suspended for
good. `JobsSettle` has two premises the code cannot grant: that some loop is woken
again and again (after a crash, or after a command deferred a job, no timer is set;
the job waits for the next prompt), and that processes stop dying. In `Attachments`
the procedure under way is weakly fair, and for each draft the end of its upload and
of its parsing strongly: both have time limits (30 s for a body, the limits of the
parser), and the event loop serves its ready tasks in turn, so that the procedures
of other drafts only delay them. `DraftSettles` presumes that the failure itself can
be stored; a store that refuses that too leaves the draft `processing` until the
next restart.

## 4. Proofs

All theorems hold for every value of the constants that meets the assumptions of
their module: `CallsAssumption`, `CorruptAssumption` and, with the second process,
`NobodyAssumption`; `GateAssumption`; `ChatQueueAssumption`; `NodesAssumption`,
`PlansAssumption`, `CommandsAssumption` and `ConcurrencyAssumption`; `JobsAssumption`,
`WorkersAssumption`, `AttemptsAssumption` and `RetriesAssumption`; `DraftsAssumption` and
`PartsAssumption`.

The Session (`SessionSafety_proofs`, `SessionPromise_proofs`). Four inductive invariants,
each resting on those before it; every one was an invariant of TLC runs first.

* `TypeCorrect`: `Spec => []TypeOK`. `TypeOK` is not inductive: the driver takes
  `Head(pending)`, so `TypeInv` adds that a batch is not empty while the driver is
  in it. One step per action; the row operations (`MoveRow`, `CloseBeforeHandler`,
  `AppendReply`, `CloseSettled`) have a lemma each.
* `ToolRunsOnce`, `ConsentFirst`: `Spec => []AtMostOnce` and
  `Spec => []ConsentBeforeEffect`. The strengthening `SafeInv` says of the rows that
  a call not yet started was not entered, that only completed or closed rows have a
  verdict, that a completed row is not denied and that only gated calls have
  approvals; and of the driver that the calls of its batch are distinct, that those
  ahead of it were not entered, and that it does not pass the policy with a denied
  call. Crash safety follows from a row only ever leaving `executing` towards
  `completed` or `closed`, and a resumed run never taking up an old batch.
* `EvidenceRequired`: `Spec => LostEvidenceStopsEntry`. Only `EnterHandler` enters a
  handler, and it has just read the evidence again; what is missing is that a call
  which needs no approval is never expired or in a session scope (`OnlyGatedCovered`).
* `CycleCloses`, `ReportSettles`: by `LogInv`. `CycleInv` adds to `CycleClosed` that an
  unresolved call has a row. `ReportInv` relates report and rows: an open report lists
  every row in flight, a decided item is closed, only a report that quarantined holds a
  quarantined item. `HostInv` keeps the two apart: an open report means no driver and a
  Session that is not healthy. The reason is that rows only go forward (`Forward`) and
  that a driver, the only source of new rows, works on no Session under an open report.
* `ReportAnswerable`: `Spec => []ReportHasWayOut`. The property is stated with the guards
  of the decisions (`MayDecide`, `MayAbort`, `MayResume`), which are the first conjuncts
  of the actions; that they are all of the conditions (each equals ENABLED of its action
  in every reachable state) was checked with TLC on `SessionCore` and `SessionScope`,
  since the provers do not have ENABLED. What has to be found is that a report over a
  finished Turn lists only calls closed unknown (`OverListed`), since `CycleInv` leaves
  nothing else to list there; their classes take an acknowledgement, or their files are
  untouched.
* `SuccessReal`, `UnknownStays`, `PromiseKept`: by `CallInv`. `RowsHonest` says of each
  row that it claims no more than its handler did; `LostKnown` that an open report lists
  a handler whose effect cannot be told as unknown, so that closing by it is honest too;
  `AheadUnasked` and `InHandler` say where the current call and those ahead of it stand
  for each place of the driver. `EveryFate` then says what one step does with one call:
  it rests, is proposed, asked about, started, entered, returned, recorded or closed.
  `FateKeepsPromise` maps each of the eight to an action of `ToolCall` or a stutter. A
  step may move several calls (a revocation, an abort), so that both are stated for one
  call at a time, whatever the others do.
* `RunsOnceWithCli`, `ConsentWithCli`, `EvidenceWithCli` (`SessionWithCli_proofs`): the
  first two invariants are also invariants of `CliSpec`. A restore over the driver's head
  changes the report and the health but no row; a resolution consumes an approval in the
  step that starts its row, or closes a row that did not start; a revocation is the one
  the server makes. None of it needs the driver to know. `LogInv` and `CallInv` are no
  invariants there, see section 6.

The other parts.

* `GateTypes`, `GateExcludes`, `GateWakes`, `GateRechecks`: by `GateInv`, which adds
  to the invariants that no task is both in and queued and that whoever is ahead of
  a task is another queued one (`Queue`). The heart is
  `EnterStep`: entering without notifying anyone is safe because whoever slept behind
  the entering task was blocked by it in the queue and is blocked by it in the gate.
* `QueueInOrder`: `Spec => []ChatInv`, with `ChatTypes`, `OneTurnAtATime` and `NoGhosts` as
  consequences. `OneOpenTurn` follows from the guard of an admission, which sees the whole
  log, but a resumption and the end of a Turn rely on `DriverOK`: a driver in a Turn has
  an open one, and a driver at the gate of a Turn has an open queue or a stop on its
  way. `ReviewOK` says that a report is about an open Turn and that a Session with a
  runtime knows its report. `OldestIn`, the one lemma about data, shows that the oldest
  of some inputs exists, by the well-foundedness of the intervals that end at one.
* `HeldQueue`: `Spec => HeldAdmitsNothing`. Two steps admit an input. The gate of the Turn
  is passed only without a stop, hence by `DriverOK` with an open queue; the drain after
  a resumption reads the pause itself. A report found by nobody is excluded by `ReviewOK`.
* `LineKeptPromise`: `Spec => QueueKeepsPromise`, by `ChatInv` and `LineInv`. The driver
  chooses an input in one step and admits it gates later; `LineKept` says that it is still
  next in line then. `LineStays` is the reason: inputs are accepted by their numbers
  (`AcceptedInOrder`), so that newcomers join behind it, and what joins again is a blocked
  continuation, an ordinary input that passes no steer (`PointKept`). The drained control
  is the first of its kind because a queued one has its row (`ControlKept`). One lemma per
  action then names what it is of the promise; `QuietKeeps` covers those that write no row.
* `ReviewTypes`, `LeasesFollowStatus`, `ClaimsAreExclusive`, `OwnersMove`,
  `ClosedJobsStay`: by `ReviewInv`, which is `TypeOK`, `RowOK`, `Knows` and
  `OneOwner`. `RowOK` bounds a lease by the version of its row, so that a new claim
  is named differently from all before; `Knows` says what each process may conclude
  from where it is: that a version or lease it holds is not from the future, that a
  process which read its own lease (`naming`, `closing`, `recording`) and finds the
  row unchanged still owns the claim. That is why a save needs no second look at
  the lease. `OwnersMove` and `ClosedJobsStay` then look at each save once.
* `AttachmentsInOrder`: `Spec => []AttachInv`, with `AttachTypes`, `RowsMatchFiles` and
  `MessagesKeepFiles` as consequences. `FileOK` says for each artifact which names go
  with which state of its row, `LinksOK` which artifacts a draft links in each of its
  states, and `PlaceOK` what the procedure under way has achieved; none holds alone,
  because a step of the procedure relies on what the previous one left. `Quiet`
  (a process that does not run does nothing) is needed for a restart.
* `BundlesComplete`: by `BackupInv`, the listed artifacts are copied or still to copy.
  It relies on nothing the owner does, which is the point: the backup must notice
  whatever happens meanwhile.

* `CompletesStored`: `Spec => CompletesWithProposals`, what `JobPromiseKept` needs of it. A row becomes completed in one step
  only, the save of the process that closes it (`WhoCompletes`: every other save writes
  another status), and `Knows` has its proposals stored by then.
* `JobPromiseKept`: `Spec => JobsKeepPromise`. The owner of a job is a process that stands
  where it may still save the row and whose claim the row names. `Sole` says that there is
  one; `OwnersStay` that a step which leaves the row and the places of its owners alone
  changes no owner; `Forgetting` that whoever loses a job loses what its reviewer
  answered too (`NothingYet`, one more invariant, has a process without an answer know
  none). A claim is named by a version no process has seen, so that whoever owned the
  job before owns it no more. One lemma per kind of step then names the action of
  `ReviewJob`; `Silent` covers the steps it does not see.
* `WorkflowTypes`, `WritersAlone`: by `WorkInv`, the books of a run.
  `NodesKept` relates a node to its leaf and its segment, `RunKept` the status of the run
  to its nodes and its pause, `DriverKept` and `TasksKept` the driver to the drives it
  waits for, `Together` the nodes that run at once to the readers the plan admitted, and
  `TeamKept` says that all that runs during a frontier is in its team. Drives are
  memory, rows are not: the steps of other processes change rows under a driver, and
  `WorkInv` says only what survives that.
* `CompletesForReal`: `Spec => []CompletedForReal`, the last of the conditions of
  `PlanPromiseKept`.
* `PauseIsQuiet`, `PauseContinues`, `LeavesNothing` (`RunInvariant`): by `OrderInv`, which
  `WorkInv` does not give, because whether a pause found everything parked depends on the
  order in which the driver went through the plan. `InOrderKept` says that a node admitted
  alone found all before it completed; `AtPick`, `AtDrive`, `AtTeam`, `AtClose` and
  `AtEnd` say for each place of the driver what lies behind it: completed nodes, or, if a
  pause is on its way, parked ones. At the end therefore all nodes are completed, or
  the drain is and every running node is parked under a suspended cycle. `LeftOpen`
  covers the hard case, a continuation joined with its Turn open: another node of
  the frontier is then about to end the run. `Onward` is what every step does
  with the order (a completed node stays so, none returns to the queue, an ended run
  stays ended). That a set of nodes has a first one is `FirstIn`.
* `PlanPromiseKept`: `Spec => RunKeepsPromise`. Three more invariants say what the books
  leave open. `ReadyKept`: a queued node the driver is about to admit has all its
  predecessors committed, also when the driver chose it long before. `DriveKept`: a node
  driven alone is not done, and only a pause refuses its admission. `AnswersKept`: an
  answer that waits to be published keeps its segment active, so that no drain holds
  the run over it. Each step of the run is then one deed of
  `PlanRun` or none: a lemma for each deed says what must be shown of it (`NoDeed`,
  `RestDeed`, `StartDeed` ...), a lemma for each group of steps which deed it is
  (`SerialDeed`, `NoticeDeed`, `CommandDeed` ...).

Only model-checked: the liveness properties (`DecisionReleasesWaiter`, `HandlerSettles`,
`NobodyStarves`, `QueueMoves`, `DrainEnds`, `JobsSettle`, `DraftSettles`), which need
fairness. Everything else the passing runs check is a theorem, for `SessionWithCli` what the run `SessionCli` asks.

## 5. Hazards

`PROJECT.json` lists each at its line with the properties that watch it. Those
without a property belong to the modules planned below, or say why none is due.

## 6. Where code and text disagree

Four runs expect a violation; each quotes the text in `PROJECT.json`.

1. `StaleReport`: deciding an open report computes health from the report alone and
   lifts a quarantine that came after it (`api_recovery.py:259`; `state.md:107-108`).
2. `OpenCycle`: a crash between closing a refused call and its message leaves an open
   cycle that recovery does not see; the resumed Turn is refused for ever.
3. `InterruptedEnded`: after a restart that left a Turn open and nothing to reconcile,
   continuing the queue admits the next input beside that Turn; the refusal of the log
   ends in the error handler of the loop, which finishes the open Turn, the interrupted
   one (`agent.py:2735`). `agent.py:2664-2667` keeps it open "so another host can resume".
4. `CancelIgnored`: a cancellation recorded by another process while a driver is under
   way is read by no step of it; nodes not yet started are admitted and the run
   completes.

Seen with TLC while the modules were written, without a run of their own:

* For an unknown file edit of a finished Turn whose files are observed untouched
  (`safe_to_retry`, `core/recovery.py:330`), the only resolution offered besides a
  quarantine is an abort, and that fails for want of an open Turn (`conversation.py:381`);
  a resume needs the item decided first. The text shown tells the user to end the item
  (`application/recovery_status.py:29`). The proof of `ReportHasWayOut` without its last
  disjunct failed on this case; TLC shows it when that disjunct is dropped in
  `SessionCore`, where a call is reconciled.
* With the command line at work `CycleClosed`, `ReportHasWayOut` and `CallsKeepPromise` do
  not hold, which is why `SessionCli` does not ask them. A restore by the command line
  opens a report over a driver that lives; when the owner is gone and the report
  is aborted, the calls proposed since then get a message and a closed Turn, but their
  rows stay `prepared`. A bullet below names another effect of that report.
* Input queue. The loop writes the entry it took before the gate (`interactions.py:440`):
  an input that was answered is blocked when the settings of a drained follow-up no
  longer fit, and as it has a Turn it cannot be withdrawn, as the interface proposes;
  an input withdrawn while its driver waits comes back as blocked, and a continuation
  withdrawn so can be queued again. A resumption drains a follow-up inside the gate it
  holds and waits for itself when its orchestrator was given the gate
  (`orchestrator.py:363`). An input refused under a report settles the interrupted
  input, whose Turn is still open. A continue given while a resumption runs is undone
  when it ends, because `_resume_unlocked` pauses whatever happened.
* A pause closes the waiting call and thereby denies the approval that is said to
  stay pending (`tool_persistence.py:261`; `tool_cycle.py:479-481`).
* Nobody wakes the owner's driver after a decision on the command line, nor a Turn that
  waits for an approval after a pause of the command line, so that such a drain lasts
  until the approval is decided; the report
  the command line opens about a live Session is reused after a crash of the owner
  and turns an unknown outcome into a known one.
* Workflow: a driver ordered by a resume clears, when it gets the execution lock, whatever
  pause stands then, one accepted after the resume too; a Turn that is interrupted in a
  resumed cycle after a pause of the command
  line fails its run (`scheduler.py:1424-1430` would keep the graph alive); an admission
  refused by a pause fails the run when the resume comes before the settlement
  (`leaf.py:150` calls it "a control outcome, never a node failure"); a sibling's
  committed leaf is lost when the settlement of an earlier one fails the run
  (`scheduler.py:547` "Preserve every successfully committed leaf"). A resume command
  that was bound before its process died is `reused` when sent again to a later cycle
  and its node parks once more. In a frontier whose one reader failed the barrier cancels
  the others; when another process pauses the run before they are joined, the settlement
  that closes the run finalises them as `user_cancelled`, though nobody cancelled
  (`scheduler.py:1375`, `1406`); `PlanRun` therefore lets a run that is not held end as
  cancelled without being asked. `workflow resume` without a command id parks again; a
  cycle bound to one command refuses another.
* Attachments: a final file an earlier attempt left is marked available without
  syncing its name (`artifacts.py:456`; `docs/architecture/state.md:96-97` has the
  sync precede the commit). With `lost = {}` as an invariant TLC shows the power
  failure that takes the file of an available artifact in 16 states; the properties
  except exactly these artifacts.

## 7. Plan

Done so far: Session, gate, input queue, review queue, workflow run with its pause
cycle, attachments. Next, each module with its theorems in a `_proofs` module:

1. `RunAdmission`: `ChatQueue` composed with `ExecutionGate`, where the confinement of a
   Run is classified from the pending inputs of live drivers while the admission
   consumes another one (`server/workspaces.py:46`); with it pauses asked for by the
   user, workflow inputs and attachments of inputs.
2. `ConversationLog`: the whole grammar, forks and compaction as readers of it.
3. `ComputerLease`, `Promotion`; then planning and patches of workflows.

Proofs next: those of the modules above, with them the composition of `ChatQueue` and
`ExecutionGate`, and that the assumption of `ChatQueue` about its gate follows from
`ExecutionGate`, as far as it is safety.

## 8. Not modelled

The parts of section 1 without a module: I/O (files, processes, network, SQLite
itself), presentation (terminal, server routes, GUI), generated evidence and vendored
code have no state of their own that a model would tell apart; the others are in the
plan. Of the parts that are modelled:

* Session: texts, digests, size limits and redaction; streaming and context
  compaction; provider retries; the completion and repeat guards of the loop; creation
  of grants and the confirmation of high-risk commands; decisions on a report by a
  second process.
* Input queue: workflow inputs, attachments and computer selections, pauses asked for by
  the user, the limits of the queue, eviction of idle runtimes, replay of commands by
  their receipts, a crash between the terminal of a Turn and the update of its input.
* Workflow: recovery reports that block a run, replan signals and pauses at a node
  boundary, budgets, deadlines, revocation, retry of a failed run, the runs of earlier
  versions, steering texts. A resume of the command line is modelled only when no
  driver is live, as the execution lock has it.
* Review queue: the learning reviews the same loop drains, what writes accepted
  proposals, a store that is busy. `Persist` does not look at the lease: a worker that
  lost its job still stores its proposals, and the fingerprint keeps a job from storing
  one twice; the model shows it and no text forbids it.
* Attachments: byte and count limits, damage done to files by others, different bytes
  at a second upload of one draft, unlinks that come back after a power failure,
  pinning, the quarantine directories and their restore, artifacts of Tasks and
  workflows (reserved by the same path). A committed row survives a power failure
  (SQLite runs with `synchronous=FULL`). Known gaps without a run: a row left STAGING or
  AVAILABLE by a crash and linked by no draft is removed by nothing, and every later
  backup is refused for the former (`backup_service.py:307`); a crash between the
  rename into quarantine and the unlink leaves a quarantine the cleanup refuses.
