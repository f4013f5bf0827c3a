----------------------------- MODULE ExecutionGate -----------------------------
(* The root-conflict queue every Run of the host passes                       *)
(* (application/execution_gate.py).  Chat drivers, recovery drivers and       *)
(* workflow drivers of all workspaces are tasks of one event loop; each       *)
(* enters the gate of its workspace before it works and leaves it afterwards. *)
(* The condition's lock is only ever held between two suspension points, so a *)
(* step of this module is what one task does without suspending.              *)
EXTENDS Naturals, FiniteSets

CONSTANTS
    Tasks,          \* the driver tasks that may ask for admission
    Gates,          \* coordinator.gate(root, confined=...): two per workspace
    GateOf,         \* the gate a task enters
    Overlap,        \* pairs of gates with the same root or one root below the other
    Classified      \* gates with a confined predicate; the others never are

ASSUME GateAssumption ==
    /\ GateOf \in [Tasks -> Gates]
    /\ Overlap \subseteq Gates \X Gates
    /\ \A g, h \in Gates : <<g, h>> \in Overlap => <<h, g>> \in Overlap
    /\ \A g \in Gates : <<g, g>> \in Overlap
    /\ Classified \subseteq Gates

VARIABLES
    active,     \* tasks admitted and not left yet
    waiting,    \* tasks queued
    ahead,      \* of a queued task: the tasks queued before it
    confined,   \* the confinement its admission records
    asleep,     \* queued tasks inside condition.wait() that nobody notified
    safeNow     \* gates whose predicate says confined at this moment

vars == <<active, waiting, ahead, confined, asleep, safeNow>>

(* Type invariant.                                                            *)
TypeOK ==
    /\ active \subseteq Tasks /\ waiting \subseteq Tasks
    /\ ahead \in [Tasks -> SUBSET Tasks]
    /\ confined \in [Tasks -> BOOLEAN]
    /\ asleep \subseteq waiting
    /\ safeNow \subseteq Classified

Init ==
    /\ active = {} /\ waiting = {} /\ asleep = {}
    /\ ahead = [t \in Tasks |-> {}]
    /\ confined = [t \in Tasks |-> FALSE]
    /\ safeNow \in SUBSET Classified

(* Admission.conflicts, under the confinement both admissions record.         *)
Conflicts(t, u, conf) ==
    \/ ~conf[t] \/ ~conf[u]
    \/ <<GateOf[t], GateOf[u]>> \in Overlap

\* Mutants: half of the tasks are not looked at.
FreeOfActive(t, before, conf) == \A u \in active : ~Conflicts(t, u, conf)

FreeOfQueue(t, before, conf) == \A u \in before : ~Conflicts(t, u, conf)

(* Nobody who is in or queued before is in t's way.                           *)
Free(t, before, conf) == \A u \in active \cup before : ~Conflicts(t, u, conf)

Confined(t) == GateOf[t] \in safeNow

(* The loop of __aenter__, from its head to the return or to the next wait:   *)
(* t has before queued ahead of it and records conf.                          *)
EnterOrSleep(t, before, conf) ==
    /\ confined' = conf
    /\ IF Free(t, before, conf)
       THEN /\ active' = active \cup {t}
            /\ waiting' = waiting \ {t}
            /\ ahead' = [u \in Tasks |-> IF u = t THEN {} ELSE ahead[u] \ {t}]
            /\ asleep' = asleep \ {t}
       ELSE /\ waiting' = waiting \cup {t}
            /\ ahead' = [ahead EXCEPT ![t] = before]
            /\ asleep' = asleep \cup {t}
            /\ UNCHANGED active
    /\ UNCHANGED safeNow

(* A task asks for admission: it joins the queue at its end.                  *)
Arrive(t) ==
    /\ t \notin active \cup waiting
    /\ EnterOrSleep(t, waiting, [confined EXCEPT ![t] = Confined(t)])

\* Mutant: confinement is what it was on arrival.
WakeUpUnchecked(t) ==
    /\ t \in waiting \ asleep
    /\ EnterOrSleep(t, ahead[t], confined)

(* A notified task runs again: confinement can only have become weaker.       *)
WakeUp(t) ==
    /\ t \in waiting \ asleep
    /\ EnterOrSleep(t, ahead[t], [confined EXCEPT ![t] = @ /\ Confined(t)])

(* The admission of t is dropped from the queue.                              *)
Dequeue(t) ==
    /\ t \in waiting
    /\ waiting' = waiting \ {t}
    /\ ahead' = [u \in Tasks |-> IF u = t THEN {} ELSE ahead[u] \ {t}]
    /\ confined' = [confined EXCEPT ![t] = FALSE]
    /\ UNCHANGED <<active, safeNow>>

\* Mutants: a task that gives up goes quietly, or still counts as asleep.
GiveUpQuietly(t) == Dequeue(t) /\ asleep' = asleep \ {t}

GiveUpAsleep(t) == Dequeue(t) /\ asleep' = asleep

(* A queued task is cancelled, notified or not, or its predicate raises: it   *)
(* takes itself out of the queue and notifies all.                            *)
GiveUp(t) == Dequeue(t) /\ asleep' = {}

(* The Run is over, or its task was cancelled: __aexit__ notifies all.        *)
Leave(t) ==
    /\ t \in active
    /\ active' = active \ {t}
    /\ confined' = [confined EXCEPT ![t] = FALSE]
    /\ asleep' = {}
    /\ UNCHANGED <<waiting, ahead, safeNow>>

(* Inputs with other permissions are queued or consumed, the workspace gets   *)
(* or loses an MCP server: what a predicate answers changes.                  *)
Reclassify ==
    /\ safeNow' \in SUBSET Classified
    /\ UNCHANGED <<active, waiting, ahead, confined, asleep>>

Next ==
    \/ \E t \in Tasks : Arrive(t) \/ WakeUp(t) \/ GiveUp(t) \/ Leave(t)
    \/ Reclassify

(* The event loop runs a task that was notified.  Nothing is assumed of       *)
(* arrivals, cancellations, predicates and the length of a Run.               *)
Spec == Init /\ [][Next]_vars /\ \A t \in Tasks : WF_vars(WakeUp(t))

-------------------------------------------------------------------------------
(* Invariant.  Runs that are in at the same time all recorded confinement and *)
(* work below disjoint roots: an unconfined Run is alone in the whole host.   *)
Exclusion == \A t, u \in active : t # u => ~Conflicts(t, u, confined)

(* Invariant.  No wake-up is lost: a task that sleeps is in conflict with one *)
(* that is in or queued before it, whoever entered, left, gave up or lost its *)
(* confinement since it fell asleep.                                          *)
NobodySleepsFree == \A t \in asleep : ~Free(t, ahead[t], confined)

(* Action property.  Whoever joins other Runs is confined at that moment, not *)
(* only when it arrived.                                                      *)
ConfinedWhenJoining ==
    [][\A t \in active' \ active : active # {} => Confined(t)]_vars

(* Liveness.  If no Run stays in for ever, nobody starves: a queued task is   *)
(* admitted or gives up, also an unconfined one that needs the whole host     *)
(* while confined Runs of other workspaces come and go.                       *)
NobodyStarves ==
    (\A u \in Tasks : []<>(u \notin active))
        => \A t \in Tasks : t \in waiting ~> t \notin waiting

===============================================================================
