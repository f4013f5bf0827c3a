-------------------------- MODULE ExecutionGate_proofs --------------------------
(* The safety of the root-conflict queue for any number of drivers, any roots *)
(* and any behaviour of the confinement predicates.                           *)
EXTENDS ExecutionGate, TLAPS

(* No task is both in and queued, and whoever is ahead of a task is another   *)
(* queued one.                                                                *)
Queue ==
    /\ active \cap waiting = {}
    /\ \A t \in Tasks : ahead[t] \subseteq waiting \ {t}

(* The inductive invariant.  Exclusion alone is not inductive: the admission  *)
(* of a task that is in must not be rewritten, which holds as only arriving   *)
(* and queued tasks write theirs and nobody is both in and queued.            *)
GateInv == TypeOK /\ Queue /\ Exclusion /\ NobodySleepsFree

(* The loop of __aenter__ keeps the invariant, whether it was entered by a new*)
(* task or by a notified one whose recorded confinement only got weaker.      *)
LEMMA EnterStep ==
    ASSUME GateInv, NEW t \in Tasks, t \notin active,
           NEW before \in SUBSET (waiting \ {t}),
           NEW conf \in [Tasks -> BOOLEAN],
           \A u \in Tasks \ {t} : conf[u] = confined[u],
           t \in waiting => (conf[t] => confined[t]),
           EnterOrSleep(t, before, conf)
    PROVE  GateInv'
<1>1. CASE Free(t, before, conf)
  <2>1. /\ active' = active \cup {t} /\ waiting' = waiting \ {t}
        /\ ahead' = [u \in Tasks |-> IF u = t THEN {} ELSE ahead[u] \ {t}]
        /\ asleep' = asleep \ {t}
        /\ confined' = conf /\ safeNow' = safeNow
    BY <1>1 DEF EnterOrSleep
  <2>2. TypeOK' /\ Queue'
    BY <2>1 DEF GateInv, TypeOK, Queue
  <2>3. Exclusion'
    <3> SUFFICES ASSUME NEW u \in active', NEW v \in active', u # v
                 PROVE  ~Conflicts(u, v, conf)
      BY <2>1 DEF Exclusion, Conflicts
    <3>1. CASE u # t /\ v # t
      BY <3>1, <2>1 DEF GateInv, TypeOK, Exclusion, Conflicts
    <3>2. CASE u = t \/ v = t
      BY <3>2, <2>1, <1>1, GateAssumption DEF GateInv, TypeOK, Free, Conflicts
    <3> QED BY <3>1, <3>2
  <2>4. NobodySleepsFree'
    <3> SUFFICES ASSUME NEW u \in asleep'
                 PROVE  \E v \in active' \cup ahead'[u] : Conflicts(u, v, conf)
      BY <2>1 DEF NobodySleepsFree, Free, Conflicts
    <3>1. u \in asleep /\ u \in waiting /\ u \in Tasks /\ u # t
      BY <2>1 DEF GateInv, TypeOK
    <3>2. PICK v \in active \cup ahead[u] : Conflicts(u, v, confined)
      BY <3>1 DEF GateInv, NobodySleepsFree, Free
    <3>3. v \in Tasks /\ (v = t => t \in waiting)
      BY <3>1 DEF GateInv, TypeOK, Queue
    <3>4. Conflicts(u, v, conf)
      BY <3>1, <3>2, <3>3 DEF Conflicts, GateInv, TypeOK
    <3>5. v \in active' \cup ahead'[u]
      BY <2>1, <3>1
    <3> QED BY <3>4, <3>5
  <2> QED BY <2>2, <2>3, <2>4 DEF GateInv
<1>2. CASE ~Free(t, before, conf)
  <2>1. /\ waiting' = waiting \cup {t} /\ active' = active
        /\ ahead' = [ahead EXCEPT ![t] = before]
        /\ asleep' = asleep \cup {t}
        /\ confined' = conf /\ safeNow' = safeNow
    BY <1>2 DEF EnterOrSleep
  <2>2. TypeOK' /\ Queue'
    BY <2>1 DEF GateInv, TypeOK, Queue
  <2>3. Exclusion'
    BY <2>1 DEF GateInv, TypeOK, Exclusion, Conflicts
  <2>4. NobodySleepsFree'
    <3> SUFFICES ASSUME NEW u \in asleep'
                 PROVE  \E v \in active \cup ahead'[u] : Conflicts(u, v, conf)
      BY <2>1 DEF NobodySleepsFree, Free, Conflicts
    <3>1. CASE u = t
      BY <3>1, <2>1, <1>2 DEF GateInv, TypeOK, Free
    <3>2. CASE u # t
      <4>1. u \in asleep /\ u \in waiting /\ u \in Tasks
        BY <2>1, <3>2 DEF GateInv, TypeOK
      <4>2. PICK v \in active \cup ahead[u] : Conflicts(u, v, confined)
        BY <4>1 DEF GateInv, NobodySleepsFree, Free
      <4>3. v \in Tasks /\ (v = t => t \in waiting)
        BY <4>1 DEF GateInv, TypeOK, Queue
      <4>4. Conflicts(u, v, conf)
        BY <4>1, <4>2, <4>3, <3>2 DEF Conflicts, GateInv, TypeOK
      <4> QED BY <2>1, <3>2, <4>1, <4>4 DEF GateInv, TypeOK
    <3> QED BY <3>1, <3>2
  <2> QED BY <2>2, <2>3, <2>4 DEF GateInv
<1> QED BY <1>1, <1>2

(* Whoever notifies all leaves nobody asleep; what else it does is to take    *)
(* one task out of the gate or of the queue.                                  *)
LEMMA OutStep ==
    ASSUME GateInv, NEW t \in Tasks, GiveUp(t) \/ Leave(t)
    PROVE  GateInv'
<1>1. /\ active' \subseteq active \ {t} \/ (t \in waiting /\ active' = active)
      /\ asleep' = {} /\ safeNow' = safeNow
      /\ confined' = [confined EXCEPT ![t] = FALSE]
  BY DEF GiveUp, Dequeue, Leave
<1>2. TypeOK' /\ Queue'
  <2>1. CASE GiveUp(t)
    BY <2>1 DEF GiveUp, Dequeue, GateInv, TypeOK, Queue
  <2>2. CASE Leave(t)
    BY <2>2 DEF Leave, GateInv, TypeOK, Queue
  <2> QED BY <2>1, <2>2
<1>3. active' \subseteq active /\ t \notin active'
  BY <1>1 DEF GateInv, Queue
<1>4. Exclusion'
  BY <1>1, <1>3 DEF GateInv, TypeOK, Exclusion, Conflicts
<1>5. NobodySleepsFree'
  BY <1>1 DEF NobodySleepsFree
<1> QED BY <1>2, <1>4, <1>5 DEF GateInv

(* Every step of the gate keeps the invariant.                                *)
LEMMA GateStep == GateInv /\ [Next]_vars => GateInv'
<1> SUFFICES ASSUME GateInv, [Next]_vars PROVE GateInv'
  OBVIOUS
<1>1. ASSUME NEW t \in Tasks, Arrive(t) PROVE GateInv'
  <2> DEFINE conf == [confined EXCEPT ![t] = Confined(t)]
  <2>1. t \notin active /\ t \notin waiting /\ waiting \in SUBSET (waiting \ {t})
    BY <1>1 DEF Arrive
  <2>2. conf \in [Tasks -> BOOLEAN] /\ \A u \in Tasks \ {t} : conf[u] = confined[u]
    BY DEF GateInv, TypeOK, Confined
  <2>3. EnterOrSleep(t, waiting, conf)
    BY <1>1 DEF Arrive
  <2> HIDE DEF conf
  <2> QED BY <2>1, <2>2, <2>3, EnterStep
<1>2. ASSUME NEW t \in Tasks, WakeUp(t) PROVE GateInv'
  <2> DEFINE conf == [confined EXCEPT ![t] = @ /\ Confined(t)]
  <2>1. t \notin active /\ ahead[t] \in SUBSET (waiting \ {t})
    BY <1>2 DEF WakeUp, GateInv, TypeOK, Queue
  <2>2. /\ conf \in [Tasks -> BOOLEAN] /\ (conf[t] => confined[t])
        /\ \A u \in Tasks \ {t} : conf[u] = confined[u]
    BY DEF GateInv, TypeOK, Confined
  <2>3. EnterOrSleep(t, ahead[t], conf)
    BY <1>2 DEF WakeUp
  <2> HIDE DEF conf
  <2> QED BY <2>1, <2>2, <2>3, EnterStep
<1>3. ASSUME NEW t \in Tasks, GiveUp(t) \/ Leave(t) PROVE GateInv'
  BY <1>3, OutStep
<1>4. CASE Reclassify
  BY <1>4 DEF Reclassify, GateInv, TypeOK, Queue, Exclusion, NobodySleepsFree,
              Free, Conflicts
<1>5. CASE UNCHANGED vars
  BY <1>5 DEF vars, GateInv, TypeOK, Queue, Exclusion, NobodySleepsFree, Free, Conflicts
<1> QED BY <1>1, <1>2, <1>3, <1>4, <1>5 DEF Next

(* The queue is empty at the start.                                           *)
LEMMA GateStart == Init => GateInv
  BY DEF Init, GateInv, TypeOK, Queue, Exclusion, NobodySleepsFree

(* The inductive invariant holds of every behaviour.                          *)
THEOREM GateInvariant == Spec => []GateInv
  BY GateStart, GateStep, PTL DEF Spec

(* The variables keep their types.                                            *)
THEOREM GateTypes == Spec => []TypeOK
<1>1. GateInv => TypeOK
  BY DEF GateInv
<1> QED BY <1>1, GateInvariant, PTL

(* An unconfined Run is alone in the host, and confined Runs that overlap in  *)
(* time have disjoint roots.                                                  *)
THEOREM GateExcludes == Spec => []Exclusion
<1>1. GateInv => Exclusion
  BY DEF GateInv
<1> QED BY <1>1, GateInvariant, PTL

(* No wake-up is lost: whoever sleeps is in conflict with somebody who is in  *)
(* or queued before.                                                          *)
THEOREM GateWakes == Spec => []NobodySleepsFree
<1>1. GateInv => NobodySleepsFree
  BY DEF GateInv
<1> QED BY <1>1, GateInvariant, PTL

(* Whoever joins Runs that are in is confined at that moment.                 *)
THEOREM GateRechecks == Spec => ConfinedWhenJoining
<1>1. ASSUME GateInv, [Next]_vars, NEW t \in active' \ active, active # {}
      PROVE  Confined(t)
  <2>1. PICK u \in Tasks : Arrive(u) \/ WakeUp(u)
    BY <1>1 DEF Next, vars, GiveUp, Dequeue, Leave, Reclassify
  <2>2. PICK before \in SUBSET Tasks, conf \in [Tasks -> BOOLEAN] :
            /\ EnterOrSleep(u, before, conf)
            /\ conf[u] => Confined(u)
    <3>1. CASE Arrive(u)
      <4> DEFINE c == [confined EXCEPT ![u] = Confined(u)]
      <4>1. EnterOrSleep(u, waiting, c) BY <3>1 DEF Arrive
      <4>2. c \in [Tasks -> BOOLEAN] /\ c[u] = Confined(u)
        BY <1>1 DEF GateInv, TypeOK, Confined
      <4>3. waiting \in SUBSET Tasks
        BY <1>1 DEF GateInv, TypeOK
      <4> HIDE DEF c
      <4> QED BY <4>1, <4>2, <4>3
    <3>2. CASE WakeUp(u)
      <4> DEFINE c == [confined EXCEPT ![u] = @ /\ Confined(u)]
      <4>1. EnterOrSleep(u, ahead[u], c) BY <3>2 DEF WakeUp
      <4>2. c \in [Tasks -> BOOLEAN] /\ (c[u] => Confined(u)) /\ ahead[u] \in SUBSET Tasks
        BY <1>1 DEF GateInv, TypeOK, Confined
      <4> HIDE DEF c
      <4> QED BY <4>1, <4>2
    <3> QED BY <2>1, <3>1, <3>2
  <2>3. t = u /\ Free(u, before, conf)
    BY <1>1, <2>2 DEF EnterOrSleep
  <2>4. conf[u]
    BY <1>1, <2>3 DEF Free, Conflicts
  <2> QED BY <2>2, <2>3, <2>4
<1>2. GateInv /\ [Next]_vars => [\A t \in active' \ active : active # {} => Confined(t)]_vars
  BY <1>1
<1> QED BY <1>2, GateInvariant, PTL DEF Spec, ConfinedWhenJoining

===============================================================================
