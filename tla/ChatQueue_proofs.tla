---------------------------- MODULE ChatQueue_proofs ----------------------------
(* Theorems about the input queue, for any number of inputs, restarts and     *)
(* changes of the configuration.                                              *)
EXTENDS ChatQueue, FiniteSetTheorems, TLAPS

(* The oldest of some inputs is one of them and none of them is older: among  *)
(* the intervals that end at an input one is minimal.                         *)
LEMMA OldestIn ==
  ASSUME NEW S, S \subseteq Inputs, S # {}
  PROVE  Oldest(S) \in S /\ \A j \in S : Oldest(S) <= j
<1> DEFINE T == {1..i : i \in S}
<1>1. N \in Nat /\ S \subseteq Nat
  BY ChatQueueAssumption DEF Inputs
<1>2. T # {} /\ T \subseteq FiniteSubsetsOf(Nat)
  <2>1. ASSUME NEW i \in S PROVE 1..i \subseteq Nat /\ IsFiniteSet(1..i)
    BY <1>1, FS_Interval
  <2> QED BY <2>1 DEF FiniteSubsetsOf
<1>3. PICK x \in T : \A y \in T : ~ (<<y, x>> \in StrictSubsetOrdering(Nat))
  <2> HIDE DEF T
  <2> QED BY <1>2, WFMin, FS_StrictSubsetOrderingWellFounded
<1>4. PICK i \in S : x = 1..i
  OBVIOUS
<1>5. ASSUME NEW j \in S PROVE i <= j
  <2>1. CASE j < i
    <3>1. i \in Nat /\ j \in Nat
      BY <1>1
    <3>2. 1..j \subseteq 1..i /\ i \in 1..i /\ i \notin 1..j
      BY <2>1, <3>1
    <3>3. 1..j \in T /\ 1..j \in SUBSET Nat /\ 1..i \in SUBSET Nat
      BY <1>1
    <3> QED BY <1>3, <1>4, <3>2, <3>3 DEF StrictSubsetOrdering
  <2> QED BY <1>1, <2>1
<1> QED BY <1>5 DEF Oldest

--------------------------------------------------------------------------------
(* Where the driver is says what it holds: inputs in order, the gate open to  *)
(* it or a stop on its way, a Turn of its own, a runtime.                     *)
DriverOK ==
  /\ driver.at = "gate1" => driver.outer \in Inputs /\ ~paused
  /\ driver.at = "gate2" =>
       driver.outer \in Inputs /\ driver.key \in Inputs /\ (~paused \/ driver.stop)
  /\ driver.at = "turn" => driver.key \in Inputs /\ turn[driver.key] = "open"
  /\ driver.at = "closing" => driver.key \in Inputs
  /\ driver.at = "gateR" => OpenTurns # {}
  /\ driver.at \in {"gate2", "gateR", "turn", "closing", "self"} => built

(* A report is about an open Turn and shows in the health of a Session that   *)
(* has a runtime; nothing runs meanwhile.                                     *)
ReviewOK ==
  /\ review # "no" => OpenTurns # {}
  /\ built => review # "found"
  /\ driver.at \in {"gateR", "turn"} => review = "no"

(* An interruption is of an input, and only a submitted input has a Turn.     *)
PointOK == point.state # "none" => point.of \in Inputs
NewOK == \A i \in Inputs : status[i] = "new" => turn[i] = "none"

ChatInv ==
  /\ TypeOK /\ DriverOK /\ ReviewOK /\ PointOK /\ NewOK
  /\ OneOpenTurn /\ NoGhostControl

--------------------------------------------------------------------------------
(* What the pieces of the actions do                                          *)

(* The invariant holds of an empty queue.                                     *)
LEMMA InitChat == Init => ChatInv
<1> SUFFICES ASSUME Init PROVE ChatInv
  OBVIOUS
<1>1. TypeOK
  <2>1. /\ status \in [Inputs -> {"new", "queued", "consumed", "settled", "blocked", "withdrawn"}]
        /\ intent \in [Inputs -> {"send", "steer", "follow_up"}]
        /\ turn \in [Inputs -> {"none", "open"} \cup Ended]
        /\ control \in [Inputs -> {"none", "pending", "consumed", "superseded"}]
    BY DEF Init
  <2>2. binding \in [Inputs -> BOOLEAN]
    BY DEF Init
  <2>3. crashes \in 0..MaxCrashes /\ switches \in 0..MaxSwitches
    BY ChatQueueAssumption DEF Init
  <2>4. driver \in [at : {"off", "head", "gate1", "gate2", "gateR", "turn", "closing", "self"},
                    outer : Inputs \cup {None}, key : Inputs \cup {None}, stop : BOOLEAN]
    BY DEF Init, Off
  <2> QED BY <2>1, <2>2, <2>3, <2>4 DEF Init, TypeOK
<1>2. DriverOK /\ ReviewOK /\ PointOK /\ NewOK
  BY DEF Init, DriverOK, ReviewOK, PointOK, NewOK, Off, OpenTurns
<1>3. OneOpenTurn /\ NoGhostControl
  BY DEF Init, OneOpenTurn, NoGhostControl, OpenTurns
<1> QED BY <1>1, <1>2, <1>3 DEF ChatInv

(* The loop takes an input of the queue, or ends.                             *)
LEMMA LoopStep ==
  ASSUME TypeOK, NEW st, NEW stopped \in BOOLEAN, EnterLoop(st, stopped)
  PROVE  /\ driver' \in [at : {"off", "gate1"}, outer : Inputs \cup {None},
                          key : Inputs \cup {None}, stop : BOOLEAN]
         /\ paused' \in BOOLEAN
         /\ driver'.at = "gate1" => driver'.outer \in Inputs /\ ~paused'
<1> DEFINE D == [at : {"off", "gate1"}, outer : Inputs \cup {None},
                 key : Inputs \cup {None}, stop : BOOLEAN]
<1>1. CASE driver' = Off /\ paused' \in BOOLEAN
  <2>1. driver' \in D /\ driver'.at = "off"
    BY <1>1 DEF Off
  <2> QED BY <1>1, <2>1
<1>2. CASE /\ Pending(st) # {} /\ paused' = FALSE
           /\ driver' = [Off EXCEPT !.at = "gate1", !.outer = NextEntry(st)]
  <2>1. Pending(st) \subseteq Inputs
    BY DEF Pending
  <2>2. NextEntry(st) \in Inputs
    BY <1>2, <2>1, OldestIn DEF NextEntry
  <2>3. driver' \in D /\ driver'.outer \in Inputs
    BY <1>2, <2>2 DEF Off
  <2> QED BY <1>2, <2>3
<1>3. \/ driver' = Off /\ paused' \in BOOLEAN
      \/ /\ Pending(st) # {} /\ paused' = FALSE
         /\ driver' = [Off EXCEPT !.at = "gate1", !.outer = NextEntry(st)]
  BY Zenon DEF EnterLoop
<1> QED BY <1>1, <1>2, <1>3

(* A driver is created only where there is none.                              *)
LEMMA WakeStep ==
  ASSUME ChatInv, NEW stopped \in BOOLEAN, Wake(stopped)
  PROVE  \/ driver' = driver
         \/ driver' = [Off EXCEPT !.at = "head"]
BY DEF Wake

(* A steer or a follow-up that is drained is an input, and nobody paused.     *)
LEMMA NextControlIn ==
  ASSUME TypeOK, NEW k \in NextControl
  PROVE  k \in Inputs /\ ~paused
<1>1. Waiting("steer") \subseteq Inputs /\ Waiting("follow_up") \subseteq Inputs
  BY DEF Waiting
<1>2. /\ Waiting("steer") # {} => Oldest(Waiting("steer")) \in Inputs
      /\ Waiting("follow_up") # {} => Oldest(Waiting("follow_up")) \in Inputs
  BY <1>1, OldestIn
<1> QED BY <1>2 DEF NextControl

(* What is said of rows and point holds while nobody writes them.             *)
LEMMA RowsKept ==
  ASSUME ChatInv, UNCHANGED <<rows, point>>
  PROVE  PointOK' /\ NewOK' /\ OneOpenTurn' /\ NoGhostControl'
BY DEF ChatInv, PointOK, NewOK, OneOpenTurn, NoGhostControl, Unconsumed, Pending,
   OpenTurns, rows

(* Ending the loop keeps what is said of driver and report: it holds nothing. *)
LEMMA LoopKeepsPlace ==
  ASSUME ChatInv, NEW st, NEW stopped \in BOOLEAN, EnterLoop(st, stopped),
         turn' = turn, review' = review, built' = built
  PROVE  DriverOK' /\ ReviewOK'
<1>1. /\ driver'.at \in {"off", "gate1"}
      /\ driver'.at = "gate1" => driver'.outer \in Inputs /\ ~paused'
  BY LoopStep DEF ChatInv
<1> QED BY <1>1 DEF ChatInv, DriverOK, ReviewOK, OpenTurns

(* An admission opens the only Turn, with nothing to decide.                  *)
LEMMA AdmitKeeps ==
  ASSUME ChatInv, NEW k \in Inputs, Admit(k), built,
         UNCHANGED <<intent, binding, config, paused, point, review, built, wired,
                     crashes, switches>>,
         holder' \in {"none", "chat", "other"}
  PROVE  ChatInv'
<1>1. TypeOK'
  BY DEF ChatInv, TypeOK, Admit
<1>2. DriverOK' /\ ReviewOK'
  BY DEF ChatInv, TypeOK, DriverOK, ReviewOK, OpenTurns, Admit, Admissible
<1>3. PointOK' /\ NewOK' /\ OneOpenTurn'
  BY DEF ChatInv, TypeOK, PointOK, NewOK, OneOpenTurn, OpenTurns,
     Admit, Admissible
<1>4. NoGhostControl'
  BY DEF ChatInv, TypeOK, NoGhostControl, Unconsumed, Pending, Admit
<1> QED BY <1>1, <1>2, <1>3, <1>4 DEF ChatInv

(* A refusal opens none; the Turn it ends had nothing to decide.              *)
LEMMA RefuseKeeps ==
  ASSUME ChatInv, NEW k \in Inputs, Refuse(k), built,
         UNCHANGED <<intent, binding, config, paused, point, review, built, wired,
                     crashes, switches>>,
         holder' \in {"none", "chat", "other"}
  PROVE  ChatInv'
<1>1. CASE /\ review = "marked" /\ turn' = turn /\ task' = task
           /\ status' = [i \in Inputs |-> IF i \in OpenTurns THEN "settled" ELSE status[i]]
  <2>1. TypeOK'
    BY <1>1 DEF ChatInv, TypeOK, Refuse
  <2>2. DriverOK' /\ ReviewOK' /\ PointOK' /\ OneOpenTurn'
    BY <1>1 DEF ChatInv, TypeOK, DriverOK, ReviewOK, PointOK, OneOpenTurn, OpenTurns, Refuse
  <2>3. NewOK' /\ NoGhostControl'
    BY <1>1 DEF ChatInv, TypeOK, NewOK, NoGhostControl, Unconsumed, Pending, OpenTurns, Refuse
  <2> QED BY <2>1, <2>2, <2>3 DEF ChatInv
<1>2. CASE /\ review # "marked" /\ status' = status
           /\ turn' = [i \in Inputs |-> IF i \in OpenTurns THEN "error" ELSE turn[i]]
           /\ task' = IF OpenTurns # {} THEN "failed" ELSE task
  <2>1. TypeOK'
    BY <1>2 DEF ChatInv, TypeOK, Ended, Refuse
  <2>2. DriverOK' /\ ReviewOK' /\ PointOK' /\ OneOpenTurn'
    BY <1>2 DEF ChatInv, TypeOK, DriverOK, ReviewOK, PointOK, OneOpenTurn, OpenTurns, Refuse
  <2>3. NewOK' /\ NoGhostControl'
    BY <1>2 DEF ChatInv, TypeOK, NewOK, NoGhostControl, Unconsumed, Pending, OpenTurns, Refuse
  <2> QED BY <2>1, <2>2, <2>3 DEF ChatInv
<1> QED BY <1>1, <1>2 DEF Refuse

(* The end of a Turn leaves none open and nothing to decide.                  *)
LEMMA FinishKeeps ==
  ASSUME ChatInv, NEW how \in Ended, driver.at = "turn", Finish(how)
  PROVE  ChatInv'
<1>1. TypeOK'
  BY DEF ChatInv, TypeOK, DriverOK, Finish
<1>2. DriverOK' /\ ReviewOK'
  BY DEF ChatInv, TypeOK, DriverOK, ReviewOK, Finish
<1>3. PointOK' /\ NewOK' /\ OneOpenTurn'
  BY DEF ChatInv, TypeOK, DriverOK, PointOK, NewOK, OneOpenTurn, OpenTurns, Ended, Finish
<1>4. NoGhostControl'
  BY DEF ChatInv, TypeOK, DriverOK, NoGhostControl, Unconsumed, Pending, Finish
<1> QED BY <1>1, <1>2, <1>3, <1>4 DEF ChatInv

--------------------------------------------------------------------------------
(* The commands                                                               *)

(* A new input had no Turn; a driver that is woken holds nothing yet.         *)
LEMMA SubmitKeeps ==
  ASSUME ChatInv, NEW i \in Inputs, NEW kind \in {"send", "steer", "follow_up"}, Submit(i, kind)
  PROVE  ChatInv'
<1>1. TypeOK'
  <2>1. paused' \in BOOLEAN
    BY Zenon DEF Submit
  <2>2. driver' = driver \/ driver' = [Off EXCEPT !.at = "head"]
    BY DEF Submit, Wake
  <2>3. Interrupted => point.of \in Inputs /\ point.state # "none"
    BY DEF ChatInv, PointOK, Interrupted
  <2>4. binding' \in [Inputs -> BOOLEAN]
    BY <2>3 DEF ChatInv, TypeOK, Submit
  <2>5. /\ status' \in [Inputs -> {"new", "queued", "consumed", "settled", "blocked", "withdrawn"}]
        /\ intent' \in [Inputs -> {"send", "steer", "follow_up"}]
    BY DEF ChatInv, TypeOK, Submit
  <2>6. control' \in [Inputs -> {"none", "pending", "consumed", "superseded"}]
    BY DEF ChatInv, TypeOK, Submit
  <2>7. point' \in [state : {"none", "suspended", "resumed"},
                    of : Inputs \cup {None}, by : Inputs \cup {None}]
    BY DEF ChatInv, TypeOK, Submit
  <2>8. driver' \in [at : {"off", "head", "gate1", "gate2", "gateR", "turn", "closing", "self"},
                     outer : Inputs \cup {None}, key : Inputs \cup {None}, stop : BOOLEAN]
    BY <2>2 DEF ChatInv, TypeOK, Off
  <2>9. UNCHANGED <<turn, config, task, review, built, wired, holder, crashes, switches>>
    BY DEF Submit
  <2> QED BY <2>1, <2>4, <2>5, <2>6, <2>7, <2>8, <2>9 DEF ChatInv, TypeOK
<1>2. DriverOK' /\ ReviewOK'
  BY DEF ChatInv, TypeOK, DriverOK, ReviewOK, OpenTurns, Submit, Wake, Off
<1>3. PointOK' /\ NewOK' /\ OneOpenTurn'
  BY DEF ChatInv, TypeOK, PointOK, Interrupted, NewOK, OneOpenTurn, OpenTurns, Submit
<1>4. NoGhostControl'
  BY DEF ChatInv, TypeOK, NewOK, NoGhostControl, Unconsumed, Pending, OpenTurns,
     Submit, Wake, Off
<1> QED BY <1>1, <1>2, <1>3, <1>4 DEF ChatInv

(* A withdrawal takes the control row with the entry.                         *)
LEMMA WithdrawKeeps ==
  ASSUME ChatInv, NEW i \in Inputs, Withdraw(i)
  PROVE  ChatInv'
<1>1. TypeOK'
  BY DEF ChatInv, TypeOK, Withdraw, Withdrawn, Unconsumed
<1>2. DriverOK' /\ ReviewOK'
  BY DEF ChatInv, TypeOK, DriverOK, ReviewOK, OpenTurns, Withdraw, Withdrawn, Unconsumed
<1>3. PointOK' /\ NewOK' /\ OneOpenTurn'
  BY DEF ChatInv, TypeOK, PointOK, NewOK, OneOpenTurn, OpenTurns,
     Withdraw, Withdrawn, Unconsumed
<1>4. NoGhostControl'
  BY DEF ChatInv, TypeOK, NewOK, NoGhostControl, Unconsumed, Pending, OpenTurns,
     Withdraw, Withdrawn
<1> QED BY <1>1, <1>2, <1>3, <1>4 DEF ChatInv

(* A stop pauses, so that a driver at the gate must be marked as well.        *)
LEMMA StopKeeps ==
  ASSUME ChatInv, NEW S \in SUBSET Inputs, Stop(S)
  PROVE  ChatInv'
<1>1. TypeOK'
  <2>1. /\ status' \in [Inputs -> {"new", "queued", "consumed", "settled", "blocked", "withdrawn"}]
        /\ control' \in [Inputs -> {"none", "pending", "consumed", "superseded"}]
    BY DEF ChatInv, TypeOK, Stop, Withdrawn
  <2>2. driver' \in [at : {"off", "head", "gate1", "gate2", "gateR", "turn", "closing", "self"},
                     outer : Inputs \cup {None}, key : Inputs \cup {None}, stop : BOOLEAN]
    BY DEF ChatInv, TypeOK, Stop
  <2>3. /\ paused' \in BOOLEAN
        /\ UNCHANGED <<intent, turn, binding, config, task, point, review, built,
                       wired, holder, crashes, switches>>
    BY Zenon DEF Stop
  <2> QED BY <2>1, <2>2, <2>3 DEF ChatInv, TypeOK
<1>2. DriverOK' /\ ReviewOK'
  BY DEF ChatInv, TypeOK, DriverOK, ReviewOK, OpenTurns, Stop, Withdrawn, Unconsumed, ActiveRun
<1>3. PointOK' /\ NewOK' /\ OneOpenTurn'
  BY DEF ChatInv, TypeOK, PointOK, NewOK, OneOpenTurn, OpenTurns,
     Stop, Withdrawn, Unconsumed, ActiveRun
<1>4. NoGhostControl'
  BY DEF ChatInv, TypeOK, NewOK, NoGhostControl, Unconsumed, Pending, OpenTurns,
     Stop, Withdrawn, Unconsumed, ActiveRun
<1> QED BY <1>1, <1>2, <1>3, <1>4 DEF ChatInv

(* A continuation queued again had no Turn.                                   *)
LEMMA ContinueKeeps ==
  ASSUME ChatInv, Continue
  PROVE  ChatInv'
<1>1. TypeOK'
  <2>1. status' = status \/ status' = [status EXCEPT ![point.by] = "queued"]
    BY Zenon DEF Continue
  <2>2. status' \in [Inputs -> {"new", "queued", "consumed", "settled", "blocked", "withdrawn"}]
    BY <2>1 DEF ChatInv, TypeOK
  <2>3. driver' = driver \/ driver' = [Off EXCEPT !.at = "head"]
    BY Zenon DEF Continue, Wake
  <2>4. driver' \in [at : {"off", "head", "gate1", "gate2", "gateR", "turn", "closing", "self"},
                     outer : Inputs \cup {None}, key : Inputs \cup {None}, stop : BOOLEAN]
    BY <2>3 DEF ChatInv, TypeOK, Off
  <2>5. /\ paused' \in BOOLEAN
        /\ UNCHANGED <<intent, turn, control, binding, config, task, point, review,
                       built, wired, holder, crashes, switches>>
    BY Zenon DEF Continue
  <2> QED BY <2>2, <2>4, <2>5 DEF ChatInv, TypeOK
<1>2. DriverOK' /\ ReviewOK'
  BY DEF ChatInv, TypeOK, DriverOK, ReviewOK, OpenTurns, Continue, Wake, Off
<1>3. PointOK' /\ NewOK' /\ OneOpenTurn'
  BY DEF ChatInv, TypeOK, PointOK, NewOK, OneOpenTurn, OpenTurns,
     Continue, Wake, Off
<1>4. NoGhostControl'
  BY DEF ChatInv, TypeOK, NewOK, NoGhostControl, Unconsumed, Pending, OpenTurns,
     Continue, Wake, Off
<1> QED BY <1>1, <1>2, <1>3, <1>4 DEF ChatInv

(* A runtime that is built knows its report.                                  *)
LEMMA DiscoverKeeps ==
  ASSUME ChatInv, Discover
  PROVE  ChatInv'
<1>1. TypeOK'
  BY DEF ChatInv, TypeOK, Discover, MayRecover, Restored, rows
<1>2. DriverOK' /\ ReviewOK'
  BY DEF ChatInv, TypeOK, DriverOK, ReviewOK, OpenTurns, Discover, MayRecover, Restored, rows
<1>3. PointOK' /\ NewOK' /\ OneOpenTurn' /\ NoGhostControl'
  BY RowsKept DEF Discover, rows
<1> QED BY <1>1, <1>2, <1>3 DEF ChatInv

(* A resumption has an open Turn and no report.                               *)
LEMMA ResumeKeeps ==
  ASSUME ChatInv, Resume
  PROVE  ChatInv'
<1>1. TypeOK'
  BY DEF ChatInv, TypeOK, Resume, MayRecover, rows, Off
<1>2. DriverOK' /\ ReviewOK'
  BY DEF ChatInv, TypeOK, DriverOK, ReviewOK, OpenTurns, Resume, MayRecover, rows, Off
<1>3. PointOK' /\ NewOK' /\ OneOpenTurn' /\ NoGhostControl'
  BY RowsKept DEF Resume, rows
<1> QED BY <1>1, <1>2, <1>3 DEF ChatInv

(* A report was about an open Turn, which is resumed ...                      *)
LEMMA ResolveResumeKeeps ==
  ASSUME ChatInv, ResolveResume
  PROVE  ChatInv'
<1>1. TypeOK'
  BY DEF ChatInv, TypeOK, ResolveResume, MayRecover, rows, Off
<1>2. DriverOK' /\ ReviewOK'
  BY DEF ChatInv, TypeOK, DriverOK, ReviewOK, OpenTurns, ResolveResume, MayRecover, rows, Off
<1>3. PointOK' /\ NewOK' /\ OneOpenTurn' /\ NoGhostControl'
  BY RowsKept DEF ResolveResume, rows
<1> QED BY <1>1, <1>2, <1>3 DEF ChatInv

(* ... or ended.                                                              *)
LEMMA ResolveAbortKeeps ==
  ASSUME ChatInv, ResolveAbort
  PROVE  ChatInv'
<1>1. TypeOK'
  BY DEF ChatInv, TypeOK, ResolveAbort, MayRecover, Ended
<1>2. DriverOK' /\ ReviewOK'
  BY DEF ChatInv, TypeOK, DriverOK, ReviewOK, OpenTurns, ResolveAbort, MayRecover, Ended
<1>3. PointOK' /\ NewOK' /\ OneOpenTurn'
  BY DEF ChatInv, TypeOK, PointOK, NewOK, OneOpenTurn, OpenTurns,
     ResolveAbort, MayRecover, Ended
<1>4. NoGhostControl'
  BY DEF ChatInv, TypeOK, NewOK, NoGhostControl, Unconsumed, Pending, OpenTurns,
     ResolveAbort, MayRecover, Ended
<1> QED BY <1>1, <1>2, <1>3, <1>4 DEF ChatInv

(* The task is not part of the invariant.                                     *)
LEMMA TaskResumeKeeps ==
  ASSUME ChatInv, TaskResume
  PROVE  ChatInv'
<1>1. TypeOK'
  BY DEF ChatInv, TypeOK, TaskResume, rows
<1>2. DriverOK' /\ ReviewOK'
  BY DEF ChatInv, TypeOK, DriverOK, ReviewOK, OpenTurns, TaskResume, rows
<1>3. PointOK' /\ NewOK' /\ OneOpenTurn' /\ NoGhostControl'
  BY RowsKept DEF TaskResume, rows
<1> QED BY <1>1, <1>2, <1>3 DEF ChatInv

(* Nor are the settings.                                                      *)
LEMMA SwitchConfigKeeps ==
  ASSUME ChatInv, SwitchConfig
  PROVE  ChatInv'
<1>1. TypeOK'
  <2>1. config' \in BOOLEAN
    BY Zenon DEF SwitchConfig
  <2>2. switches' \in 0..MaxSwitches
    BY ChatQueueAssumption DEF ChatInv, TypeOK, SwitchConfig
  <2> QED BY <2>1, <2>2 DEF ChatInv, TypeOK, SwitchConfig, rows
<1>2. DriverOK' /\ ReviewOK'
  BY DEF ChatInv, TypeOK, DriverOK, ReviewOK, OpenTurns, SwitchConfig, rows
<1>3. PointOK' /\ NewOK' /\ OneOpenTurn' /\ NoGhostControl'
  BY RowsKept DEF SwitchConfig, rows
<1> QED BY <1>1, <1>2, <1>3 DEF ChatInv

--------------------------------------------------------------------------------
(* The driver and the rest of the host                                        *)

(* The loop takes an entry or ends.                                           *)
LEMMA HeadKeeps ==
  ASSUME ChatInv, Head
  PROVE  ChatInv'
<1>1. TypeOK'
  <2>8. EnterLoop(status, paused) /\ paused \in BOOLEAN
    BY Zenon DEF ChatInv, TypeOK, Head, rows
  <2>9. /\ driver' \in [at : {"off", "gate1"}, outer : Inputs \cup {None},
                        key : Inputs \cup {None}, stop : BOOLEAN]
        /\ paused' \in BOOLEAN
    BY <2>8, LoopStep DEF ChatInv
  <2> QED BY <2>9 DEF ChatInv, TypeOK, Head, rows
<1>2. DriverOK' /\ ReviewOK'
  <2>1. EnterLoop(status, paused) /\ paused \in BOOLEAN
    BY Zenon DEF ChatInv, TypeOK, Head, rows
  <2>2. turn' = turn /\ review' = review /\ built' = built
    BY DEF Head, rows
  <2> QED BY <2>1, <2>2, LoopKeepsPlace
<1>3. PointOK' /\ NewOK' /\ OneOpenTurn' /\ NoGhostControl'
  BY RowsKept DEF Head, rows
<1> QED BY <1>1, <1>2, <1>3 DEF ChatInv

(* The runtime of the first pass through the gate.                            *)
LEMMA GateOneKeeps ==
  ASSUME ChatInv, GateOne
  PROVE  ChatInv'
<1>1. TypeOK'
  BY DEF ChatInv, TypeOK, GateOne, Restored, rows
<1>2. DriverOK' /\ ReviewOK'
  BY DEF ChatInv, TypeOK, DriverOK, ReviewOK, OpenTurns, GateOne, Restored, rows
<1>3. PointOK' /\ NewOK' /\ OneOpenTurn' /\ NoGhostControl'
  BY RowsKept DEF GateOne, rows
<1> QED BY <1>1, <1>2, <1>3 DEF ChatInv

(* A failure ends the loop; the blocked entry keeps its control row.          *)
LEMMA GateOneFailsKeeps ==
  ASSUME ChatInv, GateOneFails
  PROVE  ChatInv'
<1>1. TypeOK'
  <2>8. EnterLoop(status', TRUE)
    BY Zenon DEF ChatInv, TypeOK, GateOneFails, Blocked
  <2>9. /\ driver' \in [at : {"off", "gate1"}, outer : Inputs \cup {None},
                        key : Inputs \cup {None}, stop : BOOLEAN]
        /\ paused' \in BOOLEAN
    BY <2>8, LoopStep DEF ChatInv
  <2>10. status' \in [Inputs -> {"new", "queued", "consumed", "settled", "blocked", "withdrawn"}]
    BY DEF ChatInv, TypeOK, GateOneFails, Blocked
  <2>11. UNCHANGED <<intent, turn, control, binding, config, task, point, review, built,
                     wired, holder, crashes, switches>>
    BY Zenon DEF GateOneFails, Blocked
  <2> QED BY <2>9, <2>10, <2>11 DEF ChatInv, TypeOK
<1>2. DriverOK' /\ ReviewOK'
  <2>1. EnterLoop(status', TRUE)
    BY Zenon DEF ChatInv, TypeOK, GateOneFails, Blocked
  <2>2. turn' = turn /\ review' = review /\ built' = built
    BY DEF GateOneFails, Blocked
  <2> QED BY <2>1, <2>2, LoopKeepsPlace
<1>3. PointOK' /\ NewOK' /\ OneOpenTurn'
  BY DEF ChatInv, TypeOK, PointOK, NewOK, OneOpenTurn, OpenTurns,
     GateOneFails, Blocked
<1>4. NoGhostControl'
  BY DEF ChatInv, TypeOK, NewOK, NoGhostControl, Unconsumed, Pending, OpenTurns,
     GateOneFails, Blocked
<1> QED BY <1>1, <1>2, <1>3, <1>4 DEF ChatInv

(* The same at the gate of the Turn.                                          *)
LEMMA PreCheckFailsKeeps ==
  ASSUME ChatInv, PreCheckFails
  PROVE  ChatInv'
<1>1. TypeOK'
  <2>8. EnterLoop(status', TRUE)
    BY Zenon DEF ChatInv, TypeOK, PreCheckFails, Blocked
  <2>9. /\ driver' \in [at : {"off", "gate1"}, outer : Inputs \cup {None},
                        key : Inputs \cup {None}, stop : BOOLEAN]
        /\ paused' \in BOOLEAN
    BY <2>8, LoopStep DEF ChatInv
  <2>10. status' \in [Inputs -> {"new", "queued", "consumed", "settled",
                                 "blocked", "withdrawn"}]
    BY DEF ChatInv, TypeOK, PreCheckFails, Blocked
  <2>11. UNCHANGED <<intent, turn, control, binding, config, task, point, review,
                     built, wired, holder, crashes, switches>>
    BY DEF PreCheckFails, Blocked
  <2> QED BY <2>9, <2>10, <2>11 DEF ChatInv, TypeOK
<1>2. DriverOK' /\ ReviewOK'
  <2>1. EnterLoop(status', TRUE)
    BY Zenon DEF ChatInv, TypeOK, PreCheckFails, Blocked
  <2>2. turn' = turn /\ review' = review /\ built' = built
    BY DEF PreCheckFails, Blocked
  <2> QED BY <2>1, <2>2, LoopKeepsPlace
<1>3. PointOK' /\ NewOK' /\ OneOpenTurn'
  BY DEF ChatInv, TypeOK, PointOK, NewOK, OneOpenTurn, OpenTurns,
     PreCheckFails, Blocked
<1>4. NoGhostControl'
  BY DEF ChatInv, TypeOK, NewOK, NoGhostControl, Unconsumed, Pending, OpenTurns,
     PreCheckFails, Blocked
<1> QED BY <1>1, <1>2, <1>3, <1>4 DEF ChatInv

(* At the gate of the Turn an input is admitted or refused.                   *)
LEMMA GateTwoKeeps ==
  ASSUME ChatInv, GateTwo
  PROVE  ChatInv'
<1>1. driver.key \in Inputs /\ built
  BY DEF ChatInv, DriverOK, GateTwo
<1>2. holder' \in {"none", "chat", "other"}
  BY DEF GateTwo
<1> QED BY <1>1, <1>2, AdmitKeeps, RefuseKeeps DEF GateTwo

(* A driver that is stopped holds nothing.                                    *)
LEMMA StoppedAtGateKeeps ==
  ASSUME ChatInv, StoppedAtGate
  PROVE  ChatInv'
<1>1. TypeOK'
  BY DEF ChatInv, TypeOK, StoppedAtGate, rows, Off
<1>2. DriverOK' /\ ReviewOK'
  BY DEF ChatInv, TypeOK, DriverOK, ReviewOK, OpenTurns, StoppedAtGate, rows, Off
<1>3. PointOK' /\ NewOK' /\ OneOpenTurn' /\ NoGhostControl'
  BY RowsKept DEF StoppedAtGate, rows
<1> QED BY <1>1, <1>2, <1>3 DEF ChatInv

(* The resumed Turn is the open one.                                          *)
LEMMA GateResumeKeeps ==
  ASSUME ChatInv, GateResume
  PROVE  ChatInv'
<1> DEFINE k == Oldest(OpenTurns)
<1>0. k \in Inputs /\ turn[k] = "open"
  <2>1. OpenTurns \subseteq Inputs /\ OpenTurns # {}
    BY DEF OpenTurns, ChatInv, DriverOK, GateResume
  <2>2. k \in OpenTurns
    BY <2>1, OldestIn
  <2> QED BY <2>2 DEF OpenTurns
<1>a. driver' = [driver EXCEPT !.at = "turn", !.key = k]
  BY DEF GateResume
<1> HIDE DEF k
<1>1. TypeOK'
  <2>1. driver' \in [at : {"off", "head", "gate1", "gate2", "gateR", "turn", "closing", "self"},
                     outer : Inputs \cup {None}, key : Inputs \cup {None}, stop : BOOLEAN]
    BY <1>0, <1>a DEF ChatInv, TypeOK
  <2>2. /\ holder' = "chat"
        /\ UNCHANGED <<rows, config, paused, task, point, review, built, wired,
                       crashes, switches>>
    BY DEF GateResume
  <2> QED BY <2>1, <2>2 DEF ChatInv, TypeOK, rows
<1>2. DriverOK' /\ ReviewOK'
  BY <1>0, <1>a DEF ChatInv, TypeOK, DriverOK, ReviewOK, OpenTurns, GateResume, rows
<1>3. PointOK' /\ NewOK' /\ OneOpenTurn' /\ NoGhostControl'
  BY RowsKept DEF GateResume, rows
<1> QED BY <1>1, <1>2, <1>3 DEF ChatInv

(* However a Turn ends.                                                       *)
LEMMA EndTurnKeeps ==
  ASSUME ChatInv, EndTurn \/ StopTurn
  PROVE  ChatInv'
<1>1. driver.at = "turn" /\ \E how \in Ended : Finish(how)
  BY DEF EndTurn, StopTurn, Ended
<1> QED BY <1>1, FinishKeeps

(* A drained input waits for the gate of a queue that is not paused.          *)
LEMMA DrainKeeps ==
  ASSUME ChatInv, Drain
  PROVE  ChatInv'
<1>0. PICK k \in NextControl : driver' = [driver EXCEPT !.at = "gate2", !.key = k]
  BY DEF Drain
<1>a. k \in Inputs /\ ~paused
  BY NextControlIn DEF ChatInv
<1>1. TypeOK'
  <2>1. driver' \in [at : {"off", "head", "gate1", "gate2", "gateR", "turn", "closing", "self"},
                     outer : Inputs \cup {None}, key : Inputs \cup {None}, stop : BOOLEAN]
    BY <1>0, <1>a DEF ChatInv, TypeOK
  <2>2. /\ holder' = "none"
        /\ UNCHANGED <<rows, config, paused, task, point, review, built, wired,
                       crashes, switches>>
    BY DEF Drain
  <2> QED BY <2>1, <2>2 DEF ChatInv, TypeOK, rows
<1>2. DriverOK' /\ ReviewOK'
  BY <1>0, <1>a DEF ChatInv, TypeOK, DriverOK, ReviewOK, OpenTurns, Drain, rows
<1>3. PointOK' /\ NewOK' /\ OneOpenTurn' /\ NoGhostControl'
  BY RowsKept DEF Drain, rows
<1> QED BY <1>1, <1>2, <1>3 DEF ChatInv

(* A driver that waits for its own gate does nothing more.                    *)
LEMMA DrainWiredKeeps ==
  ASSUME ChatInv, DrainWired
  PROVE  ChatInv'
<1>0. PICK k \in NextControl : driver' = [driver EXCEPT !.at = "self", !.key = k]
  BY DEF DrainWired
<1>a. k \in Inputs
  BY NextControlIn DEF ChatInv
<1>1. TypeOK'
  <2>1. driver' \in [at : {"off", "head", "gate1", "gate2", "gateR", "turn", "closing", "self"},
                     outer : Inputs \cup {None}, key : Inputs \cup {None}, stop : BOOLEAN]
    BY <1>0, <1>a DEF ChatInv, TypeOK
  <2>2. UNCHANGED <<rows, config, paused, task, point, review, built, wired, holder,
                    crashes, switches>>
    BY DEF DrainWired
  <2> QED BY <2>1, <2>2 DEF ChatInv, TypeOK, rows
<1>2. DriverOK' /\ ReviewOK'
  BY DEF ChatInv, TypeOK, DriverOK, ReviewOK, OpenTurns, DrainWired, rows
<1>3. PointOK' /\ NewOK' /\ OneOpenTurn' /\ NoGhostControl'
  BY RowsKept DEF DrainWired, rows
<1> QED BY <1>1, <1>2, <1>3 DEF ChatInv

(* Inside the gate of a resumption an input is admitted or refused.           *)
LEMMA DrainUnwiredKeeps ==
  ASSUME ChatInv, DrainUnwired
  PROVE  ChatInv'
<1>1. PICK k \in NextControl : Admit(k) \/ Refuse(k)
  BY DEF DrainUnwired
<1>2. k \in Inputs /\ built /\ holder' \in {"none", "chat", "other"}
  BY NextControlIn DEF ChatInv, TypeOK, DriverOK, DrainUnwired
<1> QED BY <1>1, <1>2, AdmitKeeps, RefuseKeeps DEF DrainUnwired

(* The settled entry is not pending any more.                                 *)
LEMMA AfterStreamKeeps ==
  ASSUME ChatInv, AfterStream
  PROVE  ChatInv'
<1>1. TypeOK'
  <2>8. /\ EnterLoop(status', paused \/ ~GoesOn(driver.outer))
        /\ (paused \/ ~GoesOn(driver.outer)) \in BOOLEAN
    BY Zenon DEF ChatInv, TypeOK, AfterStream, EntrySettled
  <2>9. /\ driver' \in [at : {"off", "gate1"}, outer : Inputs \cup {None},
                        key : Inputs \cup {None}, stop : BOOLEAN]
        /\ paused' \in BOOLEAN
    BY <2>8, LoopStep DEF ChatInv
  <2> QED BY <2>9 DEF ChatInv, TypeOK, AfterStream, EntrySettled
<1>2. DriverOK' /\ ReviewOK'
  <2>1. /\ EnterLoop(status', paused \/ ~GoesOn(driver.outer))
        /\ (paused \/ ~GoesOn(driver.outer)) \in BOOLEAN
    BY Zenon DEF ChatInv, TypeOK, AfterStream, EntrySettled
  <2>2. turn' = turn /\ review' = review /\ built' = built
    BY DEF AfterStream, EntrySettled
  <2> QED BY <2>1, <2>2, LoopKeepsPlace
<1>3. PointOK' /\ NewOK' /\ OneOpenTurn'
  BY DEF ChatInv, TypeOK, PointOK, NewOK, OneOpenTurn, OpenTurns,
     AfterStream, EntrySettled
<1>4. NoGhostControl'
  BY DEF ChatInv, TypeOK, NewOK, NoGhostControl, Unconsumed, Pending, OpenTurns,
     AfterStream, EntrySettled
<1> QED BY <1>1, <1>2, <1>3, <1>4 DEF ChatInv

(* A finished resumption holds nothing.                                       *)
LEMMA AfterResumeKeeps ==
  ASSUME ChatInv, AfterResume
  PROVE  ChatInv'
<1>1. TypeOK'
  BY DEF ChatInv, TypeOK, AfterResume, rows, Off
<1>2. DriverOK' /\ ReviewOK'
  BY DEF ChatInv, TypeOK, DriverOK, ReviewOK, OpenTurns, AfterResume, rows, Off
<1>3. PointOK' /\ NewOK' /\ OneOpenTurn' /\ NoGhostControl'
  BY RowsKept DEF AfterResume, rows
<1> QED BY <1>1, <1>2, <1>3 DEF ChatInv

(* Who else holds the gate does not matter.                                   *)
LEMMA OtherEntersKeeps ==
  ASSUME ChatInv, OtherEnters
  PROVE  ChatInv'
<1>1. TypeOK'
  BY DEF ChatInv, TypeOK, OtherEnters, rows
<1>2. DriverOK' /\ ReviewOK'
  BY DEF ChatInv, TypeOK, DriverOK, ReviewOK, OpenTurns, OtherEnters, rows
<1>3. PointOK' /\ NewOK' /\ OneOpenTurn' /\ NoGhostControl'
  BY RowsKept DEF OtherEnters, rows
<1> QED BY <1>1, <1>2, <1>3 DEF ChatInv

(* The gate is free again.                                                    *)
LEMMA OtherLeavesKeeps ==
  ASSUME ChatInv, OtherLeaves
  PROVE  ChatInv'
<1>1. TypeOK'
  BY DEF ChatInv, TypeOK, OtherLeaves, rows
<1>2. DriverOK' /\ ReviewOK'
  BY DEF ChatInv, TypeOK, DriverOK, ReviewOK, OpenTurns, OtherLeaves, rows
<1>3. PointOK' /\ NewOK' /\ OneOpenTurn' /\ NoGhostControl'
  BY RowsKept DEF OtherLeaves, rows
<1> QED BY <1>1, <1>2, <1>3 DEF ChatInv

(* A restart forgets the driver and the runtime; a report it finds is about an open Turn. *)
LEMMA CrashKeeps ==
  ASSUME ChatInv, Crash
  PROVE  ChatInv'
<1>1. TypeOK'
  <2>1. paused' \in BOOLEAN
    BY Zenon DEF Crash, PausedOnRestart
  <2>2. crashes' \in 0..MaxCrashes
    BY ChatQueueAssumption DEF ChatInv, TypeOK, Crash
  <2> QED BY <2>1, <2>2 DEF ChatInv, TypeOK, Crash, rows, Off
<1>2. DriverOK' /\ ReviewOK'
  BY DEF ChatInv, TypeOK, DriverOK, ReviewOK, OpenTurns, Crash, rows, Off
<1>3. PointOK' /\ NewOK' /\ OneOpenTurn' /\ NoGhostControl'
  BY RowsKept DEF Crash, rows
<1> QED BY <1>1, <1>2, <1>3 DEF ChatInv

(* What every step keeps.                                                     *)
LEMMA ChatStep == ChatInv /\ [Next]_vars => ChatInv'
<1> SUFFICES ASSUME ChatInv, [Next]_vars PROVE ChatInv'
  OBVIOUS
<1>1. CASE User
  <2>1. CASE \E i \in Inputs, kind \in {"send", "steer", "follow_up"} : Submit(i, kind)
    BY <2>1, SubmitKeeps
  <2>2. CASE \E i \in Inputs : Withdraw(i)
    BY <2>2, WithdrawKeeps
  <2>3. CASE \E S \in SUBSET Inputs : Stop(S)
    BY <2>3, StopKeeps
  <2>4. CASE Continue \/ Discover \/ Resume
    BY <2>4, ContinueKeeps, DiscoverKeeps, ResumeKeeps
  <2>5. CASE ResolveResume \/ ResolveAbort \/ TaskResume \/ SwitchConfig
    BY <2>5, ResolveResumeKeeps, ResolveAbortKeeps, TaskResumeKeeps, SwitchConfigKeeps
  <2> QED BY <1>1, <2>1, <2>2, <2>3, <2>4, <2>5 DEF User
<1>2. CASE Driver \/ EndTurn
  <2>1. CASE AtGate
    BY <2>1, GateOneKeeps, GateOneFailsKeeps, PreCheckFailsKeeps, GateTwoKeeps,
       GateResumeKeeps DEF AtGate
  <2>2. CASE Head \/ StoppedAtGate \/ EndTurn \/ StopTurn
    BY <2>2, HeadKeeps, StoppedAtGateKeeps, EndTurnKeeps
  <2>3. CASE Drain \/ DrainWired \/ DrainUnwired
    BY <2>3, DrainKeeps, DrainWiredKeeps, DrainUnwiredKeeps
  <2>4. CASE AfterStream \/ AfterResume
    BY <2>4, AfterStreamKeeps, AfterResumeKeeps
  <2> QED BY <1>2, <2>1, <2>2, <2>3, <2>4 DEF Driver
<1>3. CASE OtherEnters \/ OtherLeaves \/ Crash
  BY <1>3, OtherEntersKeeps, OtherLeavesKeeps, CrashKeeps
<1>4. CASE UNCHANGED vars
  BY <1>4 DEF vars, ChatInv, TypeOK, DriverOK, ReviewOK, PointOK, NewOK, OneOpenTurn,
     NoGhostControl, Unconsumed, Pending, OpenTurns
<1> QED BY <1>1, <1>2, <1>3, <1>4 DEF Next

--------------------------------------------------------------------------------
(* Theorems                                                                   *)

(* Driver, report, rows and Turns of a Session always agree: the driver that  *)
(* waits for the gate of a Turn has an open queue or a stop on its way, and   *)
(* a report is about an open Turn nothing runs.                               *)
THEOREM QueueInOrder == Spec => []ChatInv
BY InitChat, ChatStep, PTL DEF Spec

(* Every row, the control of the queue, the driver and the gate have their    *)
(* type, whatever commands race.                                              *)
THEOREM ChatTypes == Spec => []TypeOK
<1>1. ChatInv => TypeOK
  BY DEF ChatInv
<1> QED BY <1>1, QueueInOrder, PTL

(* The log of a Session never has two open Turns, however many inputs, stops, *)
(* resumes and restarts there are.                                            *)
THEOREM OneTurnAtATime == Spec => []OneOpenTurn
<1>1. ChatInv => OneOpenTurn
  BY DEF ChatInv
<1> QED BY <1>1, QueueInOrder, PTL

(* No pending steer or follow-up outlives the input it belongs to.            *)
THEOREM NoGhosts == Spec => []NoGhostControl
<1>1. ChatInv => NoGhostControl
  BY DEF ChatInv
<1> QED BY <1>1, QueueInOrder, PTL

(* Only an admission gives an input a Turn.                                   *)
LEMMA OnlyAdmissionOpens ==
  ASSUME ChatInv, [Next]_vars, ~GateTwo, ~DrainUnwired,
         NEW i \in Inputs, turn[i] = "none"
  PROVE  turn'[i] = "none"
<1>1. CASE User
  BY <1>1 DEF User, Submit, Withdraw, Stop, Continue, Discover, Resume, ResolveResume,
     ResolveAbort, TaskResume, SwitchConfig, OpenTurns, rows
<1>2. CASE EndTurn \/ StopTurn
  <2>1. driver.at = "turn" /\ \E how \in Ended : Finish(how)
    BY <1>2 DEF EndTurn, StopTurn, Ended
  <2> QED BY <2>1 DEF ChatInv, TypeOK, DriverOK, Finish
<1>3. CASE Driver /\ ~StopTurn
  BY <1>3 DEF Driver, AtGate, Head, GateOne, GateOneFails, PreCheckFails, Blocked, GateResume,
     StoppedAtGate, Drain, DrainWired, AfterStream, AfterResume, rows
<1>4. CASE OtherEnters \/ OtherLeaves \/ Crash \/ UNCHANGED vars
  BY <1>4 DEF OtherEnters, OtherLeaves, Crash, vars, rows
<1> QED BY <1>1, <1>2, <1>3, <1>4 DEF Next, Driver

(* Paused by a stop, an error, an interruption or a restart, or with a report *)
(* to decide, the queue gives no input a Turn: at the gate of the Turn the    *)
(* control is open or the driver is being stopped, and a Session that has a   *)
(* runtime knows its report.                                                  *)
THEOREM HeldQueue == Spec => HeldAdmitsNothing
<1>1. ASSUME ChatInv, [Next]_vars, NEW i \in Inputs, turn[i] = "none", turn'[i] # "none"
      PROVE  ~paused /\ review = "no"
  <2>1. CASE GateTwo
    <3>0. driver.at = "gate2" /\ ~driver.stop
      BY <2>1 DEF GateTwo
    <3>1. ~paused /\ driver.key \in Inputs
      BY <1>1, <3>0, Zenon DEF ChatInv, DriverOK
    <3>2. CASE Admit(driver.key)
      <4>1. review \in {"no", "found", "marked"} /\ review # "marked"
        BY <1>1, <3>2 DEF ChatInv, TypeOK, Admit, Admissible
      <4>2. review # "found"
        BY <1>1, <3>0 DEF ChatInv, DriverOK, ReviewOK
      <4> QED BY <3>1, <4>1, <4>2
    <3>3. CASE Refuse(driver.key)
      BY <1>1, <3>3 DEF ChatInv, TypeOK, Refuse, OpenTurns
    <3> QED BY <2>1, <3>2, <3>3 DEF GateTwo
  <2>2. CASE DrainUnwired
    <3>1. PICK k \in NextControl : Admit(k) \/ Refuse(k)
      BY <2>2 DEF DrainUnwired
    <3>2. ~paused /\ k \in Inputs
      BY <1>1, NextControlIn, Zenon DEF ChatInv
    <3>3. CASE Admit(k)
      <4>1. review \in {"no", "found", "marked"} /\ review # "marked"
        BY <1>1, <3>3 DEF ChatInv, TypeOK, Admit, Admissible
      <4>2. review # "found"
        BY <1>1, <2>2 DEF ChatInv, DriverOK, ReviewOK, DrainUnwired
      <4> QED BY <3>2, <4>1, <4>2
    <3>4. CASE Refuse(k)
      BY <1>1, <3>4 DEF ChatInv, TypeOK, Refuse, OpenTurns
    <3> QED BY <3>1, <3>3, <3>4
  <2> QED BY <1>1, <2>1, <2>2, OnlyAdmissionOpens
<1>2. ChatInv /\ [Next]_vars =>
        [\A i \in Inputs :
           turn[i] = "none" /\ turn'[i] # "none" => ~paused /\ review = "no"]_vars
  BY <1>1
<1> QED BY <1>2, QueueInOrder, PTL DEF Spec, HeldAdmitsNothing

--------------------------------------------------------------------------------
(* What the queue does for its inputs                                         *)

(* Inputs are accepted by their numbers.                                      *)
AcceptedInOrder ==
  \A i, j \in Inputs : i < j /\ status[j] # "new" => status[i] # "new"

(* A row without a Turn is not consumed, one with a Turn is not queued.       *)
TurnsKnown ==
  \A i \in Inputs : IF turn[i] = "none" THEN status[i] \notin {"consumed", "settled"}
                                        ELSE status[i] # "queued"

(* The point is of a Turn that was interrupted; its continuation is an        *)
(* ordinary input.                                                            *)
PointKept ==
  /\ point.state # "none" => turn[point.of] = "interrupted"
  /\ point.by # None => /\ point.state = "resumed"
                        /\ intent[point.by] = "send" /\ status[point.by] # "new"

(* A steer or a follow-up in the queue has its control row.                   *)
ControlKept ==
  \A i \in Inputs : status[i] = "queued" /\ intent[i] # "send" => control[i] = "pending"

(* What the driver takes to the gate is next in line there, however long it   *)
(* waits.                                                                     *)
LineKept ==
  /\ driver.outer # None => status[driver.outer] # "new"
  /\ driver.at = "gate1" => Promise!NextInLine(driver.outer)
  /\ driver.at = "gate2" => status[driver.key] # "new" /\ Promise!NextInLine(driver.key)

LineInv == AcceptedInOrder /\ TurnsKnown /\ PointKept /\ ControlKept /\ LineKept

(* The two modules number inputs alike.                                       *)
LEMMA Names ==
  /\ Promise!Inputs = Inputs /\ Promise!None = None /\ Promise!Ended = Ended
  /\ Inputs \subseteq Nat /\ None \notin Inputs
BY ChatQueueAssumption DEF Promise!Inputs, Inputs, Promise!None, None, Promise!Ended, Ended

(* An input stays next in line while nobody joins the line ahead of it.       *)
LEMMA LineStays ==
  ASSUME NEW k \in Inputs, Promise!NextInLine(k),
         k = point.by => point'.by = point.by,
         \A j \in Inputs : j < k /\ StageOf(j)' \in {"queued", "blocked"} =>
                             StageOf(j) \in {"queued", "blocked"},
         \A j \in Inputs : j < k /\ StageOf(j)' = "queued" =>
                             StageOf(j) = "queued" \/ intent[j] = "send",
         intent'[k] = intent[k], \A j \in Inputs : j < k => intent'[j] = intent[j]
  PROVE  Promise!NextInLine(k)'
BY Names DEF Promise!NextInLine, Promise!In

(* The loop takes who is next in line.                                        *)
LEMMA LoopLine ==
  ASSUME TypeOK, NEW st, st = status', NEW stopped \in BOOLEAN, EnterLoop(st, stopped),
         UNCHANGED <<turn, intent, point>>, driver'.at = "gate1",
         NEW k, k = driver'.outer
  PROVE  k \in Inputs /\ status'[k] = "queued" /\ Promise!NextInLine(k)'
<1>1. /\ Pending(st) # {} /\ st[NextEntry(st)] = "queued"
      /\ driver' = [Off EXCEPT !.at = "gate1", !.outer = NextEntry(st)]
  BY DEF EnterLoop, Off
<1>2. k = NextEntry(st)
  BY <1>1 DEF Off
<1>3. CASE NextEntry(st) = point.by /\ point.by \in Pending(st)
  BY <1>1, <1>2, <1>3 DEF Promise!NextInLine, Pending
<1>4. CASE NextEntry(st) = Oldest(Pending(st))
  <2>1. \A j \in Pending(st) : Oldest(Pending(st)) <= j
    BY <1>1, OldestIn DEF Pending
  <2>2. Oldest(Pending(st)) \in Inputs
    BY <1>1, OldestIn DEF Pending
  <2>3. ASSUME NEW j \in Inputs, j < Oldest(Pending(st)) PROVE st[j] \notin {"queued", "blocked"}
    <3>0. Oldest(Pending(st)) \in Nat /\ j \in Nat
      BY <2>2, Names
    <3>1. ~ (Oldest(Pending(st)) <= j)
      BY <2>3, <3>0
    <3> QED BY <2>1, <3>1 DEF Pending
  <2>4. \A j \in Inputs : turn'[j] \notin {"queued", "blocked"}
    BY DEF TypeOK, Ended
  <2>5. \A j \in Inputs : j < k => StageOf(j)' \notin {"queued", "blocked"}
    BY <1>2, <1>4, <2>3, <2>4 DEF StageOf
  <2>6. status'[k] = "queued" /\ k \in Inputs
    BY <1>1, <1>2, <1>4, <2>2
  <2> QED BY <2>5, <2>6, Names DEF Promise!NextInLine
<1> QED BY <1>3, <1>4 DEF NextEntry

(* A loop that goes on has an open queue; one that ends has none, or a pause. *)
LEMMA LoopHolds ==
  ASSUME NEW st, NEW stopped \in BOOLEAN, EnterLoop(st, stopped)
  PROVE  stopped => paused'
BY DEF EnterLoop

(* Steps that leave the rows and the point alone keep everybody's place; what *)
(* they change of the hold, somebody may.                                     *)
LEMMA SameLine ==
  ASSUME LineInv, UNCHANGED <<rows, point>>
  PROVE  /\ AcceptedInOrder' /\ TurnsKnown' /\ PointKept' /\ ControlKept'
         /\ \A k \in Inputs : Promise!NextInLine(k) => Promise!NextInLine(k)'
<1>1. AcceptedInOrder' /\ TurnsKnown' /\ ControlKept'
  BY DEF LineInv, AcceptedInOrder, TurnsKnown, ControlKept, rows
<1>2. PointKept'
  BY DEF LineInv, PointKept, rows
<1>3. \A k \in Inputs : Promise!NextInLine(k) => Promise!NextInLine(k)'
  BY LineStays DEF StageOf, rows
<1> QED BY <1>1, <1>2, <1>3

(* ... and are a hold, a release or nothing to the promise.                   *)
LEMMA QuietPromise ==
  ASSUME TypeOK, UNCHANGED <<rows, point>>
  PROVE  Promise!Next \/ UNCHANGED Promise!vars
<1>1. Held' = Held \/ Held' = TRUE \/ Held' = FALSE
  BY DEF Held
<1>2. UNCHANGED <<[i \in Inputs |-> StageOf(i)], intent, point.by>>
  BY DEF StageOf, rows
<1> QED BY <1>1, <1>2 DEF Promise!Next, Promise!Hold, Promise!Go, Promise!vars

(* A driver that stays, or leaves the gates, holds no new input.              *)
LEMMA PlaceKept ==
  ASSUME ChatInv, LineInv, UNCHANGED <<rows, point>>,
         driver' = driver \/ /\ driver'.at \notin {"gate1", "gate2"}
                             /\ driver'.outer \in {driver.outer, None}
  PROVE  LineInv'
<1>1. LineKept'
  <2>1. CASE driver' = driver
    BY <2>1, SameLine DEF ChatInv, DriverOK, LineInv, LineKept, rows
  <2>2. CASE driver'.at \notin {"gate1", "gate2"} /\ driver'.outer \in {driver.outer, None}
    BY <2>2 DEF LineInv, LineKept, rows
  <2> QED BY <2>1, <2>2
<1> QED BY <1>1, SameLine DEF LineInv

(* The commands and steps that write no row.                                  *)
LEMMA QuietKeeps ==
  ASSUME ChatInv, LineInv,
         Discover \/ Resume \/ ResolveResume \/ TaskResume \/ SwitchConfig \/ StoppedAtGate
           \/ GateResume \/ DrainWired \/ AfterResume \/ OtherEnters \/ OtherLeaves \/ Crash
           \/ UNCHANGED vars
  PROVE  LineInv' /\ (Promise!Next \/ UNCHANGED Promise!vars)
<1>1. UNCHANGED <<rows, point>>
  BY DEF Discover, Resume, ResolveResume, TaskResume, SwitchConfig, StoppedAtGate, GateResume,
     DrainWired, AfterResume, OtherEnters, OtherLeaves, Crash, vars, rows
<1>2. \/ driver' = driver
      \/ driver'.at \notin {"gate1", "gate2"} /\ driver'.outer \in {driver.outer, None}
  <2>1. CASE \/ Discover \/ TaskResume \/ SwitchConfig \/ OtherEnters \/ OtherLeaves
             \/ UNCHANGED vars
    BY <2>1, Zenon DEF Discover, TaskResume, SwitchConfig, OtherEnters, OtherLeaves, vars
  <2>2. CASE Resume \/ ResolveResume \/ StoppedAtGate \/ AfterResume \/ Crash
    BY <2>2 DEF Resume, ResolveResume, StoppedAtGate, AfterResume, Crash, Off
  <2>3. CASE GateResume \/ DrainWired
    BY <2>3 DEF ChatInv, TypeOK, GateResume, DrainWired
  <2> QED BY <2>1, <2>2, <2>3
<1> QED BY <1>1, <1>2, PlaceKept, QuietPromise DEF ChatInv

(* The loop takes its next entry.                                             *)
LEMMA HeadLine ==
  ASSUME ChatInv, LineInv, Head
  PROVE  LineInv' /\ (Promise!Next \/ UNCHANGED Promise!vars)
<1>1. UNCHANGED <<rows, point>> /\ UNCHANGED <<turn, intent, point>> /\ status' = status
  BY DEF Head, rows
<1>2. EnterLoop(status, paused) /\ paused \in BOOLEAN
  BY DEF Head, ChatInv, TypeOK
<1>3. CASE driver' = Off
  BY <1>1, <1>3, PlaceKept, QuietPromise DEF ChatInv, Off
<1>4. CASE driver'.at = "gate1"
  <2>0. PICK k : k = driver'.outer
    OBVIOUS
  <2>1. k \in Inputs /\ status'[k] = "queued" /\ Promise!NextInLine(k)'
    BY <1>1, <1>2, <1>4, <2>0, LoopLine DEF ChatInv
  <2>2. LineKept'
    BY <1>4, <2>0, <2>1 DEF LineKept, Promise!NextInLine
  <2> QED BY <1>1, <2>2, SameLine, QuietPromise DEF LineInv, ChatInv
<1>5. driver' = Off \/ driver'.at = "gate1"
  BY <1>2 DEF EnterLoop, Off
<1> QED BY <1>3, <1>4, <1>5

(* Who is next in line at the first gate is so at the second.                 *)
LEMMA GateOneLine ==
  ASSUME ChatInv, LineInv, GateOne
  PROVE  LineInv' /\ (Promise!Next \/ UNCHANGED Promise!vars)
<1>1. UNCHANGED <<rows, point>>
  BY DEF GateOne
<1>2. driver.at = "gate1" /\ driver.outer \in Inputs /\ driver.outer # None
  BY Names DEF GateOne, ChatInv, DriverOK
<1>3. driver'.at = "gate2" /\ driver'.outer = driver.outer /\ driver'.key = driver.outer
  BY DEF GateOne, ChatInv, TypeOK
<1>4. LineKept'
  BY <1>1, <1>2, <1>3, SameLine DEF LineInv, LineKept, rows
<1> QED BY <1>1, <1>4, SameLine, QuietPromise DEF LineInv, ChatInv

(* A control that is taken up is the first of its kind.                       *)
LEMMA ControlNext ==
  ASSUME ChatInv, LineInv, NEW k \in NextControl
  PROVE  k \in Inputs /\ status[k] # "new" /\ intent[k] # "send" /\ Promise!NextInLine(k)
<1>1. PICK kind \in {"steer", "follow_up"} : Waiting(kind) # {} /\ k = Oldest(Waiting(kind))
  BY DEF NextControl
<1>2. /\ k \in Inputs /\ control[k] = "pending" /\ intent[k] = kind
      /\ \A j \in Waiting(kind) : k <= j
  BY <1>1, OldestIn DEF Waiting
<1>3. status[k] # "new"
  BY <1>2 DEF ChatInv, NoGhostControl, Unconsumed, Pending
<1>4. ASSUME NEW j \in Inputs, StageOf(j) = "queued", j < k PROVE intent[j] # kind
  <2>1. status[j] = "queued"
    BY <1>4 DEF StageOf, ChatInv, TypeOK, Ended
  <2>2. intent[j] = kind => j \in Waiting(kind)
    BY <1>1, <2>1 DEF LineInv, ControlKept, Waiting
  <2>3. k \in Nat /\ j \in Nat
    BY <1>2, Names
  <2> QED BY <1>2, <1>4, <2>2, <2>3
<1> QED BY <1>1, <1>2, <1>3, <1>4, Names DEF Promise!NextInLine, Promise!In

(* A drained control waits for the gate as the first of its kind.             *)
LEMMA DrainLine ==
  ASSUME ChatInv, LineInv, Drain
  PROVE  LineInv' /\ (Promise!Next \/ UNCHANGED Promise!vars)
<1>1. UNCHANGED <<rows, point>>
  BY DEF Drain
<1>2. PICK k \in NextControl : driver' = [driver EXCEPT !.at = "gate2", !.key = k]
  BY DEF Drain
<1>3. driver'.at = "gate2" /\ driver'.outer = driver.outer /\ driver'.key = k
  BY <1>2 DEF ChatInv, TypeOK
<1>4. LineKept'
  BY <1>1, <1>3, ControlNext, SameLine DEF LineInv, LineKept, rows
<1> QED BY <1>1, <1>4, SameLine, QuietPromise DEF LineInv, ChatInv
(* The driver keeps its place while accepted inputs only leave the line, but  *)
(* for a blocked ordinary one that joins it again.                            *)
LEMMA PlaceStays ==
  ASSUME ChatInv, LineInv,
         \/ driver'.at = driver.at /\ driver'.outer = driver.outer /\ driver'.key = driver.key
         \/ driver'.at \notin {"gate1", "gate2"} /\ driver'.outer \in {driver.outer, None},
         point.by \in Inputs => point'.by = point.by,
         \A j \in Inputs : status[j] # "new" =>
            /\ status'[j] # "new" /\ intent'[j] = intent[j]
            /\ StageOf(j)' \in {"queued", "blocked"} => StageOf(j) \in {"queued", "blocked"}
            /\ StageOf(j)' = "queued" => StageOf(j) = "queued" \/ intent[j] = "send"
  PROVE  LineKept'
<1>1. /\ driver.outer \in Inputs \cup {None}
      /\ driver.at = "gate1" => driver.outer \in Inputs
      /\ driver.at = "gate2" => driver.key \in Inputs
  BY DEF ChatInv, TypeOK, DriverOK
<1>2. driver'.outer # None => status'[driver'.outer] # "new"
  BY <1>1 DEF LineInv, LineKept
<1>3. ASSUME NEW k \in Inputs, status[k] # "new", Promise!NextInLine(k)
      PROVE  status'[k] # "new" /\ Promise!NextInLine(k)'
  <2>1. \A j \in Inputs : j < k => status[j] # "new"
    BY <1>3 DEF LineInv, AcceptedInOrder
  <2> QED BY <1>3, <2>1, LineStays
<1>4. CASE driver'.at = driver.at /\ driver'.outer = driver.outer /\ driver'.key = driver.key
  <2>0. PICK o, k : o = driver.outer /\ k = driver.key
    OBVIOUS
  <2>1. driver.at = "gate1" => Promise!NextInLine(o)'
    BY <1>1, <1>3, <2>0, Names DEF LineInv, LineKept
  <2>2. driver.at = "gate2" => status'[k] # "new" /\ Promise!NextInLine(k)'
    BY <1>1, <1>3, <2>0 DEF LineInv, LineKept
  <2> QED BY <1>2, <1>4, <2>0, <2>1, <2>2 DEF LineKept, Promise!NextInLine
<1>5. CASE driver'.at \notin {"gate1", "gate2"}
  BY <1>2, <1>5 DEF LineKept
<1> QED BY <1>4, <1>5
(* A Turn shows in the stage of its input.                                    *)
LEMMA StagesKnown ==
  ASSUME ChatInv, NEW j \in Inputs
  PROVE  /\ StageOf(j) \in {"queued", "blocked"} <=> j \in Unconsumed
         /\ StageOf(j) = "open" <=> j \in OpenTurns
         /\ StageOf(j) = "new" <=> status[j] = "new"
         /\ turn[j] \in Ended => StageOf(j) = turn[j]
BY DEF ChatInv, TypeOK, NewOK, StageOf, Unconsumed, Pending, OpenTurns, Ended

(* A new input joins the line behind all others, or as the continuation.      *)
LEMMA SubmitLine ==
  ASSUME ChatInv, LineInv, NEW i \in Inputs, NEW kind \in {"send", "steer", "follow_up"},
         Submit(i, kind)
  PROVE  LineInv' /\ (Promise!Next \/ UNCHANGED Promise!vars)
<1>1. /\ status[i] = "new" /\ \A j \in Inputs : j < i => status[j] # "new"
      /\ kind # "send" => OpenTurns # {} /\ ~Interrupted
      /\ status' = [status EXCEPT ![i] = "queued"] /\ intent' = [intent EXCEPT ![i] = kind]
      /\ control' = [control EXCEPT ![i] = IF kind = "send" THEN "none" ELSE "pending"]
      /\ turn' = turn /\ review' = review
  BY DEF Submit, ActiveRun
<1>2. turn[i] = "none"
  BY <1>1 DEF ChatInv, NewOK
<1>3. /\ AcceptedInOrder' /\ TurnsKnown' /\ ControlKept'
  BY <1>1, <1>2, Names DEF ChatInv, TypeOK, LineInv, AcceptedInOrder, TurnsKnown, ControlKept
<1>4. \/ ~Interrupted /\ point' = point /\ paused' = paused
      \/ /\ Interrupted /\ kind = "send" /\ point' = [point EXCEPT !.state = "resumed", !.by = i]
         /\ paused' = FALSE
  BY <1>1 DEF Submit, ChatInv, TypeOK
<1>5. Interrupted => point.by = None /\ point.of \in Inputs /\ turn[point.of] = "interrupted"
  BY DEF LineInv, PointKept, Interrupted, ChatInv, PointOK
<1>6. PointKept'
  <2>1. CASE ~Interrupted /\ point' = point
    BY <1>1, <2>1 DEF ChatInv, TypeOK, LineInv, PointKept
  <2>2. CASE Interrupted /\ kind = "send" /\ point' = [point EXCEPT !.state = "resumed", !.by = i]
    <3>1. point'.state = "resumed" /\ point'.of = point.of /\ point'.by = i
      BY <2>2 DEF ChatInv, TypeOK
    <3>2. status'[i] = "queued" /\ intent'[i] = "send"
      BY <1>1, <2>2 DEF ChatInv, TypeOK
    <3> QED BY <1>1, <1>5, <2>2, <3>1, <3>2 DEF PointKept
  <2> QED BY <1>4, <2>1, <2>2
<1>7. LineKept'
  <2>1. \/ driver' = driver
        \/ driver'.at \notin {"gate1", "gate2"} /\ driver'.outer \in {driver.outer, None}
    BY DEF Submit, Wake, Off
  <2>2. \A j \in Inputs : status[j] # "new" =>
          /\ status'[j] # "new" /\ intent'[j] = intent[j]
          /\ StageOf(j)' \in {"queued", "blocked"} => StageOf(j) \in {"queued", "blocked"}
          /\ StageOf(j)' = "queued" => StageOf(j) = "queued" \/ intent[j] = "send"
    BY <1>1 DEF StageOf, ChatInv, TypeOK
  <2>3. point.by \in Inputs => point'.by = point.by
    BY <1>4, <1>5, Names
  <2> QED BY <2>1, <2>2, <2>3, PlaceStays
<1>8. Promise!Accept(i, kind)
  <2>1. [j \in Inputs |-> StageOf(j)]' = [[j \in Inputs |-> StageOf(j)] EXCEPT ![i] = "queued"]
    BY <1>1, <1>2 DEF StageOf, ChatInv, TypeOK
  <2>2. StageOf(i) = "new" /\ \A j \in Inputs : j < i => StageOf(j) # "new"
    BY <1>1, StagesKnown
  <2>3. kind # "send" => Promise!In("open") # {}
    BY <1>1, StagesKnown, Names DEF Promise!In, OpenTurns
  <2>4. CASE ~Interrupted /\ point' = point /\ paused' = paused
    BY <1>1, <2>1, <2>2, <2>3, <2>4, Names DEF Promise!Accept, Held
  <2>5. CASE /\ Interrupted /\ kind = "send" /\ paused' = FALSE
             /\ point' = [point EXCEPT !.state = "resumed", !.by = i]
    <3>1. StageOf(point.of) = "interrupted"
      BY <1>5, <2>5, StagesKnown DEF Ended
    <3>2. Promise!In("interrupted") # {}
      BY <1>5, <2>5, <3>1, Names DEF Promise!In
    <3>3. point'.by = i /\ Held' \in {Held, FALSE}
      BY <1>1, <2>5 DEF Held, ChatInv, TypeOK
    <3> QED BY <1>1, <1>5, <2>1, <2>2, <2>3, <2>5, <3>2, <3>3, Names DEF Promise!Accept
  <2> QED BY <1>4, <2>4, <2>5
<1> QED BY <1>3, <1>6, <1>7, <1>8, Names DEF LineInv, Promise!Next, Promise!Kinds

(* Whoever is taken back was in the line.                                     *)
LEMMA WithdrawnLine ==
  ASSUME ChatInv, LineInv, NEW S \in SUBSET Unconsumed, Withdrawn(S),
         UNCHANGED <<intent, turn, point>>,
         driver'.at = driver.at, driver'.outer = driver.outer, driver'.key = driver.key,
         Held' = Held \/ Held' = TRUE
  PROVE  LineInv' /\ (Promise!Next \/ UNCHANGED Promise!vars)
<1>1. /\ status' = [i \in Inputs |-> IF i \in S THEN "withdrawn" ELSE status[i]]
      /\ control' = [i \in Inputs |->
            IF i \in S /\ control[i] = "pending" THEN "superseded" ELSE control[i]]
      /\ \A i \in S : i \in Inputs /\ turn[i] = "none" /\ status[i] \in {"queued", "blocked"}
  BY DEF Withdrawn, Unconsumed, Pending
<1>2. AcceptedInOrder' /\ TurnsKnown' /\ ControlKept'
  BY <1>1 DEF LineInv, AcceptedInOrder, TurnsKnown, ControlKept
<1>3. PointKept'
  BY <1>1 DEF ChatInv, TypeOK, LineInv, PointKept
<1>4. LineKept'
  <2>1. \A j \in Inputs : status[j] # "new" =>
          /\ status'[j] # "new" /\ intent'[j] = intent[j]
          /\ StageOf(j)' \in {"queued", "blocked"} => StageOf(j) \in {"queued", "blocked"}
          /\ StageOf(j)' = "queued" => StageOf(j) = "queued" \/ intent[j] = "send"
    BY <1>1 DEF StageOf
  <2> QED BY <2>1, PlaceStays
<1>5. Promise!Withdraw
  <2>1. \A i \in Inputs : \/ StageOf(i)' = StageOf(i)
                          \/ StageOf(i) \in {"queued", "blocked"} /\ StageOf(i)' = "withdrawn"
    BY <1>1 DEF StageOf
  <2> QED BY <2>1, Names DEF Promise!Withdraw
<1> QED BY <1>2, <1>3, <1>4, <1>5 DEF LineInv, Promise!Next

(* By the user, one input ...                                                 *)
LEMMA WithdrawLine ==
  ASSUME ChatInv, LineInv, NEW i \in Inputs, Withdraw(i)
  PROVE  LineInv' /\ (Promise!Next \/ UNCHANGED Promise!vars)
<1>1. {i} \in SUBSET Unconsumed /\ Withdrawn({i}) /\ Held' = Held
  BY DEF Withdraw, Held
<1> QED BY <1>1, WithdrawnLine DEF Withdraw

(* ... or all of them, with a pause.                                          *)
LEMMA StopLine ==
  ASSUME ChatInv, LineInv, NEW S \in SUBSET Inputs, Stop(S)
  PROVE  LineInv' /\ (Promise!Next \/ UNCHANGED Promise!vars)
<1>1. S \in SUBSET Unconsumed /\ Withdrawn(S) /\ Held' = TRUE
  BY DEF Stop, Held
<1>2. driver'.at = driver.at /\ driver'.outer = driver.outer /\ driver'.key = driver.key
  BY DEF Stop, ChatInv, TypeOK
<1> QED BY <1>1, <1>2, WithdrawnLine DEF Stop

(* A blocked continuation that joins the line again is an ordinary input.     *)
LEMMA ContinueLine ==
  ASSUME ChatInv, LineInv, Continue
  PROVE  LineInv' /\ (Promise!Next \/ UNCHANGED Promise!vars)
<1> DEFINE again == point.by # None /\ status[point.by] = "blocked" /\ turn[point.by] = "none"
<1>1. /\ status' = IF again THEN [status EXCEPT ![point.by] = "queued"] ELSE status
      /\ UNCHANGED <<intent, turn, control, point>> /\ paused' = FALSE /\ review' = review
  BY DEF Continue
<1>2. point.by # None => point.by \in Inputs /\ intent[point.by] = "send"
  BY DEF ChatInv, TypeOK, LineInv, PointKept
<1>3. /\ AcceptedInOrder' /\ TurnsKnown' /\ PointKept' /\ ControlKept'
  BY <1>1, <1>2 DEF ChatInv, TypeOK, LineInv, AcceptedInOrder, TurnsKnown, PointKept, ControlKept
<1>4. LineKept'
  <2>1. \/ driver' = driver
        \/ driver'.at \notin {"gate1", "gate2"} /\ driver'.outer \in {driver.outer, None}
    BY DEF Continue, Wake, Off
  <2>2. \A j \in Inputs : status[j] # "new" =>
          /\ status'[j] # "new" /\ intent'[j] = intent[j]
          /\ StageOf(j)' \in {"queued", "blocked"} => StageOf(j) \in {"queued", "blocked"}
          /\ StageOf(j)' = "queued" => StageOf(j) = "queued" \/ intent[j] = "send"
    BY <1>1, <1>2 DEF StageOf, ChatInv, TypeOK
  <2> QED BY <1>1, <2>1, <2>2, PlaceStays
<1>5. Promise!Go
  <2>1. Held' \in {Held, FALSE}
    BY <1>1 DEF Held, ChatInv, TypeOK
  <2>2. CASE again
    <3>1. /\ [j \in Inputs |-> StageOf(j)]'
               = [[j \in Inputs |-> StageOf(j)] EXCEPT ![point.by] = "queued"]
          /\ StageOf(point.by) = "blocked" /\ point.by \in Inputs
      BY <1>1, <1>2, <2>2 DEF StageOf, ChatInv, TypeOK
    <3> QED BY <1>1, <2>1, <3>1, Names DEF Promise!Go, Promise!In
  <2>3. CASE ~again
    <3>1. UNCHANGED [j \in Inputs |-> StageOf(j)]
      BY <1>1, <2>3 DEF StageOf
    <3> QED BY <1>1, <2>1, <3>1 DEF Promise!Go
  <2> QED BY <2>2, <2>3
<1> QED BY <1>3, <1>4, <1>5 DEF LineInv, Promise!Next
(* The open Turn ends, and nothing but its input changes its stage.           *)
LEMMA EndPromised ==
  ASSUME ChatInv, NEW how \in Ended, OpenTurns # {},
         turn' = [i \in Inputs |-> IF i \in OpenTurns THEN how ELSE turn[i]],
         \A i \in Inputs : turn[i] = "none" => status'[i] = status[i],
         how = "steered" => Waiting("steer") # {},
         \/ how # "interrupted" /\ UNCHANGED <<point, Held>>
         \/ how = "interrupted" /\ point'.by = None /\ Held' = TRUE,
         UNCHANGED intent
  PROVE  Promise!Next
<1>1. PICK i \in Inputs : OpenTurns = {i}
  BY DEF ChatInv, OneOpenTurn, OpenTurns
<1>2. StageOf(i) = "open" /\ turn[i] = "open"
  BY <1>1 DEF StageOf, OpenTurns
<1>3. [j \in Inputs |-> StageOf(j)]' = [[j \in Inputs |-> StageOf(j)] EXCEPT ![i] = how]
  BY <1>1, <1>2 DEF StageOf, Ended
<1>4. how = "steered" =>
        \E j \in Inputs : intent[j] = "steer" /\ StageOf(j) \in {"queued", "blocked"}
  <2>1. ASSUME NEW j \in Waiting("steer")
        PROVE  j \in Inputs /\ intent[j] = "steer" /\ StageOf(j) \in {"queued", "blocked"}
    BY StagesKnown DEF ChatInv, NoGhostControl, Waiting
  <2> QED BY <2>1
<1>5. Promise!End(i, how)
  BY <1>2, <1>3, <1>4, Names DEF Promise!End
<1> QED BY <1>5, Names DEF Promise!Next

(* A report is of an open Turn, so that its abort ends one.                   *)
LEMMA ResolveAbortLine ==
  ASSUME ChatInv, LineInv, ResolveAbort
  PROVE  LineInv' /\ (Promise!Next \/ UNCHANGED Promise!vars)
<1>1. /\ turn' = [i \in Inputs |-> IF i \in OpenTurns THEN "cancelled" ELSE turn[i]]
      /\ UNCHANGED <<status, intent, control, point, driver>> /\ Held' = TRUE /\ Held = TRUE
  BY DEF ResolveAbort, Held
<1>2. AcceptedInOrder' /\ TurnsKnown' /\ ControlKept'
  BY <1>1 DEF LineInv, AcceptedInOrder, TurnsKnown, ControlKept, OpenTurns
<1>3. PointKept'
  BY <1>1 DEF ChatInv, PointOK, TypeOK, LineInv, PointKept, OpenTurns
<1>4. LineKept'
  <2>1. \A j \in Inputs : status[j] # "new" =>
          /\ status'[j] # "new" /\ intent'[j] = intent[j]
          /\ StageOf(j)' \in {"queued", "blocked"} => StageOf(j) \in {"queued", "blocked"}
          /\ StageOf(j)' = "queued" => StageOf(j) = "queued" \/ intent[j] = "send"
    BY <1>1 DEF StageOf, OpenTurns
  <2> QED BY <1>1, <2>1, PlaceStays
<1>5. Promise!Next
  <2>1. OpenTurns # {} /\ "cancelled" \in Ended
    BY DEF ResolveAbort, ChatInv, ReviewOK, Ended
  <2> QED BY <1>1, <2>1, EndPromised
<1> QED BY <1>2, <1>3, <1>4, <1>5 DEF LineInv

(* The Turn of the driver ends; an interruption holds the queue.              *)
LEMMA FinishLine ==
  ASSUME ChatInv, LineInv, NEW how \in Ended, driver.at = "turn", Finish(how),
         how = "steered" => Waiting("steer") # {}
  PROVE  LineInv' /\ (Promise!Next \/ UNCHANGED Promise!vars)
<1>1. /\ driver.key \in Inputs /\ turn[driver.key] = "open" /\ OpenTurns = {driver.key}
  BY DEF ChatInv, DriverOK, OneOpenTurn, OpenTurns
<1>2. /\ turn' = [turn EXCEPT ![driver.key] = how]
      /\ status' = [status EXCEPT ![driver.key] = "settled"]
      /\ UNCHANGED <<intent, control, review>>
  BY DEF Finish
<1>3. \/ how # "interrupted" /\ point' = point /\ paused' = paused
      \/ /\ how = "interrupted" /\ paused' = TRUE
         /\ point' = [state |-> "suspended", of |-> driver.key, by |-> None]
  BY DEF Finish, ChatInv, TypeOK
<1>4. AcceptedInOrder' /\ TurnsKnown' /\ ControlKept'
  <2>1. status[driver.key] # "new"
    BY <1>1 DEF ChatInv, NewOK
  <2> QED BY <1>1, <1>2, <2>1 DEF ChatInv, TypeOK, LineInv, AcceptedInOrder, TurnsKnown,
     ControlKept, Ended
<1>5. PointKept'
  <2>1. CASE how # "interrupted" /\ point' = point
    BY <1>1, <1>2, <2>1 DEF ChatInv, PointOK, TypeOK, LineInv, PointKept
  <2>2. CASE /\ how = "interrupted"
             /\ point' = [state |-> "suspended", of |-> driver.key, by |-> None]
    BY <1>1, <1>2, <2>2 DEF ChatInv, TypeOK, PointKept
  <2> QED BY <1>3, <2>1, <2>2
<1>6. LineKept'
  <2>1. driver'.at \notin {"gate1", "gate2"} /\ driver'.outer = driver.outer
    BY DEF Finish, ChatInv, TypeOK
  <2>2. driver.outer \in Inputs /\ status[driver.outer] # "new" => status'[driver.outer] # "new"
    BY <1>1, <1>2 DEF ChatInv, TypeOK
  <2> QED BY <2>1, <2>2 DEF ChatInv, TypeOK, LineInv, LineKept
<1>7. Promise!Next
  <2>1. turn' = [i \in Inputs |-> IF i \in OpenTurns THEN how ELSE turn[i]]
    BY <1>1, <1>2 DEF ChatInv, TypeOK
  <2>2. \A i \in Inputs : turn[i] = "none" => status'[i] = status[i]
    BY <1>1, <1>2 DEF ChatInv, TypeOK
  <2>3. \/ how # "interrupted" /\ UNCHANGED <<point, Held>>
        \/ how = "interrupted" /\ point'.by = None /\ Held' = TRUE
    BY <1>2, <1>3 DEF Held
  <2> QED BY <1>1, <1>2, <2>1, <2>2, <2>3, EndPromised
<1> QED BY <1>4, <1>5, <1>6, <1>7 DEF LineInv

(* ... for a steer only if one waits, which is in the line then.              *)
LEMMA EndTurnLine ==
  ASSUME ChatInv, LineInv, EndTurn \/ StopTurn
  PROVE  LineInv' /\ (Promise!Next \/ UNCHANGED Promise!vars)
<1>1. PICK how \in Ended : /\ driver.at = "turn" /\ Finish(how)
                           /\ how = "steered" => Waiting("steer") # {}
  BY Zenon DEF EndTurn, StopTurn, Ended
<1> QED BY <1>1, FinishLine

(* An admission opens the Turn of who is next in line, in an open queue.      *)
LEMMA AdmitLine ==
  ASSUME ChatInv, LineInv, NEW k \in Inputs, Admit(k), ~paused, review # "found",
         Promise!NextInLine(k), UNCHANGED <<intent, paused, point, review>>
  PROVE  LineInv' /\ (Promise!Next \/ UNCHANGED Promise!vars)
<1>1. /\ OpenTurns = {} /\ status[k] = "queued" /\ review # "marked"
      /\ status' = [status EXCEPT ![k] = "consumed"] /\ turn' = [turn EXCEPT ![k] = "open"]
      /\ control' = [control EXCEPT ![k] = IF @ = "pending" THEN "consumed" ELSE @]
  BY DEF Admit, Admissible
<1>2. turn[k] = "none"
  BY <1>1 DEF LineInv, TurnsKnown
<1>3. AcceptedInOrder' /\ TurnsKnown' /\ ControlKept'
  BY <1>1, <1>2 DEF ChatInv, TypeOK, LineInv, AcceptedInOrder, TurnsKnown, ControlKept
<1>4. PointKept'
  BY <1>1, <1>2 DEF ChatInv, PointOK, TypeOK, LineInv, PointKept
<1>5. LineKept'
  <2>1. driver'.at \notin {"gate1", "gate2"} /\ driver'.outer = driver.outer
    BY DEF Admit, ChatInv, TypeOK
  <2>2. driver.outer \in Inputs /\ status[driver.outer] # "new" => status'[driver.outer] # "new"
    BY <1>1 DEF ChatInv, TypeOK
  <2> QED BY <2>1, <2>2 DEF ChatInv, TypeOK, LineInv, LineKept
<1>6. Promise!Open(k)
  <2>1. StageOf(k) = "queued" /\ ~Held
    BY <1>1, <1>2 DEF StageOf, Held, ChatInv, TypeOK
  <2>2. Promise!In("open") = {}
    BY <1>1, StagesKnown, Names DEF Promise!In
  <2>3. [j \in Inputs |-> StageOf(j)]' = [[j \in Inputs |-> StageOf(j)] EXCEPT ![k] = "open"]
    BY <1>1, <1>2 DEF StageOf, ChatInv, TypeOK
  <2>4. UNCHANGED <<intent, point.by, Held>>
    BY DEF Held
  <2> QED BY <2>1, <2>2, <2>3, <2>4, Names DEF Promise!Open
<1> QED BY <1>3, <1>4, <1>5, <1>6, Names DEF LineInv, Promise!Next

(* A refusal opens none.                                                      *)
LEMMA RefuseLine ==
  ASSUME ChatInv, LineInv, NEW k \in Inputs, Refuse(k),
         UNCHANGED <<intent, paused, point, review>>
  PROVE  LineInv' /\ (Promise!Next \/ UNCHANGED Promise!vars)
<1>1. UNCHANGED Held
  BY DEF Held
<1>2. driver'.at \notin {"gate1", "gate2"} /\ driver'.outer = driver.outer
  BY DEF Refuse, ChatInv, TypeOK
<1>3. control' = control
  BY DEF Refuse
<1>4. CASE /\ turn' = turn
           /\ status' = [i \in Inputs |-> IF i \in OpenTurns THEN "settled" ELSE status[i]]
  <2>1. AcceptedInOrder' /\ TurnsKnown' /\ ControlKept' /\ PointKept'
    BY <1>3, <1>4 DEF ChatInv, TypeOK, NewOK, LineInv, AcceptedInOrder, TurnsKnown, ControlKept,
       PointKept, OpenTurns
  <2>2. LineKept'
    BY <1>2, <1>4 DEF ChatInv, TypeOK, LineInv, LineKept
  <2>3. UNCHANGED [i \in Inputs |-> StageOf(i)]
    BY <1>4 DEF StageOf, OpenTurns
  <2> QED BY <1>1, <2>1, <2>2, <2>3 DEF LineInv, Promise!vars
<1>5. CASE /\ status' = status
           /\ turn' = [i \in Inputs |-> IF i \in OpenTurns THEN "error" ELSE turn[i]]
  <2>1. AcceptedInOrder' /\ TurnsKnown' /\ ControlKept'
    BY <1>3, <1>5 DEF LineInv, AcceptedInOrder, TurnsKnown, ControlKept, OpenTurns
  <2>2. PointKept'
    BY <1>5 DEF ChatInv, PointOK, TypeOK, LineInv, PointKept, OpenTurns
  <2>3. LineKept'
    BY <1>2, <1>5 DEF LineInv, LineKept
  <2>4. CASE OpenTurns = {}
    <3>1. UNCHANGED [i \in Inputs |-> StageOf(i)]
      BY <1>5, <2>4 DEF StageOf
    <3> QED BY <1>1, <2>1, <2>2, <2>3, <3>1 DEF LineInv, Promise!vars
  <2>5. CASE OpenTurns # {}
    <3>1. "error" \in Ended
      BY DEF Ended
    <3>2. Promise!Next
      BY <1>1, <1>5, <2>5, <3>1, EndPromised
    <3> QED BY <2>1, <2>2, <2>3, <3>2 DEF LineInv
  <2> QED BY <2>4, <2>5
<1> QED BY <1>4, <1>5 DEF Refuse
(* At the gate of the Turn nobody has come ahead, and nobody has paused.      *)
LEMMA GateTwoLine ==
  ASSUME ChatInv, LineInv, GateTwo
  PROVE  LineInv' /\ (Promise!Next \/ UNCHANGED Promise!vars)
<1>1. UNCHANGED <<intent, paused, point, review>>
  BY DEF GateTwo
<1>2. driver.at = "gate2" /\ ~driver.stop
  BY DEF GateTwo
<1>3. PICK k : k = driver.key
  OBVIOUS
<1>4. k \in Inputs /\ ~paused /\ review # "found" /\ Promise!NextInLine(k)
  BY <1>2, <1>3 DEF ChatInv, DriverOK, ReviewOK, LineInv, LineKept
<1>5. Admit(k) \/ Refuse(k)
  BY <1>3 DEF GateTwo
<1> QED BY <1>1, <1>4, <1>5, AdmitLine, RefuseLine

(* The same inside the gate of a resumption.                                  *)
LEMMA DrainUnwiredLine ==
  ASSUME ChatInv, LineInv, DrainUnwired
  PROVE  LineInv' /\ (Promise!Next \/ UNCHANGED Promise!vars)
<1>1. PICK k \in NextControl : Admit(k) \/ Refuse(k)
  BY DEF DrainUnwired
<1>2. k \in Inputs /\ ~paused /\ Promise!NextInLine(k)
  BY NextControlIn, ControlNext DEF ChatInv
<1>3. review # "found" /\ UNCHANGED <<intent, paused, point, review>>
  BY DEF ChatInv, DriverOK, ReviewOK, DrainUnwired
<1> QED BY <1>1, <1>2, <1>3, AdmitLine, RefuseLine

(* A failure blocks the entry of the loop, unless it has a Turn by now, and   *)
(* holds the queue.                                                           *)
LEMMA EntryLine ==
  ASSUME ChatInv, LineInv, driver.outer \in Inputs, NEW s \in {"blocked", "settled"},
         status' = [status EXCEPT ![driver.outer] = s],
         s = "settled" => turn[driver.outer] # "none",
         UNCHANGED <<intent, turn, control, point>>,
         turn[driver.outer] = "none" => Held' = TRUE,
         LineKept'
  PROVE  LineInv' /\ (Promise!Next \/ UNCHANGED Promise!vars)
<1>1. status[driver.outer] # "new" /\ driver.outer # None
  BY Names DEF LineInv, LineKept
<1>2. AcceptedInOrder' /\ TurnsKnown' /\ PointKept' /\ ControlKept'
  BY <1>1 DEF ChatInv, TypeOK, LineInv, AcceptedInOrder, TurnsKnown, PointKept, ControlKept
<1>3. Held \in BOOLEAN /\ Held' \in BOOLEAN
  BY DEF Held
<1>4. CASE turn[driver.outer] = "none" /\ status[driver.outer] # "blocked"
  <2>1. StageOf(driver.outer) \in {"queued", "withdrawn"} /\ s = "blocked"
    BY <1>1, <1>4 DEF StageOf, ChatInv, TypeOK, LineInv, TurnsKnown
  <2>2. [i \in Inputs |-> StageOf(i)]'
          = [[i \in Inputs |-> StageOf(i)] EXCEPT ![driver.outer] = "blocked"]
    BY <1>4, <2>1 DEF StageOf, ChatInv, TypeOK
  <2>3. Promise!Block(driver.outer)
    BY <1>4, <2>1, <2>2 DEF Promise!Block
  <2> QED BY <1>2, <2>3, Names DEF LineInv, Promise!Next
<1>5. CASE turn[driver.outer] # "none" \/ status[driver.outer] = "blocked"
  <2>1. UNCHANGED [i \in Inputs |-> StageOf(i)]
    BY <1>5 DEF StageOf, ChatInv, TypeOK
  <2>2. Promise!Hold \/ Promise!Go
    BY <1>3, <2>1 DEF Promise!Hold, Promise!Go
  <2> QED BY <1>2, <2>2 DEF LineInv, Promise!Next
<1> QED BY <1>4, <1>5

(* Settings that are not usable any more.                                     *)
LEMMA BlockedLine ==
  ASSUME ChatInv, LineInv, GateOneFails \/ PreCheckFails
  PROVE  LineInv' /\ (Promise!Next \/ UNCHANGED Promise!vars)
<1>1. /\ driver.outer \in Inputs /\ point' = point /\ Blocked(driver.outer)
  BY DEF ChatInv, DriverOK, GateOneFails, PreCheckFails
<1>2. /\ status' = [status EXCEPT ![driver.outer] = "blocked"]
      /\ UNCHANGED <<intent, turn, control>> /\ driver' = Off /\ paused' = TRUE
  BY <1>1 DEF Blocked, EnterLoop
<1>3. LineKept' /\ Held' = TRUE
  BY <1>2 DEF LineKept, Off, Held
<1> QED BY <1>1, <1>2, <1>3, EntryLine

(* The entry is settled; the loop ends, or takes the next one.                *)
LEMMA AfterStreamLine ==
  ASSUME ChatInv, LineInv, AfterStream
  PROVE  LineInv' /\ (Promise!Next \/ UNCHANGED Promise!vars)
<1> DEFINE stopped == paused \/ ~GoesOn(driver.outer)
<1>1. /\ driver.outer \in Inputs
      /\ status' = [status EXCEPT ![driver.outer] = EntrySettled(driver.outer)]
      /\ UNCHANGED <<turn, intent, control, point>>
      /\ EnterLoop(status', stopped) /\ stopped \in BOOLEAN
  BY DEF ChatInv, TypeOK, AfterStream
<1>2. turn[driver.outer] = "none" => Held' = TRUE
  <2>1. turn[driver.outer] = "none" => ~GoesOn(driver.outer)
    BY DEF GoesOn
  <2> QED BY <1>1, <2>1, LoopHolds DEF Held
<1>3. /\ EntrySettled(driver.outer) \in {"blocked", "settled"}
      /\ EntrySettled(driver.outer) = "settled" => turn[driver.outer] # "none"
  BY DEF EntrySettled
<1>4. LineKept'
  <2>1. CASE driver' = Off
    BY <2>1 DEF LineKept, Off
  <2>2. CASE driver'.at = "gate1"
    <3>0. PICK k : k = driver'.outer
      OBVIOUS
    <3>1. PICK st : st = status'
      OBVIOUS
    <3>2. k \in Inputs /\ status'[k] = "queued" /\ Promise!NextInLine(k)'
      <4>1. EnterLoop(st, stopped)
        BY <1>1, <3>1
      <4> QED BY <1>1, <2>2, <3>0, <3>1, <4>1, LoopLine DEF ChatInv
    <3> QED BY <2>2, <3>0, <3>2 DEF LineKept, Promise!NextInLine
  <2>3. driver' = Off \/ driver'.at = "gate1"
    BY <1>1 DEF EnterLoop, Off
  <2> QED BY <2>1, <2>2, <2>3
<1> QED BY <1>1, <1>2, <1>3, <1>4, EntryLine

(* What every step keeps of the line, and what it is of the promise.          *)
LEMMA LineStep ==
  ChatInv /\ LineInv /\ [Next]_vars => LineInv' /\ (Promise!Next \/ UNCHANGED Promise!vars)
<1> SUFFICES ASSUME ChatInv, LineInv, [Next]_vars
             PROVE  LineInv' /\ (Promise!Next \/ UNCHANGED Promise!vars)
  OBVIOUS
<1>1. CASE User
  <2>1. CASE \E i \in Inputs, kind \in {"send", "steer", "follow_up"} : Submit(i, kind)
    BY <2>1, SubmitLine
  <2>2. CASE \E i \in Inputs : Withdraw(i)
    BY <2>2, WithdrawLine
  <2>3. CASE \E S \in SUBSET Inputs : Stop(S)
    BY <2>3, StopLine
  <2>4. CASE Continue \/ ResolveAbort
    BY <2>4, ContinueLine, ResolveAbortLine
  <2> QED BY <1>1, <2>1, <2>2, <2>3, <2>4, QuietKeeps DEF User
<1>2. CASE Driver \/ EndTurn
  <2>1. CASE AtGate
    BY <2>1, GateOneLine, BlockedLine, GateTwoLine, QuietKeeps DEF AtGate
  <2>2. CASE EndTurn \/ StopTurn \/ Head
    BY <2>2, HeadLine, EndTurnLine
  <2>3. CASE Drain \/ DrainUnwired \/ AfterStream
    BY <2>3, DrainLine, DrainUnwiredLine, AfterStreamLine
  <2> QED BY <1>2, <2>1, <2>2, <2>3, QuietKeeps DEF Driver
<1> QED BY <1>1, <1>2, QuietKeeps DEF Next

(* An empty queue has no line.                                                *)
LEMMA InitLine == Init => LineInv /\ Promise!Init
<1> SUFFICES ASSUME Init PROVE LineInv /\ Promise!Init
  OBVIOUS
<1>1. LineInv
  BY DEF Init, LineInv, AcceptedInOrder, TurnsKnown, PointKept, ControlKept, LineKept, Off
<1>2. Promise!Init
  BY Names DEF Init, Promise!Init, StageOf, Held
<1> QED BY <1>1, <1>2

(* A queue keeps the promise of module InputLine, whatever commands race with *)
(* its driver, for any number of inputs, restarts and changes of settings:    *)
(* nobody is taken out of turn, twice, beside another, or from a held queue   *)
(* (submit, withdraw, bind_turn, _drive_unlocked).                            *)
THEOREM LineKeptPromise == Spec => QueueKeepsPromise
<1>1. ChatInv /\ LineInv /\ [Next]_vars => [Promise!Next]_(Promise!vars)
  BY LineStep DEF Promise!vars
<1>2. Init => Promise!Init
  BY InitLine
<1>3. Spec => [](ChatInv /\ LineInv)
  <2>1. Init => ChatInv /\ LineInv
    BY InitChat, InitLine
  <2>2. ChatInv /\ LineInv /\ [Next]_vars => (ChatInv /\ LineInv)'
    BY ChatStep, LineStep
  <2> QED BY <2>1, <2>2, PTL DEF Spec
<1> QED BY <1>1, <1>2, <1>3, PTL DEF Spec, QueueKeepsPromise

=================================================================================
