------------------------------- MODULE InputLine -------------------------------
(* What the queue of a chat Session promises of its inputs, whatever commands *)
(* race with its driver and whenever the host restarts: an input has one Turn *)
(* at most and one Turn is open at a time; inputs are taken in the order they *)
(* came, but for the continuation of an interrupted Turn and for steers and   *)
(* follow-ups, each kind in its own order; a queue that is held gives nobody  *)
(* a Turn until a user lets it go on; an input taken back gets none unless    *)
(* the user continues it; and how a Turn ended is never rewritten.            *)
EXTENDS Naturals

CONSTANT N          \* inputs, numbered in the order they are accepted

Inputs == 1..N
None == 0
Kinds == {"send", "steer", "follow_up"}
Ended == {"stop", "steered", "error", "cancelled", "interrupted"}

VARIABLES
    stage,      \* new, queued, blocked, withdrawn, open, or how its Turn ended
    kind,
    first,      \* the continuation of an interrupted Turn
    held        \* paused, or with something to decide

vars == <<stage, kind, first, held>>

In(s) == {i \in Inputs : stage[i] = s}

Init ==
    /\ stage = [i \in Inputs |-> "new"]
    /\ kind = [i \in Inputs |-> "send"]
    /\ first = None /\ ~held

--------------------------------------------------------------------------------
(* The line                                                                   *)

(* A steer or a follow-up is to a Turn.  The continuation of an interrupted   *)
(* one lets the queue go.                                                     *)
Accept(i, k) ==
    /\ stage[i] = "new" /\ \A j \in Inputs : j < i => stage[j] # "new"
    /\ k # "send" => In("open") # {}
    /\ stage' = [stage EXCEPT ![i] = "queued"]
    /\ kind' = [kind EXCEPT ![i] = k]
    /\ \/ UNCHANGED <<first, held>>
       \/ /\ k = "send" /\ first = None /\ In("interrupted") # {}
          /\ first' = i /\ held' \in {held, FALSE}

Withdraw ==
    /\ \A i \in Inputs :
         \/ stage'[i] = stage[i]
         \/ stage[i] \in {"queued", "blocked"} /\ stage'[i] = "withdrawn"
    /\ held' \in {held, TRUE}
    /\ UNCHANGED <<kind, first>>

(* An input the driver holds may fail after it was withdrawn, and come back.  *)
Block(i) ==
    /\ stage[i] \in {"queued", "withdrawn"}
    /\ stage' = [stage EXCEPT ![i] = "blocked"]
    /\ held' = TRUE
    /\ UNCHANGED <<kind, first>>

Hold == held' = TRUE /\ UNCHANGED <<stage, kind, first>>

(* The user continues the queue, and its continuation if that was blocked.    *)
Go ==
    /\ \/ UNCHANGED stage
       \/ first \in In("blocked") /\ stage' = [stage EXCEPT ![first] = "queued"]
    /\ held' \in {held, FALSE}
    /\ UNCHANGED <<kind, first>>

--------------------------------------------------------------------------------
(* Turns                                                                      *)

(* Next in line: the continuation; whoever has nobody ahead; the first steer  *)
(* or the first follow-up.                                                    *)
NextInLine(i) ==
    \/ i = first
    \/ \A j \in Inputs : j < i => stage[j] \notin {"queued", "blocked"}
    \/ kind[i] # "send" /\ \A j \in In("queued") : j < i => kind[j] # kind[i]

Open(i) ==
    /\ ~held /\ In("open") = {}
    /\ stage[i] = "queued" /\ NextInLine(i)
    /\ stage' = [stage EXCEPT ![i] = "open"]
    /\ UNCHANGED <<kind, first, held>>

(* A Turn ends for a steer only if there is one to take.  An interrupted one  *)
(* holds the queue until it is continued.                                     *)
End(i, how) ==
    /\ stage[i] = "open" /\ how \in Ended
    /\ how = "steered" =>
         \E j \in Inputs : kind[j] = "steer" /\ stage[j] \in {"queued", "blocked"}
    /\ stage' = [stage EXCEPT ![i] = how]
    /\ \/ how # "interrupted" /\ UNCHANGED <<first, held>>
       \/ how = "interrupted" /\ first' = None /\ held' = TRUE
    /\ UNCHANGED kind

Next ==
    \/ \E i \in Inputs, k \in Kinds : Accept(i, k)
    \/ Withdraw \/ Hold \/ Go
    \/ \E i \in Inputs : Block(i) \/ Open(i) \/ \E how \in Ended : End(i, how)

Spec == Init /\ [][Next]_vars

================================================================================
