-------------------------------- MODULE PlanRun --------------------------------
(* What a workflow run promises of its plan, whatever its driver, its users   *)
(* and other processes do: a node starts only when its predecessors are done; *)
(* nodes work together only if the plan says that they only read; a run that  *)
(* is held has nobody at work and no answer left unpublished, and goes on only*)
(* when it is resumed, or ends because somebody asked for it; nothing done is *)
(* undone, and a run is completed only with all of its plan done.             *)
EXTENDS Naturals

CONSTANTS
    Nodes,
    Plans       \* the graphs a run may have: predecessors, parallel readers

VARIABLES
    plan,
    phase,      \* going, stopping, held, or how the run ended
    asked,      \* somebody asked to cancel the run
    stage       \* stage[n]: waiting, working, resting, answered, done or closed

vars == <<plan, phase, asked, stage>>

Outcomes == {"completed", "failed", "cancelled"}
In(s) == {n \in Nodes : stage[n] = s}

Init ==
    /\ plan \in Plans
    /\ phase = "going" /\ ~asked
    /\ stage = [n \in Nodes |-> "waiting"]

--------------------------------------------------------------------------------
(* The nodes                                                                  *)

Works(n) ==
    /\ phase = "going"
    /\ \A m \in In("working") : {m, n} \subseteq plan.readers
    /\ stage' = [stage EXCEPT ![n] = "working"]
    /\ UNCHANGED <<plan, phase, asked>>

Start(n) ==
    /\ stage[n] = "waiting"
    /\ \A e \in plan.edges : e[2] = n => stage[e[1]] = "done"
    /\ Works(n)

GoOn(n) == stage[n] = "resting" /\ Works(n)

Moves(from, to) ==
    \A n \in Nodes : stage'[n] = stage[n] \/ (stage[n] = from /\ stage'[n] \in to)

(* Turns end, with an answer or without; a cancellation ends those under way. *)
Rest ==
    /\ Moves("working", {"resting", "answered"})
    /\ asked' \in {asked, TRUE} /\ UNCHANGED <<plan, phase>>

Publish == Moves("answered", {"done"}) /\ UNCHANGED <<plan, phase, asked>>

--------------------------------------------------------------------------------
(* The run                                                                    *)

Ask == asked' /\ UNCHANGED <<plan, phase, stage>>

Pause ==
    /\ phase \in {"going", "stopping"}
    /\ \/ phase' = "stopping"
       \/ phase' = "held" /\ In("working") = {} /\ In("answered") = {}
    /\ UNCHANGED <<plan, asked, stage>>

Resume ==
    /\ phase \in {"stopping", "held"} /\ phase' = "going"
    /\ UNCHANGED <<plan, asked, stage>>

(* What is answered may still be published; all else that is not done closes. *)
End ==
    /\ phase \notin Outcomes /\ phase' \in Outcomes
    /\ phase = "held" => asked /\ phase' = "cancelled"
    /\ phase' = "completed" => \A n \in Nodes : stage'[n] = "done"
    /\ \A n \in Nodes :
         \/ stage'[n] = "done" /\ stage[n] \in {"done", "answered"}
         \/ stage'[n] = "closed" /\ stage[n] # "done"
    /\ asked' \in {asked, TRUE} /\ UNCHANGED plan

Next ==
    \/ Rest \/ Publish \/ Ask \/ Pause \/ Resume \/ End
    \/ \E n \in Nodes : Start(n) \/ GoOn(n)

Spec == Init /\ [][Next]_vars

================================================================================
