---------------------------- MODULE MCExecutionGate ----------------------------
(* An instance of ExecutionGate for TLC: two workspaces with disjoint roots   *)
(* and one below the first, a chat driver in each; flow is a workflow driver  *)
(* of the second workspace, whose gate is never confined.                     *)
EXTENDS ExecutionGate

MCGateOf == [t \in Tasks |-> CASE t = "chatA" -> "A"
                               [] t = "chatB" -> "B"
                               [] t = "chatSub" -> "A/sub"
                               [] OTHER -> "B host"]

MCOverlap ==
    {<<g, g>> : g \in Gates} \cup {<<"A", "A/sub">>, <<"A/sub", "A">>,
                                   <<"B", "B host">>, <<"B host", "B">>}

===============================================================================
