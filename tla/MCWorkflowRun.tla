--------------------------- MODULE MCWorkflowRun ---------------------------
(* Two nodes in every shape of plan that matters to the driver.             *)
EXTENDS WorkflowRun

MCNodes == 1..2
Serial == [edges |-> {<<1, 2>>}, readers |-> {}]
Writers == [edges |-> {}, readers |-> {}]
Readers == [edges |-> {}, readers |-> MCNodes]
MCPlans == {Serial, Writers, Readers}

====
