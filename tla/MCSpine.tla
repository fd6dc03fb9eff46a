-------------------------------- MODULE MCSpine --------------------------------
(* The demo run, driven by two processes of which one may die.  Of each kind   *)
(* of step the script keeps some and leaves out others.                        *)
EXTENDS Spine

CONSTANTS w1, r1, a1, a2, t1, t2, agent, alice, d1, d2

OneRun == [r \in {r1} |-> w1]
Doubles == {"work_created", "coordinator_invoked", "handoff_requested", "task",
            "researcher_invoked", "effect", "artifact", "coordinator_finalized", "researcher_memory",
            "coordinator_memory", "individual_memory_written"}
===============================================================================
