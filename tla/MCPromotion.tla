------------------------------ MODULE MCPromotion ------------------------------
(* One candidate learned in a run, which may be proposed inside that run or    *)
(* outside it, a proposer, and two agents that may corroborate or sign.        *)
EXTENDS Promotion, TLC

CONSTANTS w1, r1, r2, a1, a2, a3, agent, ben, cleo, t1, t2, e1, e2, e3

SharedWorkspace == [r \in Runs |-> w1]
LearnedIn == [t \in Targets |-> r1]
Source == [t \in Targets |-> e1]
Proposer == [t \in Targets |-> agent]
===============================================================================
