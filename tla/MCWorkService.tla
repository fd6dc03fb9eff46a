----------------------------- MODULE MCWorkService -----------------------------
(* The record of work on small sets: items, envelopes and outcomes that meet   *)
(* under few keys.                                                             *)
EXTENDS WorkService, TLC

CONSTANTS i1, wk1, e1, e2, k1, k2, o1, o2, t1, r1, ws1, a1, write, alice, bob, auto, target

OneWorkspace == [r \in Runs |-> ws1]
Symmetry == Permutations(Principals) \cup Permutations(Envelopes)
\* Callers choose the keys that are derived for an outcome and for the task.
CallerKeys == {<<"outcome", o1>>, <<"task", t1>>}
Grants == [w \in Workers |-> {write}]
===============================================================================
