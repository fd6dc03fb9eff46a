---------------------------- MODULE MCEarnedAutonomy ----------------------------
(* One cleanup, to earn a level with, and three cases: the fewest that bring   *)
(* the dial back to where it was while a case is open.                         *)
EXTENDS EarnedAutonomy, TLC

CONSTANTS a1, agent, alice, o1, e1, k1, k2, k3

NoRuns == <<>>
OneProposer == o1 :> agent
OneEntry == o1 :> {e1}
===============================================================================
