--------------------------- MODULE MCApprovalService ---------------------------
(* The approval queue, and what is built on it, in three foci:                 *)
(*   queue      two runs of one workspace and three approvals of two targets,  *)
(*              which nobody works on                                          *)
(*   promotion  one run and one candidate                                      *)
(*   autonomy   two cleanups that share an entry and a proposal nobody can     *)
(*              apply, with a track record of one to earn the next level       *)
EXTENDS MCPromotion, EarnedAutonomy

CONSTANTS t3, m1, m2, k1, k2

CONSTANT Foci
VARIABLE focus

ByAgent == [o \in Targets |-> agent]
Shared == t1 :> {m1} @@ t2 :> {m1, m2} @@ t3 :> {}
Pair == {t1, t2}
Symmetry == Permutations({a1, a2, a3}) \cup Permutations({ben, cleo}) \cup Permutations({k1, k2})

promotionOnly == <<evidence, memory, resolvedAt, now, lost>>

(* The run and the targets that others use. *)
OneRunOneCandidate ==
    /\ runs'[r2] = runs[r2]
    /\ candidate'[t2] = candidate[t2] /\ candidate'[t3] = candidate[t3]

(* In the queue two principals request and resolve, of two targets. *)
TwoPrincipals ==
    \A a \in Approvals : /\ approvals'[a].by # agent /\ signed'[a].by # agent
                          /\ approvals'[a].target # t3

(* What concerns proposals is done by the agent and one other. *)
OneOther ==
    \E p \in {ben, cleo} :
        /\ \A a \in Approvals : approvals'[a].by # p /\ signed'[a].by # p
        /\ \A o \in Targets : applications'[o].by # p
        /\ \A k \in Cases : cases'[k].by # p

FocusInit ==
    /\ focus \in Foci
    /\ PromotionInit
    /\ AutonomyInit
    /\ focus = "promotion" \/ eligible = {}
    /\ focus = "autonomy" \/ (level = 1 /\ entries = [e \in MemoryEntries |-> "confirmed"])

FocusNext ==
    /\ UNCHANGED focus
    /\ \/ /\ focus = "queue"
          /\ Next
          /\ TwoPrincipals
          /\ UNCHANGED <<promotionOnly, changeVars, dialVars>>
       \/ /\ focus = "promotion"
          /\ PromotionNext
          /\ OneRunOneCandidate
          /\ UNCHANGED <<changeVars, dialVars>>
       \/ /\ focus = "autonomy"
          /\ AutonomyNext
          /\ OneOther
          /\ UNCHANGED promotionOnly

FocusSpec == FocusInit /\ [][FocusNext]_<<promotionVars, changeVars, dialVars, focus>>
===============================================================================
