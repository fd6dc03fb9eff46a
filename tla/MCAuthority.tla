------------------------------ MODULE MCAuthority ------------------------------
(***************************************************************************)
(* Two processes over one custody directory and a registry of one or two   *)
(* principals.  A behaviour is explored with one focus: either what races, *)
(* failures and lost processes do to the custody, while nobody else writes *)
(* to the log; or attesting and revoking, over jobs that come one by one   *)
(* and are not lost.                                                       *)
(***************************************************************************)
EXTENDS Authority, TLC

CONSTANT CustodyEvents    \* a bound: how many events the log takes under the first focus

CONSTANTS r1, r2, q1, t1, t2, t3, p1, p2, x1, x2

VARIABLE focus

FocusInit == Init /\ focus \in {"custody", "authority"}
FocusNext ==
    /\ Next
    /\ UNCHANGED focus
    /\ focus = "custody" => UNCHANGED authorityVars /\ Len(log') <= CustodyEvents /\ ~OtherEvent
    /\ focus = "authority" =>
          /\ ~overlapped' /\ ~abandoned'
          /\ \A p \in Procs : jobs'[p].job # "rotation"
          /\ \/ \A p \in Procs : jobs'[p].job = None
             \/ \A x \in Requests : requests'[x] = None
FocusSpec == FocusInit /\ [][FocusNext]_<<vars, focus>>

Symmetry == Permutations(Roots) \cup Permutations(Tokens) \cup Permutations(Procs)
            \cup Permutations(Requests)
===============================================================================
