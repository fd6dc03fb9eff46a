----------------------------- MODULE AppendOnlyLog -----------------------------
(***************************************************************************)
(* What an event log promises, with no word about writers, transactions,   *)
(* hashes or migrations: one entry is added at a time, at the end, and no  *)
(* entry changes or goes, until the file is broken from outside.           *)
(***************************************************************************)
EXTENDS Naturals, Sequences

VARIABLES
    history,   \* the entries, in their order
    intact     \* whether nobody has reached below the program

vars == <<history, intact>>

Init == intact = TRUE

AddEntry ==
    /\ intact /\ intact'
    /\ Len(history') = Len(history) + 1
    /\ \A n \in 1..Len(history) : history'[n] = history[n]

Break == ~intact'

Next == AddEntry \/ Break

Spec == Init /\ [][Next]_vars
===============================================================================
