----------------------------- MODULE GovernedCall -----------------------------
(***************************************************************************)
(* What the platform promises about one call to the outside world, with no *)
(* word about processes, approvals or retries: it is permitted before it   *)
(* is intended, intended before it is performed, performed at most once,   *)
(* and concluded once, as a success only if it was performed.              *)
(***************************************************************************)
EXTENDS Naturals

CONSTANT Calls

VARIABLES
    permission,   \* "undecided", then "granted" or "denied" for good
    intent,       \* whether the durable intent to perform exists
    performed,    \* how often the provider was started
    outcome       \* the one conclusion

vars == <<permission, intent, performed, outcome>>

Init ==
    /\ permission = [c \in Calls |-> "undecided"]
    /\ intent = [c \in Calls |-> FALSE]
    /\ performed = [c \in Calls |-> 0]
    /\ outcome = [c \in Calls |-> "none"]

Permit(c) ==
    /\ permission[c] = "undecided"
    /\ permission' = [permission EXCEPT ![c] = "granted"]
    /\ UNCHANGED <<intent, performed, outcome>>

\* A refusal may be concluded in the step that decides it.
Deny(c) ==
    /\ permission[c] = "undecided"
    /\ permission' = [permission EXCEPT ![c] = "denied"]
    /\ outcome' \in {outcome, [outcome EXCEPT ![c] = "blocked"]}
    /\ UNCHANGED <<intent, performed>>

Intend(c) ==
    /\ permission[c] = "granted"
    /\ ~intent[c]
    /\ intent' = [intent EXCEPT ![c] = TRUE]
    /\ UNCHANGED <<permission, performed, outcome>>

Perform(c) ==
    /\ intent[c]
    /\ performed[c] = 0
    /\ performed' = [performed EXCEPT ![c] = 1]
    /\ UNCHANGED <<permission, intent, outcome>>

\* A permitted call may still be concluded as blocked: its grant was suspended.
Conclude(c, status) ==
    /\ permission[c] # "undecided"
    /\ outcome[c] = "none"
    /\ status # "blocked" => permission[c] = "granted"
    /\ status = "ok" => performed[c] = 1
    /\ outcome' = [outcome EXCEPT ![c] = status]
    /\ UNCHANGED <<permission, intent, performed>>

Next == \E c \in Calls :
    \/ Permit(c) \/ Deny(c) \/ Intend(c) \/ Perform(c)
    \/ \E status \in {"ok", "failed", "blocked"} : Conclude(c, status)

Spec == Init /\ [][Next]_vars
===============================================================================
