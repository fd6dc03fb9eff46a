---------------------------- MODULE SignedDecisions ----------------------------
(***************************************************************************)
(* Signed governance decisions: governance/decision-signing.ts, as          *)
(* approvals.ts, org/autonomy.ts and org/apply.ts call it.                  *)
(*                                                                         *)
(* A decision moves its row, signs the row as it is stored by then, and     *)
(* commits both or neither.  Its time is the caller's; a row may move again *)
(* later, and what was signed must still be what the row says.              *)
(***************************************************************************)
EXTENDS SigningKeys

CONSTANTS
    Approvals,      \* requests for approval
    Cases,          \* cases for a wider dial
    Applications    \* applications of approved changes

ASSUME DecisionsAssumption ==
    /\ Approvals \cap Cases = {} /\ Approvals \cap Applications = {}
    /\ Cases \cap Applications = {}

Objects == Approvals \cup Cases \cup Applications

VARIABLE rows       \* the decided rows

decisionVars == <<signingVars, rows>>

Types == {"approval_approve", "approval_reject", "autonomy_ratify",
          "org_change_apply", "org_change_revert"}

\* by is ratified_by or applied_by; at is resolved_at or created_at.
Row == [status : {"pending", "approved", "rejected", "proposed", "ratified",
                  "absent", "verified", "reverted"},
        by : Principals \cup {None}, at : Nat, revertedAt : Nat]
Undecided(o) ==
    [status |-> IF o \in Approvals THEN "pending" ELSE IF o \in Cases THEN "proposed" ELSE "absent",
     by |-> None, at |-> 0, revertedAt |-> 0]

\* Rows, sessions and signatures have their types.
DecisionsTypeOK ==
    /\ principals \in [Principals -> {"active", "disabled"}]
    /\ keys \in [Keys -> {"absent", "active", "revoked"}]
    /\ sessions \in [Clients -> Session \cup {None}]
    /\ rows \in [Objects -> Row]
    /\ now \in 0..MaxTime
    /\ \A s \in signatures : s.class \in Types => s.object \in Objects /\ s.key \in Keys

DecisionsInit == SigningInit /\ rows = [o \in Objects |-> Undecided(o)]

-------------------------------------------------------------------------------

\* What a transition requires of the row, and what it leaves.
Movable(type, o) ==
    CASE type \in {"approval_approve", "approval_reject"} ->
            o \in Approvals /\ rows[o].status = "pending"
      [] type = "autonomy_ratify" -> o \in Cases /\ rows[o].status = "proposed"
      [] type = "org_change_apply" -> o \in Applications /\ rows[o].status = "absent"
      [] type = "org_change_revert" -> o \in Applications /\ rows[o].status = "verified"

Outcome(type) ==
    CASE type = "approval_approve" -> "approved"
      [] type = "approval_reject" -> "rejected"
      [] type = "autonomy_ratify" -> "ratified"
      [] type = "org_change_apply" -> "verified"
      [] type = "org_change_revert" -> "reverted"

RowThatForgets(type, o, p, at) ==
    [status |-> Outcome(type), by |-> p, at |-> at, revertedAt |-> at]
MovedRow(type, o, p, at) ==
    IF type = "org_change_revert"
    THEN [rows[o] EXCEPT !.status = "reverted", !.revertedAt = at]
    ELSE [status |-> Outcome(type), revertedAt |-> 0, at |-> at,
          by |-> IF o \in Approvals THEN None ELSE p]

\* The claims of a transition, built from the row alone.
ClaimsOf(type, row) ==
    [decision |-> Outcome(type), by |-> row.by,
     at |-> IF type = "org_change_revert" THEN row.revertedAt ELSE row.at]

\* Approvals are resolved at substrate time; the other decisions at the time the
\* caller states.
DecisionTimes(o) == IF o \in Approvals THEN {now} ELSE 0..MaxTime

Decide(c, type, o, at, material) ==
    /\ sessions[c] # None
    /\ Movable(type, o)
    /\ rows' = [rows EXCEPT ![o] = MovedRow(type, o, sessions[c].principal, at)]
    /\ Sign(c, type, o, ClaimsOf(type, rows'[o]), at, material)
    /\ UNCHANGED <<registryVars, sessions, now>>

\* A case is rejected without a signature.
RejectWidening(o) ==
    /\ o \in Cases /\ rows[o].status = "proposed"
    /\ \E at \in DecisionTimes(o) :
          rows' = [rows EXCEPT ![o] = [@ EXCEPT !.status = "rejected", !.at = at]]
    /\ UNCHANGED signingVars

DecisionsNext ==
    \/ RegistrySteps /\ UNCHANGED rows
    \/ \E c \in Clients, type \in Types, o \in Objects, material \in Keys \cup {None} :
          \E at \in DecisionTimes(o) : Decide(c, type, o, at, material)
    \/ \E o \in Cases : RejectWidening(o)

DecisionsSpec == DecisionsInit /\ [][DecisionsNext]_decisionVars

-------------------------------------------------------------------------------
(* What a signed decision is worth.                                        *)

\* The transitions a row has been through.
Made(o) ==
    {type \in Types :
        \/ rows[o].status = Outcome(type) /\ ~(o \in Cases /\ type = "approval_reject")
        \/ type = "org_change_apply" /\ rows[o].status = "reverted"}

\* The record of decisions is the record of signatures: every transition a row has been
\* through has exactly one signature, made by a human with the key it names, and its body
\* rebuilds from the row as it stands now, whatever happened to the row, the key and the
\* signer since; and there is no signature of anything that did not happen
\* (decision-signing.ts: the row moves and is signed in one transaction).
SignaturesMatchDecisions ==
    /\ \A o \in Objects : \A type \in Made(o) :
          Cardinality({s \in signatures : s.class = type /\ s.object = o}) = 1
    /\ \A s \in {s \in signatures : s.class \in Types} :
          /\ s.class \in Made(s.object)
          /\ s.claims = ClaimsOf(s.class, rows[s.object])
          /\ s.at = s.claims.at
          /\ s.signer = OwnerOf[s.key] /\ s.signer \in Humans /\ s.madeBy = s.key
          /\ s.claims.by \in {None, s.signer} \/ s.class = "org_change_revert"

\* A key signs only while it stands: whatever a client was told when it authenticated, and
\* whatever time it gives its decision, no signature appears of a key that is revoked, of
\* a disabled owner, or outside its window by substrate time.
FallenKeysSignNothing ==
    [][\A s \in signatures' \ signatures :
          Stands(s.key) /\ WithinWindow(s.key, now) /\ s.signer \in Humans]_decisionVars
===============================================================================
