----------------------------- MODULE EventLogProofs -----------------------------
(***************************************************************************)
(* What the records are worth, for any principals, keys, clients, writers,  *)
(* decisions, cadences and requests: the signed decisions, the heartbeat    *)
(* and the event chain.                                                     *)
(*                                                                         *)
(* The signed decisions rest on their record: a row has been through a      *)
(* transition exactly when one signature says so, and no later transition   *)
(* changes what the claims of an earlier one are built from. The verdict on *)
(* the event chain rests on the numbers of the rows when the file is whole, *)
(* and on the least row without its history when it is damaged.             *)
(***************************************************************************)
EXTENDS EventChain, SignedDecisions, Heartbeat, FiniteSetTheorems, WellFoundedInduction, TLAPS

-------------------------------------------------------------------------------
(* Signatures.                                                             *)

\* What it takes to sign: a signer who stands, with the key the envelope names.
LEMMA SignFacts ==
    ASSUME NEW c, NEW class, NEW object, NEW claims, NEW at, NEW material,
           Sign(c, class, object, claims, at, material)
    PROVE  \E s : /\ signatures' = signatures \cup {s}
                  /\ s = [class |-> class, object |-> object, claims |-> claims,
                          key |-> sessions[c].key, signer |-> sessions[c].principal,
                          madeBy |-> material, at |-> at]
                  /\ s.key \in Keys /\ Stands(s.key) /\ WithinWindow(s.key, now)
                  /\ s.signer \in Humans /\ s.signer = OwnerOf[s.key] /\ s.madeBy = s.key
BY DEF Sign, StoredSigner, SignedWithin, Verifies, NamesKey, MadeFor, EnvelopeOf,
       RecordSignature

\* No signature appears of a key that does not stand at that moment, by substrate time,
\* whatever a session or a decision claims (decision-signing.ts signGovernanceDecision).
THEOREM FallenKeysSilent == DecisionsSpec => FallenKeysSignNothing
<1> DEFINE A == \A s \in signatures' \ signatures :
                   Stands(s.key) /\ WithinWindow(s.key, now) /\ s.signer \in Humans
<1>1. ASSUME [DecisionsNext]_decisionVars PROVE [A]_decisionVars
  <2> SUFFICES ASSUME DecisionsNext PROVE A
    BY <1>1
  <2>1. CASE RegistrySteps
    BY <2>1 DEF RegistrySteps, Authenticate, Enrol, RevokeKey, SetPrincipalStatus, TimePasses
  <2>2. CASE \E c \in Clients, type \in Types, o \in Objects, material \in Keys \cup {None} :
               \E at \in DecisionTimes(o) : Decide(c, type, o, at, material)
    <3>1. PICK c \in Clients, type \in Types, o \in Objects, material \in Keys \cup {None} :
             \E at \in DecisionTimes(o) : Decide(c, type, o, at, material)
      BY <2>2
    <3>2. PICK at : Sign(c, type, o, ClaimsOf(type, rows'[o]), at, material)
      BY <3>1 DEF Decide
    <3> QED BY <3>2, SignFacts
  <2>3. CASE \E o \in Cases : RejectWidening(o)
    BY <2>3 DEF RejectWidening, signingVars
  <2> QED BY <2>1, <2>2, <2>3 DEF DecisionsNext
<1> QED BY <1>1, PTL DEF DecisionsSpec, FallenKeysSignNothing
-------------------------------------------------------------------------------
(* Signed decisions.                                                       *)

\* The signatures of one transition of one row.
SignaturesFor(o, type) == {s \in signatures : s.class = type /\ s.object = o}

SignedOnce == \A o \in Objects : \A type \in Made(o) : \E s : SignaturesFor(o, type) = {s}

SignedRight ==
    \A s \in {s \in signatures : s.class \in Types} :
        /\ s.class \in Made(s.object)
        /\ s.claims = ClaimsOf(s.class, rows[s.object])
        /\ s.at = s.claims.at
        /\ s.signer = OwnerOf[s.key] /\ s.signer \in Humans /\ s.madeBy = s.key
        /\ s.claims.by \in {None, s.signer} \/ s.class = "org_change_revert"

DecisionsInv == DecisionsTypeOK /\ SignedOnce /\ SignedRight

\* A row of each kind is decided once, and only an application that stands is reverted.
LEMMA MadeBefore ==
    ASSUME DecisionsTypeOK, NEW type \in Types, NEW o \in Objects, Movable(type, o)
    PROVE  /\ type \notin Made(o)
           /\ type # "org_change_revert" => Made(o) = {}
           /\ type = "org_change_revert" => Made(o) = {"org_change_apply"}
BY DecisionsAssumption DEF Movable, Made, Outcome, Types, Objects

LEMMA MadeAfter ==
    ASSUME DecisionsTypeOK, NEW type \in Types, NEW o \in Objects, Movable(type, o),
           rows'[o].status = Outcome(type)
    PROVE  Made(o)' = Made(o) \cup {type}
<1>1. CASE type = "org_change_revert"
  BY <1>1, DecisionsAssumption DEF Movable, Made, Outcome, Types, Objects
<1>2. CASE type = "org_change_apply"
  BY <1>2, DecisionsAssumption DEF Movable, Made, Outcome, Types, Objects
<1>3. CASE type = "autonomy_ratify"
  BY <1>3, DecisionsAssumption DEF Movable, Made, Outcome, Types, Objects
<1>4. CASE type \in {"approval_approve", "approval_reject"}
  BY <1>4, DecisionsAssumption DEF Movable, Made, Outcome, Types, Objects
<1> QED BY <1>1, <1>2, <1>3, <1>4 DEF Types

\* A set of numbers that is not empty has a least one.
LEMMA LeastNumber ==
    ASSUME NEW S \in SUBSET Nat, S # {}
    PROVE  \E k \in S : \A other \in S : k <= other
<1> DEFINE R == OpToRel(<, Nat)
<1>1. IsWellFoundedOn(R, Nat)
  BY NatLessThanWellFounded
<1>2. PICK x \in S : \A y \in S : ~(<<y, x>> \in R)
  <2> HIDE DEF R
  <2> QED BY <1>1, WFMin
<1>3. \A y \in S : ~(y < x)
  BY <1>2 DEF OpToRel
<1>4. \A y \in S : x <= y
  BY <1>3
<1> QED BY <1>4

LEMMA SmallestKey ==
    ASSUME NEW S \in SUBSET Nat, S # {}
    PROVE  (CHOOSE k \in S : \A other \in S : k <= other) \in S
<1>1. \E k \in S : \A other \in S : k <= other
  BY LeastNumber
<1> QED BY <1>1

\* What does not touch signatures or rows keeps the record.
LEMMA RegistryKeepsDecisions ==
    ASSUME DecisionsInv, RegistrySteps, UNCHANGED rows
    PROVE  DecisionsInv'
<1>1. signatures' = signatures
  BY DEF RegistrySteps, Authenticate, Enrol, RevokeKey, SetPrincipalStatus, TimePasses
<1>2. SignedOnce' /\ SignedRight'
  <2>1. \A o \in Objects : Made(o)' = Made(o)
    BY DEF Made
  <2>2. \A o, type : SignaturesFor(o, type)' = SignaturesFor(o, type)
    BY <1>1 DEF SignaturesFor
  <2>3. SignedOnce'
    BY <2>1, <2>2 DEF DecisionsInv, SignedOnce
  <2>4. SignedRight'
    BY <1>1, <2>1 DEF DecisionsInv, SignedRight, ClaimsOf, DecisionsTypeOK
  <2> QED BY <2>3, <2>4
<1>3. DecisionsTypeOK'
  <2> USE SigningAssumption DEF DecisionsInv, DecisionsTypeOK
  <2>1. ASSUME NEW c \in Clients, NEW p \in Principals, Authenticate(c, p)
        PROVE  DecisionsTypeOK'
    <3>1. FirstKey(p) \in Keys \cup {None}
      <4>1. CASE KeysOf(p) = {}
        BY <4>1 DEF FirstKey
      <4>2. CASE KeysOf(p) # {}
        BY <4>2, SmallestKey DEF FirstKey, KeysOf
      <4> QED BY <4>1, <4>2
    <3> QED BY <2>1, <3>1, <1>1 DEF Authenticate, registryVars, Session
  <2>2. ASSUME NEW k \in Keys, Enrol(k) \/ RevokeKey(k) PROVE DecisionsTypeOK'
    BY <2>2, <1>1 DEF Enrol, RevokeKey
  <2>3. ASSUME NEW p \in Principals, NEW status \in {"active", "disabled"},
               SetPrincipalStatus(p, status)
        PROVE  DecisionsTypeOK'
    BY <2>3, <1>1 DEF SetPrincipalStatus
  <2>4. CASE TimePasses
    BY <2>4, <1>1 DEF TimePasses, registryVars
  <2> QED BY <2>1, <2>2, <2>3, <2>4 DEF RegistrySteps
<1> QED BY <1>2, <1>3 DEF DecisionsInv

LEMMA RejectionKeepsDecisions ==
    ASSUME DecisionsInv, NEW k \in Cases, RejectWidening(k)
    PROVE  DecisionsInv'
<1> USE DEF DecisionsInv
<1>1. PICK at \in DecisionTimes(k) :
        rows' = [rows EXCEPT ![k] = [@ EXCEPT !.status = "rejected", !.at = at]]
  BY DEF RejectWidening
<1>2. signatures' = signatures
  BY DEF RejectWidening, signingVars
<1>3. k \in Objects /\ k \notin Approvals /\ rows \in [Objects -> Row]
  BY DecisionsAssumption DEF Objects, DecisionsTypeOK
<1>4. rows[k].status = "proposed" /\ rows'[k].status = "rejected"
  BY <1>1, <1>3 DEF RejectWidening, Row
<1>5. Made(k) = {} /\ Made(k)' = {}
  BY <1>3, <1>4, DecisionsAssumption DEF Made, Outcome, Types
<1>6. \A o \in Objects : o # k => rows'[o] = rows[o] /\ Made(o)' = Made(o)
  BY <1>1, <1>3 DEF Made
<1>7. DecisionsTypeOK'
  <2>1. at \in Nat
    BY <1>3, SigningAssumption DEF DecisionTimes, DecisionsTypeOK
  <2>2. rows' \in [Objects -> Row]
    BY <1>1, <1>3, <2>1 DEF Row
  <2> QED BY <1>2, <2>2 DEF RejectWidening, signingVars, DecisionsTypeOK
<1>8. SignedOnce'
  <2>1. \A o, type : SignaturesFor(o, type)' = SignaturesFor(o, type)
    BY <1>2 DEF SignaturesFor
  <2> QED BY <2>1, <1>5, <1>6 DEF SignedOnce
<1>9. SignedRight'
  BY <1>2, <1>5, <1>6 DEF SignedRight, ClaimsOf, DecisionsTypeOK
<1> QED BY <1>7, <1>8, <1>9

\* The row a decision leaves, and that the claims of earlier transitions do not notice.
LEMMA DecidedRow ==
    ASSUME DecisionsTypeOK, NEW type \in Types, NEW o \in Objects, NEW p \in Principals,
           NEW at \in Nat, Movable(type, o),
           rows' = [rows EXCEPT ![o] = MovedRow(type, o, p, at)]
    PROVE  /\ rows' \in [Objects -> Row]
           /\ rows'[o].status = Outcome(type)
           /\ \A other \in Objects : other # o => rows'[other] = rows[other]
           /\ ClaimsOf(type, rows'[o]).at = at
           /\ type # "org_change_revert" => ClaimsOf(type, rows'[o]).by \in {None, p}
           /\ type = "org_change_revert" =>
                 /\ rows[o].status = "verified"
                 /\ rows'[o].by = rows[o].by /\ rows'[o].at = rows[o].at
<1>1. rows[o] \in Row /\ rows'[o] = MovedRow(type, o, p, at)
  BY DEF DecisionsTypeOK
<1>2. Outcome(type) \in {"approved", "rejected", "ratified", "verified", "reverted"}
  BY DEF Outcome, Types
<1>3. CASE type = "org_change_revert"
  <2>1. rows'[o] = [rows[o] EXCEPT !.status = "reverted", !.revertedAt = at]
    BY <1>1, <1>3 DEF MovedRow
  <2>2. /\ rows'[o] \in Row /\ rows'[o].status = "reverted" /\ rows'[o].revertedAt = at
        /\ rows'[o].by = rows[o].by /\ rows'[o].at = rows[o].at
    <3> DEFINE r == rows[o]
    <3>1. /\ DOMAIN r = {"status", "by", "at", "revertedAt"}
          /\ r.by \in Principals \cup {None} /\ r.at \in Nat /\ r \in Row
      BY <1>1 DEF Row
    <3>2. /\ [r EXCEPT !.status = "reverted", !.revertedAt = at].status = "reverted"
          /\ [r EXCEPT !.status = "reverted", !.revertedAt = at].revertedAt = at
          /\ [r EXCEPT !.status = "reverted", !.revertedAt = at].by = r.by
          /\ [r EXCEPT !.status = "reverted", !.revertedAt = at].at = r.at
      BY <3>1
    <3>3. [r EXCEPT !.status = "reverted", !.revertedAt = at] \in Row
      BY <3>1 DEF Row
    <3> QED BY <2>1, <3>2, <3>3
  <2>3. rows[o].status = "verified" /\ Outcome(type) = "reverted"
    BY <1>3 DEF Movable, Outcome
  <2>4. rows' \in [Objects -> Row]
    BY <2>2 DEF DecisionsTypeOK
  <2> QED BY <1>3, <2>2, <2>3, <2>4 DEF DecisionsTypeOK, ClaimsOf
<1>4. CASE type # "org_change_revert"
  <2>1. rows'[o] = [status |-> Outcome(type), revertedAt |-> 0, at |-> at,
                    by |-> IF o \in Approvals THEN None ELSE p]
    BY <1>1, <1>4 DEF MovedRow
  <2>2. rows'[o] \in Row
    BY <1>2, <2>1 DEF Row
  <2>3. rows' \in [Objects -> Row]
    BY <2>2 DEF DecisionsTypeOK
  <2>4. ClaimsOf(type, rows'[o]).at = at /\ ClaimsOf(type, rows'[o]).by \in {None, p}
    BY <1>4, <2>1 DEF ClaimsOf
  <2> QED BY <1>4, <2>1, <2>3, <2>4 DEF DecisionsTypeOK
<1> QED BY <1>3, <1>4

LEMMA DecisionKeepsDecisions ==
    ASSUME DecisionsInv, NEW c \in Clients, NEW type \in Types, NEW o \in Objects,
           NEW material, NEW at \in DecisionTimes(o), Decide(c, type, o, at, material)
    PROVE  DecisionsInv'
<1> USE DEF DecisionsInv
<1>1. at \in Nat
  BY SigningAssumption DEF DecisionTimes, DecisionsTypeOK
<1>2. sessions[c] \in Session /\ sessions[c].principal \in Principals
  BY DEF Decide, DecisionsTypeOK, Session
<1> DEFINE p == sessions[c].principal
<1>3. Movable(type, o) /\ rows' = [rows EXCEPT ![o] = MovedRow(type, o, p, at)]
  BY DEF Decide
<1>4. PICK s : /\ signatures' = signatures \cup {s}
               /\ s = [class |-> type, object |-> o, claims |-> ClaimsOf(type, rows'[o]),
                       key |-> sessions[c].key, signer |-> p, madeBy |-> material, at |-> at]
               /\ s.key \in Keys
               /\ s.signer \in Humans /\ s.signer = OwnerOf[s.key] /\ s.madeBy = s.key
  <2>1. Sign(c, type, o, ClaimsOf(type, rows'[o]), at, material)
    BY DEF Decide
  <2> QED BY <2>1, SignFacts
<1>5. /\ rows' \in [Objects -> Row]
      /\ rows'[o].status = Outcome(type)
      /\ \A other \in Objects : other # o => rows'[other] = rows[other]
      /\ ClaimsOf(type, rows'[o]).at = at
      /\ type # "org_change_revert" => ClaimsOf(type, rows'[o]).by \in {None, p}
      /\ type = "org_change_revert" =>
            /\ rows[o].status = "verified"
            /\ rows'[o].by = rows[o].by /\ rows'[o].at = rows[o].at
  BY <1>1, <1>2, <1>3, DecidedRow
<1>6. /\ type \notin Made(o) /\ Made(o)' = Made(o) \cup {type}
      /\ Made(o) # {} => type = "org_change_revert" /\ Made(o) = {"org_change_apply"}
  BY <1>3, <1>5, MadeBefore, MadeAfter
<1>7. \A other \in Objects : other # o => Made(other)' = Made(other)
  BY <1>5 DEF Made
<1>8. s.class = type /\ s.object = o /\ s.claims = ClaimsOf(type, rows'[o]) /\ s.at = at
      /\ s.signer = p
  BY <1>4
<1>9. DecisionsTypeOK'
  <2>1. \A t \in signatures' : t.class \in Types => t.object \in Objects /\ t.key \in Keys
    BY <1>4, <1>8 DEF DecisionsTypeOK
  <2> QED BY <1>5, <2>1 DEF Decide, registryVars, DecisionsTypeOK
<1>10. SignedOnce'
  <2> SUFFICES ASSUME NEW x \in Objects, NEW t \in Made(x)' PROVE \E r : SignaturesFor(x, t)' = {r}
    BY DEF SignedOnce
  <2>1. CASE x = o /\ t = type
    <3>1. SignaturesFor(o, type) = {}
      <4> SUFFICES ASSUME NEW r \in signatures, r.class = type, r.object = o PROVE FALSE
        BY DEF SignaturesFor
      <4> QED BY <1>6 DEF SignedRight
    <3>2. SignaturesFor(o, type)' = SignaturesFor(o, type) \cup {s}
      BY <1>4, <1>8 DEF SignaturesFor
    <3> QED BY <2>1, <3>1, <3>2
  <2>2. CASE x # o \/ t # type
    <3>1. t \in Made(x)
      BY <2>2, <1>6, <1>7
    <3>2. SignaturesFor(x, t)' = SignaturesFor(x, t)
      BY <2>2, <1>4, <1>8 DEF SignaturesFor
    <3> QED BY <3>1, <3>2 DEF SignedOnce
  <2> QED BY <2>1, <2>2
<1>11. SignedRight'
  <2> SUFFICES ASSUME NEW r \in signatures', r.class \in Types
               PROVE  /\ r.class \in Made(r.object)'
                      /\ r.claims = ClaimsOf(r.class, rows[r.object])'
                      /\ r.at = r.claims.at
                      /\ r.signer = OwnerOf[r.key] /\ r.signer \in Humans /\ r.madeBy = r.key
                      /\ r.claims.by \in {None, r.signer} \/ r.class = "org_change_revert"
    BY DEF SignedRight
  <2>1. CASE r = s
    <3>1. ClaimsOf(r.class, rows[r.object])' = ClaimsOf(type, rows'[o])
      BY <2>1, <1>8 DEF ClaimsOf
    <3> QED BY <2>1, <3>1, <1>4, <1>5, <1>6, <1>8
  <2>2. CASE r # s
    <3>1. r \in signatures /\ r.object \in Objects
      BY <2>2, <1>4 DEF DecisionsTypeOK
    <3>2. r.class \in Made(r.object)'
      BY <3>1, <1>6, <1>7 DEF SignedRight
    <3>3. ClaimsOf(r.class, rows[r.object])' = ClaimsOf(r.class, rows[r.object])
      <4>1. CASE r.object # o
        BY <4>1, <3>1, <1>5 DEF ClaimsOf
      <4>2. CASE r.object = o
        <5>1. r.class = "org_change_apply" /\ type = "org_change_revert"
          BY <4>2, <3>1, <1>6 DEF SignedRight
        <5> QED BY <4>2, <5>1, <1>5 DEF ClaimsOf
      <4> QED BY <4>1, <4>2
    <3> QED BY <3>1, <3>2, <3>3 DEF SignedRight
  <2> QED BY <2>1, <2>2
<1> QED BY <1>9, <1>10, <1>11

LEMMA DecisionsInvariant == DecisionsSpec => []DecisionsInv
<1>1. DecisionsInit => DecisionsInv
  <2> SUFFICES ASSUME DecisionsInit PROVE DecisionsInv
    OBVIOUS
  <2>1. \A o \in Objects : rows[o] = Undecided(o) /\ Undecided(o) \in Row
    BY DEF DecisionsInit, Undecided, Row
  <2>2. \A o \in Objects : Made(o) = {}
    <3>1. \A o \in Objects : rows[o].status \in {"pending", "proposed", "absent"}
      <4>1. \A o : Undecided(o).status \in {"pending", "proposed", "absent"}
        BY DEF Undecided
      <4> QED BY <2>1, <4>1
    <3>2. \A type \in Types : Outcome(type) \notin {"pending", "proposed", "absent"}
      BY DEF Outcome, Types
    <3> QED BY <3>1, <3>2 DEF Made
  <2>3. DecisionsTypeOK
    <3>1. rows \in [Objects -> Row]
      BY <2>1 DEF DecisionsInit
    <3>2. /\ principals \in [Principals -> {"active", "disabled"}]
          /\ keys \in [Keys -> {"absent", "active", "revoked"}]
          /\ sessions \in [Clients -> Session \cup {None}]
          /\ signatures = {} /\ now \in 0..MaxTime
      BY SigningAssumption DEF DecisionsInit, SigningInit
    <3> QED BY <3>1, <3>2 DEF DecisionsTypeOK
  <2> QED BY <2>2, <2>3 DEF DecisionsInit, SigningInit, DecisionsInv, SignedOnce, SignedRight
<1>2. DecisionsInv /\ [DecisionsNext]_decisionVars => DecisionsInv'
  <2> SUFFICES ASSUME DecisionsInv, [DecisionsNext]_decisionVars PROVE DecisionsInv'
    OBVIOUS
  <2>1. CASE RegistrySteps /\ UNCHANGED rows
    BY <2>1, RegistryKeepsDecisions
  <2>2. CASE \E c \in Clients, type \in Types, o \in Objects, material \in Keys \cup {None} :
               \E at \in DecisionTimes(o) : Decide(c, type, o, at, material)
    BY <2>2, DecisionKeepsDecisions
  <2>3. CASE \E o \in Cases : RejectWidening(o)
    BY <2>3, RejectionKeepsDecisions
  <2>4. CASE UNCHANGED decisionVars
    <3>1. /\ \A o \in Objects : Made(o)' = Made(o)
          /\ \A o, type : SignaturesFor(o, type)' = SignaturesFor(o, type)
      BY <2>4 DEF decisionVars, signingVars, Made, SignaturesFor
    <3>2. DecisionsTypeOK'
      BY <2>4 DEF decisionVars, signingVars, DecisionsInv, DecisionsTypeOK
    <3>3. SignedOnce'
      BY <3>1 DEF DecisionsInv, SignedOnce
    <3>4. SignedRight'
      BY <2>4, <3>1 DEF decisionVars, signingVars, DecisionsInv, SignedRight, ClaimsOf,
                        DecisionsTypeOK
    <3> QED BY <3>2, <3>3, <3>4 DEF DecisionsInv
  <2> QED BY <2>1, <2>2, <2>3, <2>4 DEF DecisionsNext
<1> QED BY <1>1, <1>2, PTL DEF DecisionsSpec

\* The rows, the sessions and the signatures have their types (decision-signing.ts).
THEOREM DecisionTypes == DecisionsSpec => []DecisionsTypeOK
BY DecisionsInvariant, PTL DEF DecisionsInv

\* Every transition a row has been through has exactly one signature, whose body rebuilds
\* from the row as it stands, and nothing else is signed (decision-signing.ts).
THEOREM SignaturesMatch == DecisionsSpec => []SignaturesMatchDecisions
<1>1. DecisionsInv => SignaturesMatchDecisions
  <2> SUFFICES ASSUME DecisionsInv PROVE SignaturesMatchDecisions
    OBVIOUS
  <2>1. \A o \in Objects : \A type \in Made(o) : Cardinality(SignaturesFor(o, type)) = 1
    <3> SUFFICES ASSUME NEW o \in Objects, NEW type \in Made(o)
                 PROVE  Cardinality(SignaturesFor(o, type)) = 1
      OBVIOUS
    <3>1. PICK s : SignaturesFor(o, type) = {s}
      BY DEF DecisionsInv, SignedOnce
    <3>2. Cardinality({s}) = 1
      BY FS_Singleton
    <3> QED BY <3>1, <3>2
  <2>2. \A o \in Objects : \A type \in Made(o) :
          Cardinality({s \in signatures : s.class = type /\ s.object = o}) = 1
    BY <2>1 DEF SignaturesFor
  <2> QED BY <2>2 DEF DecisionsInv, SignedRight, SignaturesMatchDecisions
<1> QED BY <1>1, DecisionsInvariant, PTL

-------------------------------------------------------------------------------
(* The heartbeat.                                                          *)

HeartbeatInv ==
    /\ lost \in Nat
    /\ told \in [DOMAIN told -> Nat]
    /\ DigestsAreHonest

\* A digest shows new notices, which no event claims, and tells each once more.
LEMMA NewNoticesAreUnclaimed ==
    ASSUME DigestsAreHonest, NEW at
    PROVE  /\ NewNotices(at) \cap DOMAIN inbox = {}
           /\ NewNotices(at) \cap claimed = {}
           /\ DOMAIN Created(at, NewNotices(at)) = DOMAIN inbox \cup NewNotices(at)
BY DEF DigestsAreHonest, NewNotices, Created

LEMMA DeliveredTells ==
    ASSUME told \in [DOMAIN told -> Nat], NEW shown, told' = Delivered(shown)
    PROVE  /\ DOMAIN told' = DOMAIN told \cup shown
           /\ told' \in [DOMAIN told' -> Nat]
           /\ \A n \in shown : Told(n)' = Told(n) + 1
           /\ \A n : n \notin shown => Told(n)' = Told(n)
           /\ \A n \in DOMAIN told : n \notin shown => told'[n] = told[n]
           /\ \A n : Told(n) \in Nat
<1>1. \A n : Told(n) \in Nat
  BY DEF Told
<1>2. told' = [n \in DOMAIN told \cup shown |-> Told(n) + (IF n \in shown THEN 1 ELSE 0)]
  BY DEF Delivered, Told
<1>3. DOMAIN told' = DOMAIN told \cup shown
  BY <1>2
<1>4. \A n \in DOMAIN told' : told'[n] = Told(n) + (IF n \in shown THEN 1 ELSE 0)
  BY <1>2
<1>5. \A n : Told(n)' = IF n \in DOMAIN told' THEN told'[n] ELSE 0
  BY DEF Told
<1>6. \A n \in shown : Told(n)' = Told(n) + 1
  BY <1>3, <1>4, <1>5
<1>7. \A n : n \notin shown => Told(n)' = Told(n)
  <2> SUFFICES ASSUME NEW n, n \notin shown PROVE Told(n)' = Told(n)
    OBVIOUS
  <2>1. CASE n \in DOMAIN told
    BY <2>1, <1>1, <1>3, <1>4, <1>5
  <2>2. CASE n \notin DOMAIN told
    BY <2>2, <1>3, <1>5 DEF Told
  <2> QED BY <2>1, <2>2
<1>8. told' \in [DOMAIN told' -> Nat]
  <2>1. \A n \in DOMAIN told' : told'[n] \in Nat
    BY <1>1, <1>4
  <2> QED BY <1>2, <1>3, <2>1
<1>9. \A n \in DOMAIN told : n \notin shown => told'[n] = told[n]
  BY <1>1, <1>3, <1>4 DEF Told
<1> QED BY <1>1, <1>3, <1>6, <1>7, <1>8, <1>9

LEMMA BeatCommitsKeeps ==
    ASSUME HeartbeatInv, BeatCommits
    PROVE  HeartbeatInv' /\ \A n \in claimed : told'[n] = told[n]
<1> USE DEF HeartbeatInv
<1> DEFINE new == NewNotices(0)
<1>1. PICK shown \in Shown(ToReport(0), NewStatus(0)) :
        claimed' = claimed \cup shown /\ told' = Delivered(shown)
  BY DEF BeatCommits
<1>2. shown \subseteq new
  BY DEF Shown, ToReport
<1>3. /\ reported' = reported \cup new /\ inbox' = Created(0, new)
      /\ byHand' = byHand /\ lost' = lost
  BY DEF BeatCommits, ToReport, Tick
<1>4. /\ new \cap DOMAIN inbox = {} /\ new \cap claimed = {}
      /\ DOMAIN inbox' = DOMAIN inbox \cup new
  BY <1>3, NewNoticesAreUnclaimed
<1>5. /\ DOMAIN told' = DOMAIN told \cup shown
      /\ told' \in [DOMAIN told' -> Nat]
      /\ \A n \in shown : Told(n)' = Told(n) + 1
      /\ \A n : n \notin shown => Told(n)' = Told(n)
      /\ \A n \in DOMAIN told : n \notin shown => told'[n] = told[n]
      /\ \A n : Told(n) \in Nat
  BY <1>1, DeliveredTells
<1>6. \A n \in shown : Told(n) <= lost
  BY <1>2, <1>4, <1>5 DEF DigestsAreHonest, Told
<1>7. /\ DOMAIN inbox' = reported' \cup byHand' /\ reported' \cap byHand' = {}
      /\ claimed' \subseteq reported'
  BY <1>1, <1>2, <1>3, <1>4 DEF DigestsAreHonest
<1>8. \A n \in claimed' : Told(n)' >= 1 /\ Told(n)' <= 1 + lost'
  <2> SUFFICES ASSUME NEW n \in claimed' PROVE Told(n)' >= 1 /\ Told(n)' <= 1 + lost'
    OBVIOUS
  <2>1. CASE n \in shown
    BY <2>1, <1>3, <1>5, <1>6
  <2>2. CASE n \notin shown
    BY <2>2, <1>1, <1>3, <1>5 DEF DigestsAreHonest
  <2> QED BY <2>1, <2>2
<1>9. \A n \in DOMAIN told' \ claimed' : Told(n)' <= lost'
  BY <1>1, <1>3, <1>5 DEF DigestsAreHonest
<1>10. \A n \in claimed : n \in DOMAIN told /\ n \notin shown
  BY <1>2, <1>4 DEF DigestsAreHonest, Told
<1> QED BY <1>3, <1>5, <1>7, <1>8, <1>9, <1>10 DEF DigestsAreHonest

LEMMA BeatIsLostKeeps ==
    ASSUME HeartbeatInv, BeatIsLost
    PROVE  HeartbeatInv' /\ \A n \in claimed : told'[n] = told[n]
<1> USE DEF HeartbeatInv
<1>1. PICK shown \in Shown(ToReport(0), NewStatus(0)) : told' = Delivered(shown)
  BY DEF BeatIsLost
<1>2. shown \cap claimed = {}
  BY NewNoticesAreUnclaimed DEF Shown, ToReport
<1>3. /\ lost' = lost + 1 /\ inbox' = inbox /\ reported' = reported
      /\ claimed' = claimed /\ byHand' = byHand
  BY DEF BeatIsLost, RolledBack
<1>4. /\ DOMAIN told' = DOMAIN told \cup shown
      /\ told' \in [DOMAIN told' -> Nat]
      /\ \A n \in shown : Told(n)' = Told(n) + 1
      /\ \A n : n \notin shown => Told(n)' = Told(n)
      /\ \A n \in DOMAIN told : n \notin shown => told'[n] = told[n]
      /\ \A n : Told(n) \in Nat
  BY <1>1, DeliveredTells
<1>5. \A n : n \notin claimed => Told(n) <= lost
  BY DEF DigestsAreHonest, Told
<1>6. \A n \in claimed : Told(n)' >= 1 /\ Told(n)' <= 1 + lost'
  BY <1>2, <1>3, <1>4 DEF DigestsAreHonest
<1>7. \A n \in DOMAIN told' \ claimed' : Told(n)' <= lost'
  BY <1>3, <1>4, <1>5
<1>8. \A n \in claimed : n \in DOMAIN told /\ n \notin shown
  BY <1>2 DEF DigestsAreHonest, Told
<1> QED BY <1>3, <1>4, <1>6, <1>7, <1>8 DEF DigestsAreHonest

\* Every other step tells nobody anything.
LEMMA QuietStepsKeep ==
    ASSUME HeartbeatInv,
           UNCHANGED <<reported, claimed, told, lost>>,
           \/ DOMAIN inbox' = DOMAIN inbox /\ byHand' = byHand
           \/ \E at : inbox' = Created(at, NewNotices(at)) /\ byHand' = byHand \cup NewNotices(at)
    PROVE  HeartbeatInv' /\ \A n \in claimed : told'[n] = told[n]
<1>1. DOMAIN inbox' = reported' \cup byHand' /\ reported' \cap byHand' = {}
  BY NewNoticesAreUnclaimed DEF HeartbeatInv, DigestsAreHonest
<1>2. \A n : Told(n)' = Told(n)
  BY DEF Told
<1> QED BY <1>1, <1>2 DEF HeartbeatInv, DigestsAreHonest

LEMMA HeartbeatStep ==
    ASSUME HeartbeatInv, [BeatNext]_beatVars
    PROVE  HeartbeatInv' /\ \A n \in claimed : told'[n] = told[n]
<1> USE DEF sensedVars
<1>1. CASE WorldSteps
  BY <1>1, QuietStepsKeep
     DEF WorldSteps, EnsureDefaultCadences, AddCadence, Ask, Answer, Block, Unblock, Arise,
         Clear, TimePasses1
<1>2. CASE OperatorSteps
  <2>1. ASSUME NEW at \in Instants, TickByHand(at)
        PROVE  inbox' = Created(at, NewNotices(at)) /\ byHand' = byHand \cup NewNotices(at)
               /\ UNCHANGED <<reported, claimed, told, lost>>
    BY <2>1 DEF TickByHand, Tick
  <2>2. CASE ScanByHand
    BY <2>2, QuietStepsKeep DEF ScanByHand
  <2>3. ASSUME NEW n \in DOMAIN inbox, MarkRead(n)
        PROVE  DOMAIN inbox' = DOMAIN inbox /\ byHand' = byHand
               /\ UNCHANGED <<reported, claimed, told, lost>>
    BY <2>3 DEF MarkRead
  <2>4. CASE \E at \in Instants : TickByHand(at)
    BY <2>4, <2>1, QuietStepsKeep
  <2>5. CASE \E n \in DOMAIN inbox : MarkRead(n)
    BY <2>5, <2>3, QuietStepsKeep
  <2> QED BY <1>2, <2>2, <2>4, <2>5 DEF OperatorSteps
<1>3. CASE DaemonSteps
  <2>1. CASE BeatAgain \/ Wake \/ Stop \/ Start
    BY <2>1, QuietStepsKeep DEF BeatAgain, Wake, Stop, Start
  <2>2. CASE BeatThrows
    BY <2>2, QuietStepsKeep DEF BeatThrows, RolledBack
  <2> QED BY <1>3, <2>1, <2>2, BeatCommitsKeeps, BeatIsLostKeeps DEF DaemonSteps
<1>4. CASE UNCHANGED beatVars
  BY <1>4, QuietStepsKeep DEF beatVars
<1> QED BY <1>1, <1>2, <1>3, <1>4 DEF BeatNext

LEMMA HeartbeatInvariant == BeatSpec => []HeartbeatInv
<1>1. BeatInit => HeartbeatInv
  BY DEF BeatInit, HeartbeatInv, DigestsAreHonest
<1>2. HeartbeatInv /\ [BeatNext]_beatVars => HeartbeatInv'
  BY HeartbeatStep
<1> QED BY <1>1, <1>2, PTL DEF BeatSpec

\* The inbox, the beats and the digests on record agree with each other and with what
\* reached the human, whatever beats fail and wherever a process is lost
\* (heartbeat/service.ts beat).
THEOREM DigestsHonest == BeatSpec => []DigestsAreHonest
BY HeartbeatInvariant, PTL DEF HeartbeatInv

\* What a digest event claims is never delivered again (heartbeat/service.ts beat).
THEOREM DeliveredOnceLogged == BeatSpec => ToldOnceLogged
<1> DEFINE A == \A n \in claimed : told'[n] = told[n]
<1>1. HeartbeatInv /\ [BeatNext]_beatVars => [A]_beatVars
  BY HeartbeatStep
<1> QED BY <1>1, HeartbeatInvariant, PTL DEF BeatSpec, ToldOnceLogged

-------------------------------------------------------------------------------
(* The event chain.                                                        *)

Fields == {"seq", "kind", "at", "run", "runSeq", "key", "prev", "hash"}

\* The rows are numbered from one on, without gaps.
Numbered(rowset) ==
    /\ IsFiniteSet(rowset)
    /\ {r.seq : r \in rowset} = 1..Cardinality(rowset)
    /\ \A r, s \in rowset : r.seq = s.seq => r = s

\* The rows of a run, likewise.
RunNumbered(run) ==
    /\ {r.runSeq : r \in RunRows(run)} = 1..Cardinality(RunRows(run))
    /\ \A r, s \in RunRows(run) : r.seq < s.seq => r.runSeq < s.runSeq

KeysDiffer == \A r, s \in log : r.key = s.key /\ r.key # None => r = s

LogInv ==
    /\ \A r \in log : DOMAIN r = Fields
    /\ Numbered(log)
    /\ \A r \in log : r.hash # None => RowAndLinkVerify(r)
    /\ \A run \in Runs : RunNumbered(run)
    /\ KeysDiffer

\* A draft that nobody overtook is the row an append would write now.
DraftInv(w) ==
    \/ drafts[w] = None
    \/ \E row : drafts[w] = [row |-> row, stale |-> TRUE]
    \/ \E input, at : drafts[w] = [row |-> NextRow(input, at), stale |-> FALSE]

ChainInv == ~damaged => LogInv /\ \A w \in Writers : DraftInv(w)

\* The newest of the rows up to a number is the row of that number.
LEMMA HeadOfRows ==
    ASSUME NEW L, Numbered(L)
    PROVE  /\ Cardinality(L) \in Nat
           /\ HeadSeq(L) = Cardinality(L)
           /\ UpTo(L, Cardinality(L)) = L
           /\ \A r \in L : r.seq \in 1..Cardinality(L)
           /\ \A m \in 1..Cardinality(L) : \E r \in L : r.seq = m /\ Last1(UpTo(L, m)) = r
           /\ UpTo(L, 0) = {}
<1>1. Cardinality(L) \in Nat /\ (Cardinality(L) = 0 <=> L = {})
  BY FS_CardinalityType, FS_EmptySet DEF Numbered
<1>2. \A r \in L : r.seq \in 1..Cardinality(L)
  BY DEF Numbered
<1>3. \A m \in 1..Cardinality(L) : \E r \in L : r.seq = m /\ Last1(UpTo(L, m)) = r
  <2> SUFFICES ASSUME NEW m \in 1..Cardinality(L)
               PROVE  \E r \in L : r.seq = m /\ Last1(UpTo(L, m)) = r
    OBVIOUS
  <2>1. PICK r \in L : r.seq = m
    BY DEF Numbered
  <2>2. r \in UpTo(L, m) /\ \A s \in UpTo(L, m) : s.seq <= r.seq
    BY <2>1, <1>2 DEF UpTo
  <2>3. \A q \in UpTo(L, m) : (\A s \in UpTo(L, m) : s.seq <= q.seq) => q = r
    <3> SUFFICES ASSUME NEW q \in UpTo(L, m), r.seq <= q.seq PROVE q = r
      BY <2>2
    <3>1. q \in L /\ q.seq <= m /\ q.seq \in Nat
      BY <1>2 DEF UpTo
    <3> QED BY <3>1, <2>1, <1>1 DEF Numbered
  <2>4. Last1(UpTo(L, m)) = r
    BY <2>2, <2>3 DEF Last1
  <2> QED BY <2>1, <2>4
<1>4. UpTo(L, Cardinality(L)) = L /\ UpTo(L, 0) = {}
  BY <1>1, <1>2 DEF UpTo
<1>5. HeadSeq(L) = Cardinality(L)
  <2>1. CASE L = {}
    BY <2>1, <1>1 DEF HeadSeq
  <2>2. CASE L # {}
    <3>1. Cardinality(L) \in 1..Cardinality(L)
      BY <2>2, <1>1
    <3>2. Last1(L).seq = Cardinality(L)
      BY <3>1, <1>3, <1>4
    <3> QED BY <2>2, <3>2 DEF HeadSeq
  <2> QED BY <2>1, <2>2
<1> QED BY <1>1, <1>2, <1>3, <1>4, <1>5

\* What an append writes.
LEMMA NextRowIs ==
    ASSUME NEW input, NEW at, NEW row, row = NextRow(input, at)
    PROVE  /\ DOMAIN row = Fields
           /\ row.seq = HeadSeq(log) + 1 /\ row.run = input.run
           /\ row.runSeq = NextRunSeq(input.run) /\ row.key = input.key
           /\ row.prev = HeadHash(log) /\ SealedRight(row)
BY DEF NextRow, Sealed, ContentOf, Fields, SealedRight

LEMMA AddingOne ==
    ASSUME NEW S, IsFiniteSet(S), NEW x, x \notin S
    PROVE  IsFiniteSet(S \cup {x}) /\ Cardinality(S \cup {x}) = Cardinality(S) + 1
BY FS_AddElement

LEMMA AppendKeepsLog ==
    ASSUME LogInv, NEW input, NEW at, ~KeyTaken(input.key),
           NEW CONSTANT row, row = NextRow(input, at), log' = log \cup {row}
    PROVE  LogInv'
<1> DEFINE n == Cardinality(log)
<1> USE DEF LogInv
<1>1. /\ n \in Nat /\ HeadSeq(log) = n /\ UpTo(log, n) = log
      /\ \A r \in log : r.seq \in 1..n
  BY HeadOfRows
<1>2. /\ DOMAIN row = Fields /\ row.seq = n + 1 /\ row.run = input.run
      /\ row.runSeq = NextRunSeq(input.run) /\ row.key = input.key
      /\ row.prev = HeadHash(log) /\ SealedRight(row)
  BY <1>1, NextRowIs
<1>3. log' = log \cup {row} /\ row \notin log
  BY <1>1, <1>2
<1>4. IsFiniteSet(log') /\ Cardinality(log') = n + 1
  BY <1>3, AddingOne DEF Numbered
<1>5. Numbered(log)'
  <2>1. {r.seq : r \in log'} = 1..n \cup {n + 1}
    BY <1>2, <1>3 DEF Numbered
  <2>2. 1..n \cup {n + 1} = 1..(n + 1)
    BY <1>1
  <2>3. \A r, s \in log' : r.seq = s.seq => r = s
    BY <1>1, <1>2, <1>3 DEF Numbered
  <2> QED BY <1>4, <2>1, <2>2, <2>3 DEF Numbered
<1>6. \A r \in log' : r.hash # None => RowAndLinkVerify(r)'
  <2>1. \A r \in log : HashBefore(r)' = HashBefore(r)
    <3> SUFFICES ASSUME NEW r \in log PROVE UpTo(log', r.seq - 1) = UpTo(log, r.seq - 1)
      BY DEF HashBefore
    <3> QED BY <1>1, <1>2, <1>3 DEF UpTo
  <2>2. HashBefore(row)' = HeadHash(log)
    <3>1. UpTo(log', n) = log
      BY <1>1, <1>2, <1>3 DEF UpTo
    <3>2. row.seq - 1 = n
      BY <1>1, <1>2
    <3> QED BY <3>1, <3>2 DEF HashBefore
  <2> QED BY <1>2, <1>3, <2>1, <2>2
        DEF RowAndLinkVerify, RowVerifies, ChainedOn, SealedRight
<1>7. ASSUME NEW run \in Runs PROVE RunNumbered(run)'
  <2> DEFINE R == RunRows(run)
             c == Cardinality(R)
  <2>1. IsFiniteSet(R) /\ c \in Nat /\ row \notin R
    <3>1. R \subseteq log
      BY DEF RunRows
    <3> QED BY <3>1, <1>3, FS_Subset, FS_CardinalityType DEF Numbered
  <2>2. \A r \in R : r.runSeq \in 1..c /\ r.seq \in 1..n
    <3>1. \A r \in R : r.seq \in 1..n
      BY <1>1 DEF RunRows
    <3> QED BY <3>1 DEF RunNumbered
  <2>3. CASE input.run = run
    <3>1. RunRows(run)' = R \cup {row}
      BY <2>3, <1>2, <1>3 DEF RunRows
    <3>2. row.runSeq = c + 1
      <4>1. row.runSeq = NextRunSeq(run) /\ run # None
        BY <2>3, <1>2, ChainAssumption
      <4>2. RunSeqs(run) = 1..c
        BY DEF RunNumbered, RunSeqs
      <4>3. CASE c = 0
        <5>1. RunSeqs(run) = {}
          BY <4>2, <4>3
        <5> QED BY <4>1, <4>3, <5>1 DEF NextRunSeq
      <4>4. CASE c # 0
        <5> HIDE DEF c
        <5>1. c \in 1..c /\ \A m \in 1..c : m <= c
          BY <4>4, <2>1
        <5>2. \A k \in 1..c : (\A m \in 1..c : m <= k) => k = c
          BY <5>1
        <5>3. (CHOOSE k \in 1..c : \A m \in 1..c : m <= k) = c
          BY <5>1, <5>2
        <5>4. NextRunSeq(run) = 1 + c
          BY <4>1, <4>2, <5>1, <5>3 DEF NextRunSeq
        <5> QED BY <4>1, <5>4, <2>1
      <4> QED BY <4>3, <4>4
    <3>3. Cardinality(RunRows(run)') = c + 1
      BY <3>1, <2>1, AddingOne
    <3>4. {r.runSeq : r \in RunRows(run)'} = 1..(c + 1)
      <4>1. {r.runSeq : r \in R} = 1..c
        BY DEF RunNumbered
      <4> HIDE DEF R, c
      <4>2. {r.runSeq : r \in RunRows(run)'} = 1..c \cup {c + 1}
        BY <3>1, <3>2, <4>1
      <4> QED BY <4>2, <2>1
    <3>5. \A r, s \in RunRows(run)' : r.seq < s.seq => r.runSeq < s.runSeq
      <4>1. \A r, s \in R : r.seq < s.seq => r.runSeq < s.runSeq
        BY DEF RunNumbered
      <4> HIDE DEF R, c
      <4> QED BY <3>1, <3>2, <4>1, <2>1, <2>2, <1>1, <1>2
    <3> QED BY <3>3, <3>4, <3>5 DEF RunNumbered
  <2>4. CASE input.run # run
    <3>1. RunRows(run)' = RunRows(run)
      BY <2>4, <1>2, <1>3 DEF RunRows
    <3> QED BY <3>1 DEF RunNumbered
  <2> QED BY <2>3, <2>4
<1>8. KeysDiffer'
  BY <1>2, <1>3 DEF KeysDiffer, KeyTaken
<1> QED BY <1>2, <1>3, <1>5, <1>6, <1>7, <1>8

\* An image under a function that keeps elements apart has as many elements.
LEMMA ImageCount ==
    ASSUME NEW S, IsFiniteSet(S), NEW g, DOMAIN g = S, g \in [S -> {g[x] : x \in S}],
           \A x, y \in S : g[x] = g[y] => x = y
    PROVE  /\ IsFiniteSet({g[x] : x \in S})
           /\ Cardinality({g[x] : x \in S}) = Cardinality(S)
<1> DEFINE T == {g[x] : x \in S}
<1>1. g \in [S -> T]
  OBVIOUS
<1>2. g \in Bijection(S, T)
  BY <1>1 DEF Bijection, Injection, Surjection, IsInjective
<1> QED BY <1>2, FS_Bijection DEF ExistsBijection

\* The migration changes the kind of rows that have no hash, and nothing else.
LEMMA MigrationKeepsLog ==
    ASSUME LogInv, log' = Backfill
    PROVE  LogInv' /\ Cardinality(log') = Cardinality(log)
<1> USE DEF LogInv
<1> DEFINE moved(r) == IF LegacyBareRow(r) THEN [r EXCEPT !.kind = Backfilled] ELSE r
           g == [r \in log |-> moved(r)]
<1>1. \A r \in log :
        /\ g[r].seq = r.seq /\ g[r].run = r.run /\ g[r].runSeq = r.runSeq
        /\ g[r].key = r.key /\ g[r].prev = r.prev /\ g[r].hash = r.hash
        /\ DOMAIN g[r] = Fields
        /\ r.hash # None => g[r] = r
  <2> SUFFICES ASSUME NEW r \in log
               PROVE  LET q == moved(r) IN
                      /\ q.seq = r.seq /\ q.run = r.run /\ q.runSeq = r.runSeq
                      /\ q.key = r.key /\ q.prev = r.prev /\ q.hash = r.hash
                      /\ DOMAIN q = Fields
                      /\ r.hash # None => q = r
    OBVIOUS
  <2>1. DOMAIN r = Fields
    OBVIOUS
  <2> QED BY <2>1 DEF LegacyBareRow, Fields
<1>2. log' = {g[r] : r \in log} /\ DOMAIN g = log /\ g \in [log -> {g[r] : r \in log}]
  BY DEF Backfill
<1> HIDE DEF g
<1>3. \A r, s \in log : g[r] = g[s] => r = s
  BY <1>1 DEF Numbered
<1>4. IsFiniteSet(log') /\ Cardinality(log') = Cardinality(log)
  BY <1>2, <1>3, ImageCount DEF Numbered
<1>5. Numbered(log)'
  <2>1. {q.seq : q \in log'} = {r.seq : r \in log}
    BY <1>1, <1>2
  <2>2. \A q, s \in log' : q.seq = s.seq => q = s
    BY <1>1, <1>2 DEF Numbered
  <2> QED BY <1>4, <2>1, <2>2 DEF Numbered
<1>6. \A m \in Nat : HeadHash(UpTo(log', m)) = HeadHash(UpTo(log, m))
  <2> SUFFICES ASSUME NEW m \in Nat PROVE HeadHash(UpTo(log', m)) = HeadHash(UpTo(log, m))
    OBVIOUS
  <2> DEFINE n == Cardinality(log)
  <2>0. n \in Nat
    BY HeadOfRows
  <2>1. \A k \in 1..n : HeadHash(UpTo(log', k)) = HeadHash(UpTo(log, k))
    <3> SUFFICES ASSUME NEW k \in 1..n PROVE HeadHash(UpTo(log', k)) = HeadHash(UpTo(log, k))
      OBVIOUS
    <3>1. PICK r \in log : r.seq = k /\ Last1(UpTo(log, k)) = r
      BY HeadOfRows
    <3>2. PICK q \in log' : q.seq = k /\ Last1(UpTo(log', k)) = q
      BY <1>4, <1>5, HeadOfRows
    <3>3. q = g[r]
      BY <3>1, <3>2, <1>1, <1>2 DEF Numbered
    <3>4. r \in UpTo(log, k) /\ q \in UpTo(log', k)
      BY <3>1, <3>2, <2>0 DEF UpTo
    <3> QED BY <3>1, <3>2, <3>3, <3>4, <1>1 DEF HeadHash
  <2>2. UpTo(log, 0) = {} /\ UpTo(log', 0) = {}
    BY <1>5, HeadOfRows
  <2>3. m > n => UpTo(log, m) = UpTo(log, n) /\ UpTo(log', m) = UpTo(log', n)
    <3>1. /\ \A r \in log : r.seq \in 1..n
          /\ \A r \in log' : r.seq \in 1..n
      BY <1>4, <1>5, HeadOfRows
    <3> QED BY <3>1, <2>0 DEF UpTo
  <2>4. CASE m = 0
    BY <2>2, <2>4
  <2>5. CASE m \in 1..n
    BY <2>1, <2>5
  <2>6. CASE m > n /\ n = 0
    BY <2>2, <2>3, <2>6
  <2>7. CASE m > n /\ n # 0
    <3>1. n \in 1..n
      BY <2>7, <2>0
    <3> QED BY <3>1, <2>1, <2>3, <2>7
  <2> QED BY <2>0, <2>4, <2>5, <2>6, <2>7
<1>7. \A q \in log' : q.hash # None => RowAndLinkVerify(q)'
  <2> SUFFICES ASSUME NEW q \in log', q.hash # None PROVE RowAndLinkVerify(q)'
    OBVIOUS
  <2>1. q \in log
    BY <1>1, <1>2
  <2>2. q.seq - 1 \in Nat
    BY <2>1, HeadOfRows
  <2>3. HashBefore(q)' = HashBefore(q)
    BY <2>2, <1>6 DEF HashBefore
  <2> QED BY <2>1, <2>3 DEF RowAndLinkVerify, RowVerifies, ChainedOn, SealedRight
<1>8. ASSUME NEW run \in Runs PROVE RunNumbered(run)'
  <2> DEFINE R == RunRows(run)
             h == [r \in R |-> g[r]]
  <2>1. R \subseteq log /\ IsFiniteSet(R)
    <3>1. R \subseteq log
      BY DEF RunRows
    <3> QED BY <3>1, FS_Subset DEF Numbered
  <2>2. RunRows(run)' = {g[r] : r \in R}
    BY <1>1, <1>2 DEF RunRows
  <2>3. /\ {q.runSeq : q \in RunRows(run)'} = {r.runSeq : r \in R}
        /\ \A q, s \in RunRows(run)' : q.seq < s.seq => q.runSeq < s.runSeq
    BY <2>1, <2>2, <1>1 DEF RunNumbered
  <2>4. Cardinality(RunRows(run)') = Cardinality(R)
    <3>1. {g[r] : r \in R} = {h[r] : r \in R}
      OBVIOUS
    <3>2. \A r, s \in R : h[r] = h[s] => r = s
      BY <2>1, <1>3
    <3>3. DOMAIN h = R /\ h \in [R -> {h[r] : r \in R}]
      OBVIOUS
    <3> HIDE DEF h, R
    <3> QED BY <2>1, <2>2, <3>1, <3>2, <3>3, ImageCount
  <2> QED BY <2>3, <2>4 DEF RunNumbered
<1>9. KeysDiffer'
  BY <1>1, <1>2 DEF KeysDiffer
<1> QED BY <1>1, <1>2, <1>4, <1>5, <1>7, <1>8, <1>9

\* After a commit no draft is current.
LEMMA OvertakenDrafts ==
    ASSUME \A w \in Writers : DraftInv(w), NEW except, drafts' = Overtaken(except)
    PROVE  \A w \in Writers : DraftInv(w)'
<1> SUFFICES ASSUME NEW w \in Writers
             PROVE  drafts'[w] = None \/ \E row : drafts'[w] = [row |-> row, stale |-> TRUE]
  BY DEF DraftInv
<1>1. drafts'[w] = IF drafts[w] = None THEN None
                   ELSE IF w = except THEN None
                   ELSE [drafts[w] EXCEPT !.stale = TRUE]
  BY DEF Overtaken
<1>2. CASE \E row : drafts[w] = [row |-> row, stale |-> TRUE]
  BY <1>1, <1>2
<1>3. CASE \E input, at : drafts[w] = [row |-> NextRow(input, at), stale |-> FALSE]
  BY <1>1, <1>3
<1> QED BY <1>1, <1>2, <1>3 DEF DraftInv

\* While the log stands, drafts stay what they are.
LEMMA StandingLog ==
    ASSUME ChainInv, UNCHANGED <<log, damaged>>,
           ~damaged => \A w \in Writers : drafts'[w] \in {drafts[w], None} \/ DraftInv(w)'
    PROVE  ChainInv'
<1> SUFFICES ASSUME ~damaged PROVE LogInv' /\ \A w \in Writers : DraftInv(w)'
  BY DEF ChainInv
<1>1. LogInv'
  BY DEF ChainInv, LogInv, Numbered, RowAndLinkVerify, RowVerifies, ChainedOn, SealedRight,
         HashBefore, RunNumbered, RunRows, KeysDiffer
<1>2. \A input, at : NextRow(input, at)' = NextRow(input, at)
  BY DEF NextRow, NextRunSeq, RunSeqs, RunRows
<1>3. ASSUME NEW w \in Writers, drafts'[w] \in {drafts[w], None} PROVE DraftInv(w)'
  BY <1>2, <1>3 DEF ChainInv, DraftInv
<1> QED BY <1>1, <1>3

LEMMA AppendStep ==
    ASSUME ChainInv, NEW w \in Writers,
           \/ \E input \in Inputs, at \in 0..now : BeginAppend(w, input, at)
           \/ CommitAppend(w)
           \/ AbandonAppend(w)
    PROVE  ChainInv'
<1>1. ASSUME NEW input \in Inputs, NEW at \in 0..now, BeginAppend(w, input, at)
      PROVE  ChainInv'
  <2>1. UNCHANGED <<log, damaged>>
    BY <1>1 DEF BeginAppend
  <2>2. drafts' = [drafts EXCEPT ![w] = [row |-> NextRow(input, at), stale |-> FALSE]]
    BY <1>1 DEF BeginAppend
  <2>3. NextRow(input, at)' = NextRow(input, at)
    BY <2>1 DEF NextRow, NextRunSeq, RunSeqs, RunRows
  <2>4. \A v \in Writers : drafts'[v] \in {drafts[v], None} \/ DraftInv(v)'
    <3> SUFFICES ASSUME NEW v \in Writers PROVE drafts'[v] = drafts[v] \/ DraftInv(v)'
      OBVIOUS
    <3>1. CASE v = w /\ w \in DOMAIN drafts
      <4>1. drafts'[v] = [row |-> NextRow(input, at)', stale |-> FALSE]
        BY <2>2, <2>3, <3>1
      <4>2. \E i, a : drafts'[v] = [row |-> NextRow(i, a)', stale |-> FALSE]
        BY <4>1
      <4> QED BY <4>2 DEF DraftInv
    <3>2. CASE v # w
      BY <2>2, <3>2
    <3>3. CASE w \notin DOMAIN drafts
      BY <2>2, <3>3
    <3> QED BY <3>1, <3>2, <3>3
  <2> QED BY <2>1, <2>4, StandingLog
<1>2. CASE CommitAppend(w)
  <2> SUFFICES ASSUME ~damaged, UNCHANGED damaged
               PROVE  LogInv' /\ \A v \in Writers : DraftInv(v)'
    BY <1>2 DEF ChainInv, CommitAppend
  <2>1. LogInv /\ \A v \in Writers : DraftInv(v)
    BY DEF ChainInv
  <2>2. PICK input, at : drafts[w] = [row |-> NextRow(input, at), stale |-> FALSE]
    <3>1. drafts[w] # None /\ ~drafts[w].stale
      BY <1>2 DEF CommitAppend
    <3>2. ASSUME NEW row, drafts[w] = [row |-> row, stale |-> TRUE] PROVE FALSE
      BY <3>1, <3>2
    <3> QED BY <2>1, <3>1, <3>2 DEF DraftInv
  <2>3. PICK row : row = NextRow(input, at)
    OBVIOUS
  <2>4. drafts[w].row = row
    BY <2>2, <2>3
  <2>5. ~KeyTaken(input.key)
    BY <1>2, <2>3, <2>4, NextRowIs DEF CommitAppend, Unique
  <2>6. log' = log \cup {row}
    BY <1>2, <2>4 DEF CommitAppend
  <2>7. LogInv'
    BY <2>1, <2>3, <2>5, <2>6, AppendKeepsLog
  <2>8. drafts' = Overtaken(w)
    BY <1>2 DEF CommitAppend
  <2> QED BY <2>1, <2>7, <2>8, OvertakenDrafts
<1>3. CASE AbandonAppend(w)
  BY <1>3, StandingLog DEF AbandonAppend
<1> QED BY <1>1, <1>2, <1>3

LEMMA ChainStep ==
    ASSUME ChainInv, [ChainNext]_chainVars
    PROVE  ChainInv'
<1>1. CASE RegistrySteps /\ UNCHANGED <<log, drafts, anchors, migrated, damaged, repinned>>
  BY <1>1, StandingLog
<1>2. CASE Appending
  BY <1>2, AppendStep DEF Appending
<1>3. CASE Migrate
  <2> SUFFICES ASSUME ~damaged PROVE LogInv' /\ \A v \in Writers : DraftInv(v)'
    BY <1>3 DEF ChainInv, Migrate
  <2>1. log' = Backfill /\ drafts' = Overtaken(None)
    BY <1>3 DEF Migrate
  <2>2. LogInv'
    BY <2>1, MigrationKeepsLog DEF ChainInv
  <2> QED BY <2>1, <2>2, OvertakenDrafts DEF ChainInv
<1>4. CASE Attesting
  <2> SUFFICES ASSUME ~damaged PROVE LogInv' /\ \A v \in Writers : DraftInv(v)'
    <3>1. damaged' = damaged
      BY <1>4 DEF Attesting, AttestHead
    <3> QED BY <3>1 DEF ChainInv
  <2> DEFINE input == [kind |-> Attested, run |-> None, key |-> None]
  <2>1. PICK row : row = NextRow(input, now)
    OBVIOUS
  <2>2. log' = log \cup {row} /\ drafts' = Overtaken(None)
    BY <1>4, <2>1 DEF Attesting, AttestHead
  <2>3. ~KeyTaken(input.key)
    BY DEF KeyTaken
  <2>4. LogInv'
    BY <2>1, <2>2, <2>3, AppendKeepsLog DEF ChainInv
  <2> QED BY <2>2, <2>4, OvertakenDrafts DEF ChainInv
<1>5. CASE Damage
  BY <1>5 DEF Damage, ChainInv
<1>6. CASE LoseAnchor \/ RepinAnchor
  BY <1>6 DEF LoseAnchor, RepinAnchor, ChainInv
<1>7. CASE UNCHANGED chainVars
  BY <1>7, StandingLog DEF chainVars
<1> QED BY <1>1, <1>2, <1>3, <1>4, <1>5, <1>6, <1>7 DEF ChainNext

LEMMA ChainStarts == ChainInit => ChainInv
<1> SUFFICES ASSUME ChainInit PROVE LogInv /\ \A w \in Writers : DraftInv(w)
  BY DEF ChainInv
<1>1. \A w \in Writers : DraftInv(w)
  BY DEF ChainInit, DraftInv
<1>2. \A r \in log : r = LegacyRow
  BY DEF ChainInit
<1>3. DOMAIN LegacyRow = Fields /\ LegacyRow.seq = 1 /\ LegacyRow.run = None
      /\ LegacyRow.hash = None
  BY DEF LegacyRow, Fields
<1>4. Numbered(log)
  <2>1. CASE log = {}
    <3>1. Cardinality(log) = 0 /\ IsFiniteSet(log)
      BY <2>1, FS_EmptySet
    <3> QED BY <2>1, <3>1 DEF Numbered
  <2>2. CASE log = {LegacyRow}
    <3>1. Cardinality(log) = 1 /\ IsFiniteSet(log)
      BY <2>2, FS_Singleton
    <3>2. {r.seq : r \in log} = {1}
      BY <2>2, <1>3
    <3> QED BY <2>2, <3>1, <3>2 DEF Numbered
  <2> QED BY <2>1, <2>2 DEF ChainInit
<1>5. ASSUME NEW run \in Runs PROVE RunNumbered(run)
  <2>1. RunRows(run) = {}
    BY <1>2, <1>3, ChainAssumption DEF RunRows
  <2>2. Cardinality({}) = 0
    BY FS_EmptySet
  <2> QED BY <2>1, <2>2 DEF RunNumbered
<1> QED BY <1>1, <1>2, <1>3, <1>4, <1>5 DEF LogInv, KeysDiffer

\* Any number of processes append to one log as if they took turns, through the migration
\* and any number of attestations (events.ts append).
THEOREM LogIsLinear == ChainSpec => []ChainIsLinear
<1>1. ChainInv => ChainIsLinear
  BY DEF ChainInv, ChainIsLinear, LogInv, Numbered, RunNumbered, KeysDiffer
<1>2. ChainInv /\ [ChainNext]_chainVars => ChainInv'
  BY ChainStep
<1> QED BY <1>1, <1>2, ChainStarts, PTL DEF ChainSpec

-------------------------------------------------------------------------------
(* One history.                                                            *)

\* In a log without gaps each row is the one of its number.
LEMMA RowOfNumber ==
    ASSUME LogInv
    PROVE  /\ Cardinality(log) \in Nat
           /\ \A r \in log : r.seq \in 1..Cardinality(log) /\ RowAt(r.seq) = r
           /\ \A n \in 1..Cardinality(log) : RowAt(n) \in log /\ RowAt(n).seq = n
<1>1. Numbered(log)
  BY DEF LogInv
<1>2. \A r \in log : RowAt(r.seq) = r
  BY <1>1 DEF Numbered, RowAt
<1> QED BY <1>1, <1>2, HeadOfRows DEF Numbered

LEMMA LogHistoryIs ==
    ASSUME LogInv, ~damaged
    PROVE  /\ Len(LogHistory) = Cardinality(log)
           /\ \A n \in 1..Cardinality(log) : LogHistory[n] = Entry(RowAt(n))
<1>1. LogHistory = [n \in 1..Cardinality(log) |-> Entry(RowAt(n))]
  BY DEF LogHistory
<1>2. Cardinality(log) \in Nat
  BY RowOfNumber
<1> QED BY <1>1, <1>2

LEMMA AddingExtends ==
    ASSUME LogInv, LogInv', ~damaged, ~damaged', NEW CONSTANT row, row \notin log,
           log' = log \cup {row}
    PROVE  AppendOnly!AddEntry
<1> DEFINE n == Cardinality(log)
<1>1. n \in Nat /\ Cardinality(log') = n + 1
  BY AddingOne, RowOfNumber DEF LogInv, Numbered
<1>2. /\ Len(LogHistory) = n
      /\ \A m \in 1..n : LogHistory[m] = Entry(RowAt(m))
  BY LogHistoryIs
<1>3. /\ Len(LogHistory') = n + 1
      /\ \A m \in 1..(n + 1) : LogHistory'[m] = Entry(RowAt(m)')
  <2>1. /\ Len(LogHistory') = Cardinality(log')
        /\ \A m \in 1..Cardinality(log') : LogHistory'[m] = Entry(RowAt(m)')
    <3>1. LogHistory' = [m \in 1..Cardinality(log') |-> Entry(RowAt(m)')]
      BY DEF LogHistory, Entry
    <3>2. Cardinality(log') \in Nat
      BY <1>1
    <3> HIDE DEF n
    <3> QED BY <3>1, <3>2
  <2> QED BY <1>1, <2>1
<1>4. \A m \in 1..n : RowAt(m)' = RowAt(m)
  <2> SUFFICES ASSUME NEW m \in 1..n PROVE RowAt(m)' = RowAt(m)
    OBVIOUS
  <2>1. RowAt(m) \in log /\ RowAt(m).seq = m
    BY RowOfNumber
  <2>2. \A r, s \in log' : r.seq = s.seq => r = s
    BY DEF LogInv, Numbered
  <2>3. \A r \in log' : r.seq = m <=> r = RowAt(m)
    BY <2>1, <2>2
  <2>4. RowAt(m)' = CHOOSE r \in log' : r.seq = m
    BY DEF RowAt
  <2> QED BY <2>1, <2>3, <2>4
<1>5. \A m \in 1..n : LogHistory'[m] = LogHistory[m]
  <2>1. \A m \in 1..n : m \in 1..(n + 1)
    BY <1>1
  <2> QED BY <1>2, <1>3, <1>4, <2>1
<1> QED BY <1>1, <1>2, <1>3, <1>5 DEF AppendOnly!AddEntry

\* What an append writes is not in the log.
LEMMA NextRowIsNew ==
    ASSUME LogInv, NEW input, NEW at, NEW row, row = NextRow(input, at)
    PROVE  row \notin log
<1>1. row.seq = HeadSeq(log) + 1
  BY NextRowIs
<1>2. HeadSeq(log) = Cardinality(log) /\ Cardinality(log) \in Nat
      /\ \A r \in log : r.seq \in 1..Cardinality(log)
  BY HeadOfRows DEF LogInv
<1> QED BY <1>1, <1>2

\* The migration gives the rows of the chain nothing, and legacy rows no other entry.
LEMMA MigrationExtendsNothing ==
    ASSUME LogInv, LogInv', ~damaged, ~damaged', log' = Backfill
    PROVE  LogHistory' = LogHistory
<1>1. Cardinality(log') = Cardinality(log)
  BY MigrationKeepsLog
<1>2. ASSUME NEW n \in 1..Cardinality(log)
      PROVE  Entry(RowAt(n)') = Entry(RowAt(n))
  <2>1. PICK r : r = RowAt(n)
    OBVIOUS
  <2>2. r \in log /\ r.seq = n /\ DOMAIN r = Fields
    BY <2>1, RowOfNumber DEF LogInv
  <2>3. PICK q \in log' : q = IF LegacyBareRow(r) THEN [r EXCEPT !.kind = Backfilled] ELSE r
    BY <2>2 DEF Backfill
  <2>4. q.seq = n /\ q.hash = r.hash
    BY <2>2, <2>3 DEF Fields
  <2>5. RowAt(n)' = q
    <3>1. \A x, y \in log' : x.seq = y.seq => x = y
      BY DEF LogInv, Numbered
    <3>2. RowAt(n)' = CHOOSE x \in log' : x.seq = n
      BY DEF RowAt
    <3> QED BY <2>4, <3>1, <3>2
  <2>6. Entry(q) = Entry(r)
    <3>1. CASE LegacyBareRow(r)
      <4>1. r.hash = None
        BY <3>1 DEF LegacyBareRow
      <4>2. Entry(q) = [q EXCEPT !.kind = Bare] /\ Entry(r) = [r EXCEPT !.kind = Bare]
        BY <2>4, <4>1 DEF Entry
      <4>3. q = [r EXCEPT !.kind = Backfilled]
        BY <2>3, <3>1
      <4> QED BY <4>2, <4>3
    <3>2. CASE ~LegacyBareRow(r)
      BY <2>3, <3>2
    <3> QED BY <3>1, <3>2
  <2> QED BY <2>1, <2>5, <2>6
<1>3. LogHistory' = [n \in 1..Cardinality(log') |-> Entry(RowAt(n)')]
  BY DEF LogHistory, Entry
<1>4. LogHistory = [n \in 1..Cardinality(log) |-> Entry(RowAt(n))]
  BY DEF LogHistory
<1> QED BY <1>1, <1>2, <1>3, <1>4

LEMMA ChainRefines ==
    ASSUME ChainInv, ChainInv', [ChainNext]_chainVars
    PROVE  [AppendOnly!Next]_(AppendOnly!vars)
<1>1. CASE damaged'
  BY <1>1 DEF AppendOnly!Next, AppendOnly!Break
<1>2. CASE ~damaged'
  <2>0. /\ damaged' = damaged /\ ~damaged /\ LogInv /\ LogInv'
        /\ \A w \in Writers : DraftInv(w)
    <3>1. damaged' = damaged
      BY <1>2 DEF ChainNext, Appending, BeginAppend, CommitAppend, AbandonAppend, Migrate,
         Attesting, AttestHead, Damage, LoseAnchor, RepinAnchor, chainVars
    <3> QED BY <1>2, <3>1 DEF ChainInv
  <2>1. CASE UNCHANGED log
    BY <2>0, <2>1 DEF AppendOnly!vars, LogHistory, RowAt, Entry
  <2>2. ASSUME NEW w \in Writers, CommitAppend(w) PROVE AppendOnly!AddEntry
    <3>1. PICK input, at : drafts[w] = [row |-> NextRow(input, at), stale |-> FALSE]
      <4>1. drafts[w] # None /\ ~drafts[w].stale
        BY <2>2 DEF CommitAppend
      <4>2. ASSUME NEW row, drafts[w] = [row |-> row, stale |-> TRUE] PROVE FALSE
        BY <4>1, <4>2
      <4> QED BY <2>0, <4>1, <4>2 DEF DraftInv
    <3>2. PICK row : row = NextRow(input, at)
      OBVIOUS
    <3>3. drafts[w].row = row
      BY <3>1, <3>2
    <3>4. log' = log \cup {row}
      BY <2>2, <3>3 DEF CommitAppend
    <3> QED BY <2>0, <3>2, <3>4, NextRowIsNew, AddingExtends
  <2>3. CASE Migrate
    <3>1. LogHistory' = LogHistory
      BY <2>0, <2>3, MigrationExtendsNothing DEF Migrate
    <3> QED BY <2>0, <3>1 DEF AppendOnly!vars
  <2>4. CASE Attesting
    <3> DEFINE input == [kind |-> Attested, run |-> None, key |-> None]
    <3>1. PICK row : row = NextRow(input, now)
      OBVIOUS
    <3>2. log' = log \cup {row}
      BY <2>4, <3>1 DEF Attesting, AttestHead
    <3>3. AppendOnly!AddEntry
      BY <2>0, <3>1, <3>2, NextRowIsNew, AddingExtends
    <3> QED BY <3>3 DEF AppendOnly!Next
  <2>5. \/ UNCHANGED log \/ Migrate \/ Attesting
        \/ \E w \in Writers : CommitAppend(w)
    BY <1>2 DEF ChainNext, Appending, BeginAppend, AbandonAppend, Damage, LoseAnchor,
                RepinAnchor, chainVars
  <2> QED BY <2>1, <2>2, <2>3, <2>4, <2>5 DEF AppendOnly!Next
<1> QED BY <1>1, <1>2

\* Any number of writers, the migration and the attestations implement one history that grows
\* at its end and is never rewritten, until the file is damaged from below (events.ts append).
THEOREM ChainImplementsAppendOnlyLog == ChainSpec => ImplementsAppendOnlyLog
<1>1. ChainInit => AppendOnly!Init
  BY DEF ChainInit, AppendOnly!Init
<1>2. ChainInv /\ [ChainNext]_chainVars => ChainInv'
  BY ChainStep
<1>3. ChainInv /\ ChainInv' /\ [ChainNext]_chainVars => [AppendOnly!Next]_(AppendOnly!vars)
  BY ChainRefines
<1> QED BY <1>1, <1>2, <1>3, ChainStarts, PTL
        DEF ChainSpec, ImplementsAppendOnlyLog, AppendOnly!Spec

\* An anchor too is signed only with a key that stands at that moment
\* (chain-attestation.ts attestChainHead).
THEOREM FallenKeysAnchorNothing ==
    ChainSpec => [][\A s \in signatures' \ signatures :
                        Stands(s.key) /\ WithinWindow(s.key, now) /\ s.signer \in Humans]_chainVars
<1> DEFINE A == \A s \in signatures' \ signatures :
                   Stands(s.key) /\ WithinWindow(s.key, now) /\ s.signer \in Humans
<1>1. ASSUME ChainNext PROVE A
  <2>1. CASE RegistrySteps
    BY <2>1 DEF RegistrySteps, Authenticate, Enrol, RevokeKey, SetPrincipalStatus, TimePasses
  <2>2. ASSUME NEW c \in Clients, NEW material, AttestHead(c, material) PROVE A
    <3>1. PICK class, object, claims, at : Sign(c, class, object, claims, at, material)
      BY <2>2 DEF AttestHead
    <3> QED BY <3>1, SignFacts
  <2>3. CASE Appending \/ Migrate \/ Damage \/ LoseAnchor \/ RepinAnchor
    BY <2>3 DEF Appending, BeginAppend, CommitAppend, AbandonAppend, Migrate, Damage,
                LoseAnchor, RepinAnchor, signingVars
  <2> QED BY <1>1, <2>1, <2>2, <2>3 DEF ChainNext, Attesting
<1> QED BY <1>1, PTL DEF ChainSpec

-------------------------------------------------------------------------------
(* No false alarm.                                                         *)

SignedAnchor(a) ==
    \E s \in signatures :
        /\ s.class = "chain_attestation" /\ s.object = a.id /\ s.key = a.key /\ s.key \in Keys
        /\ s.signer = a.signer /\ s.signer = OwnerOf[s.key] /\ s.madeBy = s.key

\* An anchor is signed and pins a row that stays, behind the head.
AnchorStands(a) ==
    /\ a.head \in Nat /\ a.head < Cardinality(log)
    /\ \E r \in log : r.seq = a.head /\ r.hash = a.hash /\ r.hash # None
    /\ SignedAnchor(a)

AnchorsHaveLatest == anchors = {} \/ \E a \in anchors : \A b \in anchors : b.head <= a.head

AnchorsInv == ~damaged => AnchorsHaveLatest /\ \A a \in anchors : AnchorStands(a)

\* While rows with a hash stay and signatures stay, so do the anchors.
LEMMA AnchorsStay ==
    ASSUME ~damaged, LogInv, AnchorsHaveLatest, \A a \in anchors : AnchorStands(a),
           anchors' = anchors, signatures \subseteq signatures',
           \A r \in log : r.hash # None => r \in log',
           Cardinality(log') \in Nat, Cardinality(log) <= Cardinality(log')
    PROVE  AnchorsHaveLatest' /\ \A a \in anchors' : AnchorStands(a)'
<1>1. AnchorsHaveLatest'
  BY DEF AnchorsHaveLatest
<1>2. ASSUME NEW a \in anchors' PROVE AnchorStands(a)'
  <2>1. Cardinality(log) \in Nat
    BY HeadOfRows DEF LogInv
  <2>2. a.head \in Nat /\ a.head < Cardinality(log')
    BY <2>1 DEF AnchorStands
  <2>3. \E r \in log' : r.seq = a.head /\ r.hash = a.hash /\ r.hash # None
    BY DEF AnchorStands
  <2>4. SignedAnchor(a)'
    BY DEF AnchorStands, SignedAnchor
  <2> QED BY <2>2, <2>3, <2>4 DEF AnchorStands
<1> QED BY <1>1, <1>2

LEMMA AttestingKeepsAnchors ==
    ASSUME ~damaged, LogInv, LogInv', AnchorsHaveLatest, \A a \in anchors : AnchorStands(a),
           NEW c \in Clients, NEW material, AttestHead(c, material)
    PROVE  AnchorsHaveLatest' /\ \A a \in anchors' : AnchorStands(a)'
<1> DEFINE head == Last1(log)
           claims == [head |-> head.seq, hash |-> head.hash, count |-> Cardinality(log),
                      previous |-> AttestedHead, at |-> head.at]
           n == Cardinality(log)
<1>1. n \in Nat /\ Cardinality(log') = n + 1
  <2>1. PICK row : row = NextRow([kind |-> Attested, run |-> None, key |-> None], now)
    OBVIOUS
  <2>2. log' = log \cup {row}
    BY <2>1 DEF AttestHead
  <2>3. row \notin log
    BY <2>1, HeadOfRows, NextRowIs DEF LogInv
  <2> QED BY <2>2, <2>3, AddingOne, HeadOfRows DEF LogInv, Numbered
<1>2. head \in log /\ head.seq = n /\ head.hash # None
  <2>1. n \in 1..n
    <3>1. log # {} /\ IsFiniteSet(log)
      BY DEF AttestHead, LogInv, Numbered
    <3> QED BY <3>1, <1>1, FS_EmptySet
  <2>2. head \in log /\ head.seq = n
    BY <2>1, HeadOfRows DEF LogInv
  <2> QED BY <2>2 DEF AttestHead
<1>3. head \in log'
  BY <1>2 DEF AttestHead
<1> DEFINE pinned == [id |-> FreshId, head |-> head.seq, hash |-> head.hash,
                      count |-> Cardinality(log), previous |-> AttestedHead,
                      key |-> sessions[c].key, signer |-> sessions[c].principal,
                      at |-> head.at]
<1>4. PICK new : /\ anchors' = anchors \cup {new}
                 /\ new.id = FreshId /\ new.head = n /\ new.hash = head.hash
                 /\ new.key = sessions[c].key /\ new.signer = sessions[c].principal
  <2>1. RecordAnchor(pinned)
    BY DEF AttestHead
  <2>2. anchors' = anchors \cup {pinned}
    BY <2>1 DEF RecordAnchor
  <2>3. pinned.id = FreshId /\ pinned.head = n /\ pinned.hash = head.hash
        /\ pinned.key = sessions[c].key /\ pinned.signer = sessions[c].principal
    BY <1>2
  <2> HIDE DEF pinned
  <2> QED BY <2>2, <2>3
<1>5. PICK s : /\ signatures' = signatures \cup {s}
               /\ s = [class |-> "chain_attestation", object |-> FreshId, claims |-> claims,
                       key |-> sessions[c].key, signer |-> sessions[c].principal,
                       madeBy |-> material, at |-> head.at]
               /\ s.key \in Keys /\ s.signer = OwnerOf[s.key] /\ s.madeBy = s.key
  <2>1. Sign(c, "chain_attestation", FreshId, claims, head.at, material)
    BY DEF AttestHead
  <2> HIDE DEF claims
  <2> QED BY <2>1, SignFacts
<1>6. AnchorStands(new)'
  <2>1. s.class = "chain_attestation" /\ s.object = new.id /\ s.key = new.key
        /\ s.signer = new.signer
    BY <1>4, <1>5
  <2>2. SignedAnchor(new)'
    BY <1>5, <2>1 DEF SignedAnchor
  <2> QED BY <1>1, <1>2, <1>3, <1>4, <2>2 DEF AnchorStands
<1>7. ASSUME NEW a \in anchors PROVE AnchorStands(a)' /\ a.head <= new.head
  <2>1. /\ a.head \in Nat /\ a.head < n
        /\ \E r \in log : r.seq = a.head /\ r.hash = a.hash /\ r.hash # None
        /\ SignedAnchor(a)
    BY DEF AnchorStands
  <2>2. log \subseteq log'
    BY DEF AttestHead
  <2>3. SignedAnchor(a)'
    BY <1>5, <2>1 DEF SignedAnchor
  <2> QED BY <1>1, <1>4, <2>1, <2>2, <2>3 DEF AnchorStands
<1>8. AnchorsHaveLatest'
  BY <1>1, <1>4, <1>7 DEF AnchorsHaveLatest
<1> QED BY <1>4, <1>6, <1>7, <1>8

LEMMA AnchorsStep ==
    ASSUME ChainInv, AnchorsInv, [ChainNext]_chainVars
    PROVE  AnchorsInv'
<1>0. damaged => damaged'
  <2>1. CASE UNCHANGED chainVars
    BY <2>1 DEF chainVars
  <2>2. CASE RegistrySteps /\ UNCHANGED <<log, drafts, anchors, migrated, damaged, repinned>>
    BY <2>2
  <2>3. CASE Appending
    BY <2>3 DEF Appending, BeginAppend, CommitAppend, AbandonAppend
  <2>4. CASE Migrate
    BY <2>4 DEF Migrate
  <2>5. CASE Attesting
    <3>1. PICK c \in Clients, material \in Keys \cup {None} : AttestHead(c, material)
      BY <2>5 DEF Attesting
    <3> QED BY <3>1 DEF AttestHead
  <2>6. CASE Damage \/ LoseAnchor \/ RepinAnchor
    BY <2>6 DEF Damage, LoseAnchor, RepinAnchor
  <2> QED BY <2>1, <2>2, <2>3, <2>4, <2>5, <2>6 DEF ChainNext
<1> SUFFICES ASSUME ~damaged, ~damaged'
             PROVE  AnchorsHaveLatest' /\ \A a \in anchors' : AnchorStands(a)'
  BY <1>0 DEF AnchorsInv
<1>1. LogInv /\ LogInv' /\ AnchorsHaveLatest /\ \A a \in anchors : AnchorStands(a)
  BY ChainStep DEF ChainInv, AnchorsInv
<1>2. Cardinality(log) \in Nat /\ Cardinality(log') \in Nat
  BY <1>1, HeadOfRows DEF LogInv
<1>3. CASE UNCHANGED <<log, anchors, signatures>>
  BY <1>1, <1>2, <1>3, AnchorsStay
<1>4. ASSUME NEW w \in Writers, CommitAppend(w)
      PROVE  AnchorsHaveLatest' /\ \A a \in anchors' : AnchorStands(a)'
  <2>1. /\ log \subseteq log' /\ IsFiniteSet(log')
        /\ anchors' = anchors /\ signatures' = signatures
    BY <1>1, <1>4 DEF CommitAppend, signingVars, LogInv, Numbered
  <2>2. Cardinality(log) <= Cardinality(log')
    BY <2>1, FS_Subset
  <2> QED BY <1>1, <1>2, <2>1, <2>2, AnchorsStay
<1>5. CASE Migrate
  <2>1. /\ log' = Backfill
        /\ anchors' = anchors /\ signatures' = signatures
    BY <1>5 DEF Migrate, signingVars
  <2>2. \A r \in log : r.hash # None => r \in log'
    BY <2>1 DEF Backfill, LegacyBareRow
  <2>3. Cardinality(log') = Cardinality(log)
    BY <2>1, <1>1, MigrationKeepsLog
  <2> QED BY <1>1, <1>2, <2>1, <2>2, <2>3, AnchorsStay
<1>6. ASSUME NEW c \in Clients, NEW material, AttestHead(c, material)
      PROVE  AnchorsHaveLatest' /\ \A a \in anchors' : AnchorStands(a)'
  BY <1>1, <1>6, AttestingKeepsAnchors
<1>7. CASE RegistrySteps /\ UNCHANGED <<log, drafts, anchors, migrated, damaged, repinned>>
  BY <1>3, <1>7 DEF RegistrySteps, Authenticate, Enrol, RevokeKey, SetPrincipalStatus,
                    TimePasses
<1>8. CASE Appending
  <2>1. ASSUME NEW w \in Writers,
               (\E input \in Inputs, at \in 0..now : BeginAppend(w, input, at)) \/ AbandonAppend(w)
        PROVE  UNCHANGED <<log, anchors, signatures>>
    BY <2>1 DEF BeginAppend, AbandonAppend, signingVars
  <2> QED BY <1>3, <1>4, <1>8, <2>1 DEF Appending
<1>9. CASE UNCHANGED chainVars
  BY <1>3, <1>9 DEF chainVars, signingVars
<1>10. CASE Damage \/ LoseAnchor \/ RepinAnchor
  BY <1>10 DEF Damage, LoseAnchor, RepinAnchor
<1> QED BY <1>5, <1>6, <1>7, <1>8, <1>9, <1>10 DEF ChainNext, Attesting

\* A log nobody damaged verifies, as long as the key of the newest anchor stands and its
\* window holds the time of the attested head (events.ts verifyChain,
\* chain-attestation.ts verifyChainHeadAttestation).
THEOREM NoFalseAlarm == ChainSpec => []SoundLogVerifies
<1>1. ChainInv /\ AnchorsInv => SoundLogVerifies
  <2> SUFFICES ASSUME ChainInv, AnchorsInv, ~damaged, \A r \in log : r.hash # None,
                      Latest # None => Stands(Latest.key) /\ WithinWindow(Latest.key, Latest.at)
               PROVE  VerifiesChain
    BY DEF SoundLogVerifies
  <2>1. WalkVerifies
    BY DEF ChainInv, LogInv, WalkVerifies
  <2>2. ASSUME Latest # None PROVE AnchorVerifies(Latest) /\ MatchesAnchor(Latest)
    <3>1. Latest \in anchors
      <4>1. anchors # {} /\ \E a \in anchors : \A b \in anchors : b.head <= a.head
        BY <2>2 DEF Latest, AnchorsInv, AnchorsHaveLatest
      <4> QED BY <4>1 DEF Latest
    <3> DEFINE a == Latest
    <3> HIDE DEF a
    <3>2. AnchorStands(a)
      BY <3>1 DEF a, AnchorsInv
    <3>3. HeadSeq(log) = Cardinality(log) /\ Cardinality(log) \in Nat
      BY HeadOfRows DEF ChainInv, LogInv
    <3>4. MatchesAnchor(a)
      BY <3>2, <3>3 DEF AnchorStands, MatchesAnchor, HeadNotBehind
    <3>5. Stands(a.key) /\ WithinWindow(a.key, a.at)
      BY <2>2 DEF a
    <3>6. AnchorVerifies(a)
      BY <3>2, <3>5 DEF AnchorStands, SignedAnchor, AnchorVerifies, SignatureOf, Verifies,
                        NamesKey, MadeFor, Stands
    <3> QED BY <3>4, <3>6 DEF a
  <2> QED BY <2>1, <2>2 DEF VerifiesChain
<1>2. ChainInit => AnchorsInv
  BY DEF ChainInit, AnchorsInv, AnchorsHaveLatest
<1>3. ChainInv /\ AnchorsInv /\ [ChainNext]_chainVars => ChainInv' /\ AnchorsInv'
  BY ChainStep, AnchorsStep
<1> QED BY <1>1, <1>2, <1>3, ChainStarts, PTL DEF ChainSpec

-------------------------------------------------------------------------------
(* No silence.                                                             *)
(*                                                                         *)
(* This holds of a damaged log too, so it rests on what damage leaves:      *)
(* rows are numbered, each number is there once, and there is a highest.    *)

Row1(r) == DOMAIN r = Fields /\ r.seq \in Nat \ {0}

NumbersDiffer(L) == \A r, s \in L : r.seq = s.seq => r = s
Bounded(L) == \E bound \in Nat : \A r \in L : r.seq <= bound
SoundRows(L) == (\A r \in L : Row1(r)) /\ NumbersDiffer(L) /\ Bounded(L)

SoundDraft(w) == drafts[w] # None => "row" \in DOMAIN drafts[w] /\ Row1(drafts[w].row)

RowsInv == SoundRows(log) /\ \A w \in Writers : SoundDraft(w)

\* A bounded set of numbers has a highest one.
LEMMA HighestNumber ==
    ASSUME NEW S \in SUBSET Nat, S # {}, NEW bound \in Nat, \A m \in S : m <= bound
    PROVE  \E n \in S : \A m \in S : m <= n
<1> DEFINE Bounds == {k \in Nat : \A m \in S : m <= k}
<1>1. Bounds # {} /\ Bounds \in SUBSET Nat
  OBVIOUS
<1>2. PICK least \in Bounds : \A other \in Bounds : least <= other
  BY <1>1, LeastNumber
<1>3. least \in S
  <2> SUFFICES ASSUME least \notin S PROVE FALSE
    OBVIOUS
  <2>1. \A m \in S : m < least
    BY <1>2
  <2>2. PICK m \in S : m \in Nat /\ m < least
    BY <2>1
  <2>3. least - 1 \in Nat /\ least - 1 < least
    BY <1>2, <2>2
  <2>4. least - 1 \in Bounds
    BY <1>2, <2>1, <2>3
  <2> QED BY <1>2, <2>3, <2>4
<1> QED BY <1>2, <1>3

\* Numbered rows have a newest one.
LEMMA NewestRow ==
    ASSUME NEW L, L # {}, \A r \in L : r.seq \in Nat, Bounded(L)
    PROVE  Last1(L) \in L /\ \A s \in L : s.seq <= Last1(L).seq
<1> DEFINE S == {r.seq : r \in L}
<1>1. PICK bound \in Nat : \A m \in S : m <= bound
  BY DEF Bounded
<1>2. S \in SUBSET Nat /\ S # {}
  OBVIOUS
<1>3. \E n \in S : \A m \in S : m <= n
  <2> HIDE DEF S
  <2> QED BY <1>1, <1>2, HighestNumber
<1>4. \E r \in L : \A s \in L : s.seq <= r.seq
  BY <1>3
<1> QED BY <1>4 DEF Last1

LEMMA HeadIsNumber ==
    ASSUME NEW L, SoundRows(L)
    PROVE  HeadSeq(L) \in Nat /\ \A r \in L : r.seq <= HeadSeq(L)
BY NewestRow DEF SoundRows, Row1, HeadSeq

\* What an append would write is a numbered row, beyond the head.
LEMMA NextRowSound ==
    ASSUME SoundRows(log), NEW input, NEW at
    PROVE  Row1(NextRow(input, at)) /\ NextRow(input, at).seq = HeadSeq(log) + 1
<1>1. PICK row : row = NextRow(input, at)
  OBVIOUS
<1> QED BY <1>1, NextRowIs, HeadIsNumber DEF Row1

LEMMA AddingRow ==
    ASSUME NEW L, SoundRows(L), NEW row, Row1(row), \A r \in L : r.seq # row.seq
    PROVE  SoundRows(L \cup {row})
<1>1. PICK bound \in Nat : \A r \in L : r.seq <= bound
  BY DEF SoundRows, Bounded
<1>2. PICK more \in Nat : bound <= more /\ row.seq <= more
  BY DEF Row1
<1>3. \A r \in L \cup {row} : r.seq <= more
  BY <1>1, <1>2 DEF SoundRows, Row1
<1> QED BY <1>3 DEF SoundRows, NumbersDiffer, Bounded

\* Rows that keep the numbers of others are as sound as they are.
LEMMA RenamedRows ==
    ASSUME NEW L, SoundRows(L), NEW M, NEW f,
           M = {f[r] : r \in L}, \A r \in L : DOMAIN f[r] = Fields /\ f[r].seq = r.seq
    PROVE  SoundRows(M)
<1>1. \A q \in M : Row1(q)
  BY DEF SoundRows, Row1
<1>2. NumbersDiffer(M)
  BY DEF SoundRows, NumbersDiffer
<1>3. Bounded(M)
  BY DEF SoundRows, Bounded
<1> QED BY <1>1, <1>2, <1>3 DEF SoundRows

LEMMA StandingDrafts ==
    ASSUME RowsInv, SoundRows(log)',
           \A w \in Writers : drafts'[w] \in {drafts[w], None} \/ SoundDraft(w)'
    PROVE  RowsInv'
BY DEF RowsInv, SoundDraft

LEMMA OvertakenStaySound ==
    ASSUME RowsInv, SoundRows(log)', NEW except, drafts' = Overtaken(except)
    PROVE  RowsInv'
<1> SUFFICES ASSUME NEW w \in Writers, drafts[w] # None, w # except PROVE SoundDraft(w)'
  BY DEF RowsInv, SoundDraft, Overtaken
<1>1. "row" \in DOMAIN drafts[w] /\ Row1(drafts[w].row)
  BY DEF RowsInv, SoundDraft
<1>2. drafts'[w] = [drafts[w] EXCEPT !.stale = TRUE]
  BY DEF Overtaken
<1>3. "row" \in DOMAIN drafts'[w] /\ drafts'[w].row = drafts[w].row
  BY <1>1, <1>2
<1> QED BY <1>1, <1>3 DEF SoundDraft, Row1

\* Rows lost, one of them altered or renumbered, and all of them chained again: the rows
\* that are left have numbers of their own.
LEMMA DamageLeavesRows ==
    ASSUME SoundRows(log), Damage
    PROVE  SoundRows(log)'
<1>1. PICK survivors \in SUBSET log :
        \E rowset \in {survivors} \cup UNION {{(survivors \ {r}) \cup {other} :
                             other \in Changed(r, survivors)} : r \in survivors} :
            log' \in {rowset, Rechain(rowset)}
  BY DEF Damage
<1>2. SoundRows(survivors)
  BY DEF SoundRows, NumbersDiffer, Bounded
<1>3. ASSUME NEW r \in survivors, NEW other \in Changed(r, survivors)
      PROVE  SoundRows((survivors \ {r}) \cup {other})
  <2>1. SoundRows(survivors \ {r})
    BY <1>2 DEF SoundRows, NumbersDiffer, Bounded
  <2>2. Row1(r)
    BY <1>2 DEF SoundRows
  <2>3. Row1(other) /\ \A s \in survivors \ {r} : s.seq # other.seq
    <3>1. CASE other = [r EXCEPT !.kind = "altered"]
      <4>1. DOMAIN other = Fields /\ other.seq = r.seq
        BY <2>2, <3>1 DEF Row1, Fields
      <4> QED BY <1>2, <2>2, <4>1 DEF Row1, SoundRows, NumbersDiffer
    <3>2. ASSUME NEW n \in (1..MaxEvents) \ {s.seq : s \in survivors},
                 other = [r EXCEPT !.seq = n]
          PROVE  Row1(other) /\ \A s \in survivors \ {r} : s.seq # other.seq
      <4>1. DOMAIN other = Fields /\ other.seq = n
        BY <2>2, <3>2 DEF Row1, Fields
      <4>2. n \in Nat \ {0}
        BY <3>2, ChainAssumption
      <4> QED BY <3>2, <4>1, <4>2 DEF Row1
    <3> QED BY <1>3, <3>1, <3>2 DEF Changed
  <2> QED BY <2>1, <2>3, AddingRow
<1>4. ASSUME NEW L, SoundRows(L) PROVE SoundRows(Rechain(L))
  <2> DEFINE before(r) == {s \in L : s.seq < r.seq}
             numbered(n) == CHOOSE r \in L : Cardinality(before(r)) = n - 1
             history(r) == [n \in 1..Cardinality(before(r)) |-> ContentOf(numbered(n))]
             f == [r \in L |-> Sealed(ContentOf(r), history(r))]
  <2>1. Rechain(L) = {f[r] : r \in L}
    BY DEF Rechain
  <2>2. ASSUME NEW r \in L PROVE DOMAIN f[r] = Fields /\ f[r].seq = r.seq
    <3> HIDE DEF history
    <3>1. f[r] = Sealed(ContentOf(r), history(r))
      OBVIOUS
    <3> QED BY <3>1 DEF Sealed, ContentOf, Fields
  <2> HIDE DEF f
  <2> QED BY <1>4, <2>1, <2>2, RenamedRows
<1>5. PICK rowset \in {survivors} \cup UNION {{(survivors \ {r}) \cup {other} :
                           other \in Changed(r, survivors)} : r \in survivors} :
        log' \in {rowset, Rechain(rowset)}
  BY <1>1
<1>6. SoundRows(rowset)
  BY <1>2, <1>3
<1>7. SoundRows(Rechain(rowset))
  BY <1>4, <1>6
<1> QED BY <1>5, <1>6, <1>7

LEMMA RowsStep ==
    ASSUME RowsInv, [ChainNext]_chainVars
    PROVE  RowsInv'
<1>1. CASE UNCHANGED <<log, drafts>>
  BY <1>1 DEF RowsInv, SoundDraft
<1>2. ASSUME NEW w \in Writers, NEW input, NEW at, BeginAppend(w, input, at) PROVE RowsInv'
  <2>1. PICK row : row = NextRow(input, at)
    OBVIOUS
  <2>2. log' = log /\ drafts' = [drafts EXCEPT ![w] = [row |-> row, stale |-> FALSE]]
    BY <1>2, <2>1 DEF BeginAppend
  <2>3. Row1(row) /\ SoundRows(log)'
    BY <2>1, <2>2, NextRowSound DEF RowsInv
  <2>4. ASSUME NEW v \in Writers PROVE drafts'[v] \in {drafts[v], None} \/ SoundDraft(v)'
    <3>1. CASE v = w /\ w \in DOMAIN drafts
      <4>1. drafts'[v] = [row |-> row, stale |-> FALSE]
        BY <2>2, <3>1
      <4> QED BY <2>3, <4>1 DEF SoundDraft
    <3>2. CASE v # w \/ w \notin DOMAIN drafts
      BY <2>2, <3>2
    <3> QED BY <3>1, <3>2
  <2> QED BY <2>3, <2>4, StandingDrafts
<1>3. ASSUME NEW w \in Writers, CommitAppend(w) PROVE RowsInv'
  <2>1. PICK row : row = drafts[w].row /\ Row1(row)
    BY <1>3 DEF CommitAppend, RowsInv, SoundDraft
  <2>2. log' = log \cup {row} /\ \A r \in log : r.seq # row.seq
    BY <1>3, <2>1 DEF CommitAppend, Unique
  <2>3. SoundRows(log)'
    BY <2>1, <2>2, AddingRow DEF RowsInv
  <2>4. drafts' = Overtaken(w)
    BY <1>3 DEF CommitAppend
  <2> QED BY <2>3, <2>4, OvertakenStaySound
<1>4. ASSUME NEW w \in Writers, AbandonAppend(w) PROVE RowsInv'
  <2>1. SoundRows(log)'
    BY <1>4 DEF AbandonAppend, RowsInv
  <2> QED BY <1>4, <2>1, StandingDrafts DEF AbandonAppend
<1>5. CASE Migrate
  <2> DEFINE f == [r \in log |-> IF LegacyBareRow(r) THEN [r EXCEPT !.kind = Backfilled]
                                                       ELSE r]
  <2>1. log' = {f[r] : r \in log}
    BY <1>5 DEF Migrate, Backfill
  <2>2. \A r \in log : DOMAIN f[r] = Fields /\ f[r].seq = r.seq
    BY DEF RowsInv, SoundRows, Row1, Fields
  <2>3. SoundRows(log)'
    <3> HIDE DEF f
    <3> QED BY <2>1, <2>2, RenamedRows DEF RowsInv
  <2>4. drafts' = Overtaken(None)
    BY <1>5 DEF Migrate
  <2> QED BY <2>3, <2>4, OvertakenStaySound
<1>6. ASSUME NEW c \in Clients, NEW material, AttestHead(c, material) PROVE RowsInv'
  <2>1. PICK row : row = NextRow([kind |-> Attested, run |-> None, key |-> None], now)
    OBVIOUS
  <2>2. log' = log \cup {row} /\ drafts' = Overtaken(None)
    BY <1>6, <2>1 DEF AttestHead
  <2>3. Row1(row) /\ row.seq = HeadSeq(log) + 1
    BY <2>1, NextRowSound DEF RowsInv
  <2>4. \A r \in log : r.seq # row.seq
    BY <2>3, HeadIsNumber DEF RowsInv, SoundRows, Row1
  <2>5. SoundRows(log)'
    BY <2>2, <2>3, <2>4, AddingRow DEF RowsInv
  <2> QED BY <2>2, <2>5, OvertakenStaySound
<1>7. CASE Damage
  <2>1. SoundRows(log)' /\ drafts' = Overtaken(None)
    BY <1>7, DamageLeavesRows DEF RowsInv, Damage
  <2> QED BY <2>1, OvertakenStaySound
<1>8. CASE LoseAnchor \/ RepinAnchor
  BY <1>1, <1>8 DEF LoseAnchor, RepinAnchor
<1>9. CASE UNCHANGED chainVars
  BY <1>1, <1>9 DEF chainVars
<1> QED BY <1>1, <1>2, <1>3, <1>4, <1>5, <1>6, <1>7, <1>8, <1>9
        DEF ChainNext, Appending, Attesting

LEMMA RowsStart == ChainInit => RowsInv
<1> SUFFICES ASSUME ChainInit PROVE SoundRows(log)
  BY DEF ChainInit, RowsInv, SoundDraft
<1>1. \A r \in log : r = LegacyRow
  BY DEF ChainInit
<1>2. DOMAIN LegacyRow = Fields /\ LegacyRow.seq = 1
  BY DEF LegacyRow, Fields
<1>3. Bounded(log)
  BY <1>1, <1>2 DEF Bounded
<1> QED BY <1>1, <1>2, <1>3 DEF SoundRows, Row1, NumbersDiffer

\* Whatever is appended, migrated, attested or damaged, every row has a number of its own
\* (events.ts append, the primary key of the events table).
THEOREM RowsStaySound == ChainSpec => []RowsInv
<1>1. RowsInv /\ [ChainNext]_chainVars => RowsInv'
  BY RowsStep
<1> QED BY <1>1, RowsStart, PTL DEF ChainSpec

\* The hash of a row is its history: the contents of the rows up to it, one for one.
History(r) ==
    /\ r.hash \in Seq({ContentOf(s) : s \in log})
    /\ IsFiniteSet(UpTo(log, r.seq))
    /\ Len(r.hash) = Cardinality(UpTo(log, r.seq))
    /\ \A n \in 1..Len(r.hash) : \E s \in log : s.seq <= r.seq /\ ContentOf(s) = r.hash[n]

\* In a log that verifies, a row on top of rows with their histories has its own.
LEMMA OneMoreRow ==
    ASSUME SoundRows(log), WalkVerifies, NEW r \in log,
           \A s \in log : s.seq < r.seq => History(s)
    PROVE  History(r)
<1> DEFINE Contents == {ContentOf(s) : s \in log}
           below == UpTo(log, r.seq - 1)
<1>1. /\ r.hash = Append(r.prev, ContentOf(r))
      /\ r.prev = HeadHash(below)
      /\ \A s \in log : s.hash # None
  BY DEF WalkVerifies, RowAndLinkVerify, RowVerifies, SealedRight, ChainedOn, HashBefore
<1>2. \A s \in log : s.seq \in Nat
  BY DEF SoundRows, Row1
<1>3. UpTo(log, r.seq) = below \cup {r} /\ r \notin below
  BY <1>2 DEF UpTo, SoundRows, NumbersDiffer
<1>4. ContentOf(r) \in Contents
  OBVIOUS
<1>5. CASE below = {}
  <2>1. r.hash = Append(<<>>, ContentOf(r))
    BY <1>1, <1>5 DEF HeadHash, Genesis
  <2>2. r.hash \in Seq(Contents) /\ Len(r.hash) = 1 /\ r.hash[1] = ContentOf(r)
    BY <2>1, <1>4
  <2>3. UpTo(log, r.seq) = {r}
    BY <1>3, <1>5
  <2>4. IsFiniteSet(UpTo(log, r.seq)) /\ Cardinality(UpTo(log, r.seq)) = 1
    BY <2>3, FS_Singleton
  <2>5. \A n \in 1..Len(r.hash) : n = 1
    BY <2>2
  <2> QED BY <2>2, <2>4, <2>5, <1>2 DEF History
<1>6. CASE below # {}
  <2>1. below \subseteq log
    BY DEF UpTo
  <2>2. Bounded(below)
    BY <2>1 DEF SoundRows, Bounded
  <2>3. Last1(below) \in below /\ \A s \in below : s.seq <= Last1(below).seq
    BY <1>2, <1>6, <2>1, <2>2, NewestRow
  <2>4. PICK p \in below : p = Last1(below) /\ \A s \in below : s.seq <= p.seq
    BY <2>3
  <2>5. p \in log /\ p.seq < r.seq /\ p.seq \in Nat /\ r.seq \in Nat
    BY <2>1, <1>2 DEF UpTo
  <2>6. UpTo(log, p.seq) = below
    <3>1. ASSUME NEW s \in log PROVE s.seq <= p.seq <=> s.seq <= r.seq - 1
      <4>1. s.seq \in Nat
        BY <1>2
      <4>2. s.seq <= r.seq - 1 => s.seq <= p.seq
        BY <2>4 DEF UpTo
      <4> QED BY <4>1, <4>2, <2>5
    <3> QED BY <3>1 DEF UpTo
  <2>7. r.prev = p.hash
    <3>1. p.hash # None
      BY <1>1, <2>5
    <3> HIDE DEF below
    <3> QED BY <1>1, <1>6, <2>4, <3>1 DEF HeadHash
  <2>8. History(p)
    BY <2>5
  <2>9. /\ r.hash \in Seq(Contents) /\ Len(r.hash) = Len(p.hash) + 1 /\ Len(p.hash) \in Nat
        /\ \A n \in 1..Len(p.hash) : r.hash[n] = p.hash[n]
        /\ r.hash[Len(p.hash) + 1] = ContentOf(r)
    BY <1>1, <1>4, <2>7, <2>8 DEF History
  <2>10. /\ IsFiniteSet(UpTo(log, r.seq))
         /\ Cardinality(UpTo(log, r.seq)) = Cardinality(below) + 1
    BY <1>3, <2>6, <2>8, AddingOne DEF History
  <2>11. ASSUME NEW n \in 1..Len(r.hash)
         PROVE  \E s \in log : s.seq <= r.seq /\ ContentOf(s) = r.hash[n]
    <3>1. CASE n = Len(p.hash) + 1
      <4>1. r.seq <= r.seq
        BY <2>5
      <4>2. r.hash[n] = ContentOf(r)
        BY <3>1, <2>9
      <4> QED BY <4>1, <4>2
    <3>2. CASE n # Len(p.hash) + 1
      <4>1. n \in 1..Len(p.hash)
        BY <3>2, <2>9
      <4>2. PICK s \in log : s.seq <= p.seq /\ ContentOf(s) = p.hash[n]
        BY <4>1, <2>8 DEF History
      <4> QED BY <4>1, <4>2, <2>5, <2>9, <1>2
    <3> QED BY <3>1, <3>2
  <2> QED BY <2>6, <2>8, <2>9, <2>10, <2>11 DEF History
<1> QED BY <1>5, <1>6

\* Every row of a log that verifies has its history in its hash: a row without one would
\* have a lowest number, and the rows below it would have theirs.
LEMMA VerifiedHistory ==
    ASSUME SoundRows(log), WalkVerifies
    PROVE  \A r \in log : History(r)
<1> DEFINE Without == {r \in log : ~History(r)}
           Numbers == {r.seq : r \in Without}
<1> SUFFICES ASSUME Without # {} PROVE FALSE
  OBVIOUS
<1>1. Numbers \in SUBSET Nat /\ Numbers # {}
  BY DEF SoundRows, Row1
<1>2. PICK least \in Numbers : \A other \in Numbers : least <= other
  <2> HIDE DEF Numbers
  <2> QED BY <1>1, LeastNumber
<1>3. PICK r \in Without : r.seq = least
  BY <1>2
<1>4. \A s \in log : s.seq < r.seq => History(s)
  BY <1>2, <1>3 DEF SoundRows, Row1
<1> QED BY <1>3, <1>4, OneMoreRow

\* What the newest anchor says was signed: an anchor whose row nobody changed has the head
\* and the hash of its signature, which is the only one of its key.
AnchorRow(a) == {"id", "head"} \subseteq DOMAIN a /\ a.head \in Nat
PinnedAsSigned(a) ==
    \E s \in SignatureOf(a) :
        s.key = a.key /\ s.claims.head = a.head /\ s.claims.hash = a.hash

AnchorsBounded == \E bound \in Nat : \A a \in anchors : a.head <= bound
SlotsDiffer == \A r, s \in signatures : SameSlot(r, s) => r = s

PinsInv ==
    /\ SlotsDiffer
    /\ \A a \in anchors : AnchorRow(a) /\ (a.id \in repinned \/ PinnedAsSigned(a))
    /\ AnchorsBounded

\* Anchors that were there and signatures that stay keep it.
LEMMA PinsStay ==
    ASSUME PinsInv, anchors' \subseteq anchors, signatures' = signatures, repinned' = repinned
    PROVE  PinsInv'
<1>1. SlotsDiffer'
  BY DEF PinsInv, SlotsDiffer, SameSlot
<1>2. AnchorsBounded'
  BY DEF PinsInv, AnchorsBounded
<1>3. ASSUME NEW a \in anchors' PROVE AnchorRow(a) /\ (a.id \in repinned' \/ PinnedAsSigned(a)')
  BY DEF PinsInv, PinnedAsSigned, SignatureOf
<1> QED BY <1>1, <1>2, <1>3 DEF PinsInv, AnchorRow

\* An attestation pins what it signs, and no slot is signed twice.
LEMMA AttestingPins ==
    ASSUME RowsInv, PinsInv, NEW c \in Clients, NEW material, AttestHead(c, material)
    PROVE  PinsInv'
<1> DEFINE head == Last1(log)
           claims == [head |-> head.seq, hash |-> head.hash, count |-> Cardinality(log),
                      previous |-> AttestedHead, at |-> head.at]
           pinned == [id |-> FreshId, head |-> head.seq, hash |-> head.hash,
                      count |-> Cardinality(log), previous |-> AttestedHead,
                      key |-> sessions[c].key, signer |-> sessions[c].principal,
                      at |-> head.at]
           row == [class |-> "chain_attestation", object |-> FreshId, claims |-> claims,
                   key |-> sessions[c].key, signer |-> sessions[c].principal,
                   madeBy |-> material, at |-> head.at]
<1>1. head.seq \in Nat
  BY NewestRow DEF AttestHead, RowsInv, SoundRows, Row1
<1>2. /\ anchors' = anchors \cup {pinned} /\ repinned' = repinned
      /\ RecordSignature(row)
  <2>1. Sign(c, "chain_attestation", FreshId, claims, head.at, material)
    BY DEF AttestHead
  <2>2. RecordSignature(row)
    <3> HIDE DEF claims
    <3> QED BY <2>1 DEF Sign, EnvelopeOf
  <2>3. RecordAnchor(pinned) /\ repinned' = repinned
    BY DEF AttestHead
  <2> QED BY <2>2, <2>3 DEF RecordAnchor
<1>3. /\ pinned.id = FreshId /\ pinned.head = head.seq /\ pinned.hash = head.hash
      /\ pinned.key = sessions[c].key /\ {"id", "head"} \subseteq DOMAIN pinned
  OBVIOUS
<1>4. /\ row.class = "chain_attestation" /\ row.object = FreshId /\ row.key = sessions[c].key
      /\ row.claims.head = head.seq /\ row.claims.hash = head.hash
  OBVIOUS
<1> HIDE DEF row, claims, head
<1>new. PICK new : new = pinned
  OBVIOUS
<1> HIDE DEF pinned
<1>5. signatures' = signatures \cup {row} /\ \A r \in signatures : SameSlot(r, row) => r = row
  BY <1>2 DEF RecordSignature
<1>6. SlotsDiffer'
  BY <1>5 DEF PinsInv, SlotsDiffer, SameSlot
<1>7. AnchorsBounded'
  <2>1. PICK bound \in Nat : \A a \in anchors : a.head <= bound
    BY DEF PinsInv, AnchorsBounded
  <2>2. PICK more \in Nat : bound <= more /\ head.seq <= more
    BY <1>1
  <2>3. \A a \in anchors' : a.head <= more
    BY <1>2, <1>3, <2>1, <2>2 DEF PinsInv, AnchorRow
  <2> QED BY <2>3 DEF AnchorsBounded
<1>8. AnchorRow(new) /\ PinnedAsSigned(new)'
  BY <1>1, <1>3, <1>4, <1>5, <1>new DEF AnchorRow, PinnedAsSigned, SignatureOf
<1>9. ASSUME NEW a \in anchors PROVE AnchorRow(a) /\ (a.id \in repinned' \/ PinnedAsSigned(a)')
  BY <1>2, <1>5 DEF PinsInv, PinnedAsSigned, SignatureOf
<1> QED BY <1>2, <1>6, <1>7, <1>8, <1>9, <1>new DEF PinsInv, AnchorRow

\* An anchor whose row was changed keeps its id.
LEMMA RepinningPins ==
    ASSUME RowsInv, PinsInv, RepinAnchor
    PROVE  PinsInv'
<1>1. PICK a \in anchors, r \in log :
         LET other == [a EXCEPT !.head = r.seq, !.hash = r.hash, !.count = Cardinality(log)] IN
         /\ anchors' = (anchors \ {a}) \cup {other}
         /\ repinned' = repinned \cup {a.id}
  BY DEF RepinAnchor, Repinned
<1>2. PICK other : /\ anchors' = (anchors \ {a}) \cup {other}
                   /\ DOMAIN other = DOMAIN a /\ other.id = a.id /\ other.head = r.seq
  <2> DEFINE b == [a EXCEPT !.head = r.seq, !.hash = r.hash, !.count = Cardinality(log)]
  <2>1. DOMAIN b = DOMAIN a /\ b.id = a.id /\ b.head = r.seq
    BY DEF PinsInv, AnchorRow
  <2>2. anchors' = (anchors \ {a}) \cup {b}
    BY <1>1
  <2> HIDE DEF b
  <2> QED BY <2>1, <2>2
<1>3. r.seq \in Nat /\ signatures' = signatures
  BY DEF RowsInv, SoundRows, Row1, RepinAnchor, signingVars
<1>4. SlotsDiffer'
  BY <1>3 DEF PinsInv, SlotsDiffer, SameSlot
<1>5. AnchorsBounded'
  <2>1. PICK bound \in Nat : \A b \in anchors : b.head <= bound
    BY DEF PinsInv, AnchorsBounded
  <2>2. PICK more \in Nat : bound <= more /\ r.seq <= more
    BY <1>3
  <2>3. \A b \in anchors' : b.head <= more
    BY <1>2, <2>1, <2>2 DEF PinsInv, AnchorRow
  <2> QED BY <2>3 DEF AnchorsBounded
<1>6. AnchorRow(other) /\ other.id \in repinned'
  BY <1>1, <1>2, <1>3 DEF PinsInv, AnchorRow
<1>7. ASSUME NEW b \in anchors PROVE AnchorRow(b) /\ (b.id \in repinned' \/ PinnedAsSigned(b)')
  BY <1>1, <1>3 DEF PinsInv, PinnedAsSigned, SignatureOf
<1> QED BY <1>2, <1>4, <1>5, <1>6, <1>7 DEF PinsInv, AnchorRow

LEMMA PinsStep ==
    ASSUME RowsInv, PinsInv, [ChainNext]_chainVars
    PROVE  PinsInv'
<1>1. CASE RegistrySteps /\ UNCHANGED <<log, drafts, anchors, migrated, damaged, repinned>>
  BY <1>1, PinsStay DEF RegistrySteps, Authenticate, Enrol, RevokeKey, SetPrincipalStatus,
                        TimePasses
<1>2. CASE Appending \/ Migrate \/ Damage
  BY <1>2, PinsStay DEF Appending, BeginAppend, CommitAppend, AbandonAppend, Migrate, Damage,
                        signingVars
<1>3. CASE Attesting
  BY <1>3, AttestingPins DEF Attesting
<1>4. CASE LoseAnchor
  BY <1>4, PinsStay DEF LoseAnchor, signingVars
<1>5. CASE RepinAnchor
  BY <1>5, RepinningPins
<1>6. CASE UNCHANGED chainVars
  BY <1>6, PinsStay DEF chainVars, signingVars
<1> QED BY <1>1, <1>2, <1>3, <1>4, <1>5, <1>6 DEF ChainNext

\* When a log verifies and the row of its newest anchor was not changed, the rows up to the
\* signed head are, one for one, those that were signed for, whatever was lost, altered,
\* renumbered and chained again (verify.ts verifyChain, chain-attestation.ts
\* verifyChainHeadAttestation).  The hypothesis is needed: the code does not compare the
\* signed body with the row (VerifiedMeansSigned, refuted by TLC).
THEOREM NoSilence == ChainSpec => []VerifiedMeansAttested
<1>1. RowsInv /\ PinsInv => VerifiedMeansAttested
  <2> SUFFICES ASSUME RowsInv, PinsInv, VerifiesChain, Latest # None, Latest.id \notin repinned,
                      NEW s \in SignatureOf(Latest), s.key = Latest.key
               PROVE  Survives(s.claims)
    BY DEF VerifiedMeansAttested, VerifiedMeansSigned
  <2>1. Latest \in anchors
    <3> DEFINE Heads == {a.head : a \in anchors}
    <3>1. anchors # {}
      BY DEF Latest
    <3>2. PICK bound \in Nat : \A n \in Heads : n <= bound
      BY DEF PinsInv, AnchorsBounded
    <3>3. Heads \in SUBSET Nat /\ Heads # {}
      BY <3>1 DEF PinsInv, AnchorRow
    <3>4. \E n \in Heads : \A m \in Heads : m <= n
      <4> HIDE DEF Heads
      <4> QED BY <3>2, <3>3, HighestNumber
    <3>5. \E a \in anchors : \A b \in anchors : b.head <= a.head
      BY <3>4
    <3> QED BY <3>1, <3>5 DEF Latest
  <2>2. PICK first \in SignatureOf(Latest) :
           first.key = Latest.key /\ first.claims.head = Latest.head
           /\ first.claims.hash = Latest.hash
    BY <2>1 DEF PinsInv, PinnedAsSigned
  <2>3. first = s
    BY <2>2 DEF PinsInv, SlotsDiffer, SameSlot, SignatureOf
  <2>4. PICK r \in log : r.seq = Latest.head /\ r.hash = Latest.hash
    BY DEF VerifiesChain, MatchesAnchor
  <2>5. History(r)
    BY <2>4, VerifiedHistory DEF RowsInv, VerifiesChain
  <2> QED BY <2>2, <2>3, <2>4, <2>5 DEF History, Survives
<1>2. ChainInit => PinsInv
  BY DEF ChainInit, SigningInit, PinsInv, SlotsDiffer, AnchorsBounded
<1>3. RowsInv /\ RowsInv' /\ PinsInv /\ [ChainNext]_chainVars => PinsInv'
  BY PinsStep
<1> QED BY <1>1, <1>2, <1>3, RowsStaySound, PTL DEF ChainSpec

\* The verdict of verify-chain is right both ways: no false alarm, and no silence about a
\* loss the newest surviving anchor can show, as long as nobody changed the row of that
\* anchor (verify.ts verifyChain).
THEOREM VerdictsAreRight == ChainSpec => []VerdictIsRight
BY NoFalseAlarm, NoSilence, PTL DEF VerdictIsRight
===============================================================================
