------------------------------ MODULE SigningKeys ------------------------------
(***************************************************************************)
(* Who may sign, and what a stored signature is worth: security/signing.ts, *)
(* authenticated-principal.ts, signing-broker.ts and the stores of          *)
(* persistence/principals.ts and signatures.ts.                             *)
(*                                                                         *)
(* A client authenticates once and signs later, inside the transaction of   *)
(* what it decides, with whatever key its custody holds by then.  Segments, *)
(* encodings and the curve are abstracted to an envelope that names its     *)
(* class, key, object and claims, and the key that really made it.          *)
(***************************************************************************)
EXTENDS Naturals, FiniteSets

CONSTANTS
    Principals, Humans,    \* principals, and those of kind human
    Keys,                  \* key ids: numbers, in the order of their creation
    OwnerOf,               \* the principal each key is enrolled to
    ValidFrom, ValidUntil, \* the window of each key; None is no upper bound
    Clients,               \* server requests and command lines
    MaxTime,               \* a bound: seconds that pass
    None

ASSUME SigningAssumption ==
    /\ Humans \subseteq Principals
    /\ Keys \subseteq Nat
    /\ OwnerOf \in [Keys -> Principals]
    /\ ValidFrom \in [Keys -> Nat]
    /\ ValidUntil \in [Keys -> Nat \cup {None}]
    /\ MaxTime \in Nat
    /\ None \notin Nat

VARIABLES
    principals,   \* the status of each principal
    keys,         \* the status of each key
    sessions,     \* the authenticated principal of each client, as it was minted
    signatures,   \* governance_signatures
    now           \* substrate time

registryVars == <<principals, keys>>
signingVars == <<principals, keys, sessions, signatures, now>>

Session == [principal : Principals, key : Keys \cup {None}]

SigningInit ==
    /\ principals = [p \in Principals |-> "active"]
    /\ keys \in [Keys -> {"absent", "active"}]
    /\ sessions = [c \in Clients |-> None]
    /\ signatures = {}
    /\ now = 0

-------------------------------------------------------------------------------
(* The registry.                                                           *)

KeysOf(p) == {k \in Keys : OwnerOf[k] = p /\ keys[k] = "active"}

\* A session carries the oldest active key; it is frozen, whatever happens to the
\* registry after.
FirstKey(p) == IF KeysOf(p) = {} THEN None
               ELSE CHOOSE k \in KeysOf(p) : \A other \in KeysOf(p) : k <= other

Authenticate(c, p) ==
    /\ principals[p] = "active"
    /\ sessions' = [sessions EXCEPT ![c] = [principal |-> p, key |-> FirstKey(p)]]
    /\ UNCHANGED <<registryVars, signatures, now>>

\* Ids order keys by creation: a key is enrolled after those before it.
Enrol(k) ==
    /\ keys[k] = "absent"
    /\ \A other \in Keys : other < k => keys[other] # "absent"
    /\ keys' = [keys EXCEPT ![k] = "active"]
    /\ UNCHANGED <<principals, sessions, signatures, now>>

RevokeKey(k) ==
    /\ keys[k] = "active"
    /\ keys' = [keys EXCEPT ![k] = "revoked"]
    /\ UNCHANGED <<principals, sessions, signatures, now>>

SetPrincipalStatus(p, status) ==
    /\ principals[p] # status
    /\ principals' = [principals EXCEPT ![p] = status]
    /\ UNCHANGED <<keys, sessions, signatures, now>>

TimePasses ==
    /\ now < MaxTime
    /\ now' = now + 1
    /\ UNCHANGED <<registryVars, sessions, signatures>>

RegistrySteps ==
    \/ \E c \in Clients, p \in Principals : Authenticate(c, p)
    \/ \E k \in Keys : Enrol(k) \/ RevokeKey(k)
    \/ \E p \in Principals, status \in {"active", "disabled"} : SetPrincipalStatus(p, status)
    \/ TimePasses

-------------------------------------------------------------------------------
(* Signing and verifying.                                                  *)

\* The standing of a key is that of its row and of its owner.
Stands(k) == keys[k] = "active" /\ principals[OwnerOf[k]] = "active"
WithinWindow(k, at) == ValidFrom[k] <= at /\ (ValidUntil[k] # None => at <= ValidUntil[k])

\* The header: the class presented is the class expected, and the key is enrolled.
NamesKey(envelope, class) ==
    envelope.class = class /\ envelope.key \in Keys /\ keys[envelope.key] # "absent"

\* The body and the signature: for this object, by the owner of the key, made with it.
MadeFor(envelope, object) ==
    /\ envelope.object = object
    /\ envelope.signer = OwnerOf[envelope.key]
    /\ envelope.madeBy = envelope.key

\* The registry's verdict on an envelope presented for an object of a class, with
\* the clock the caller chose.
Verifies(envelope, class, object, at) ==
    /\ NamesKey(envelope, class)
    /\ Stands(envelope.key)
    /\ WithinWindow(envelope.key, at)
    /\ MadeFor(envelope, object)

\* The signer is resolved again from the stored rows, not from what the session says.
StoredSigner(c) ==
    /\ sessions[c] # None
    /\ principals[sessions[c].principal] = "active"
    /\ sessions[c].principal \in Humans
    /\ sessions[c].key # None
    /\ OwnerOf[sessions[c].key] = sessions[c].principal
    /\ keys[sessions[c].key] = "active"

EnvelopeOf(c, class, object, claims, material) ==
    [class |-> class, object |-> object, claims |-> claims,
     key |-> sessions[c].key, signer |-> sessions[c].principal, madeBy |-> material]

\* The clock of authority is substrate time, never the time of the decision.
DecidedWithin(envelope, class, object, at) == Verifies(envelope, class, object, at)
SignedWithin(envelope, class, object, at) == Verifies(envelope, class, object, now)

\* One row for an object, a class and a key: the same row again changes nothing,
\* another one is a conflict that undoes the transaction.
SameSlot(r, s) == r.class = s.class /\ r.object = s.object /\ r.key = s.key
RecordSignature(row) ==
    /\ \A r \in signatures : SameSlot(r, row) => r = row
    /\ signatures' = signatures \cup {row}

\* material is the key the client's custody holds, or None.
Sign(c, class, object, claims, at, material) ==
    LET envelope == EnvelopeOf(c, class, object, claims, material)
        row == [class |-> class, object |-> object, claims |-> claims, key |-> envelope.key,
                signer |-> envelope.signer, madeBy |-> material, at |-> at] IN
    /\ StoredSigner(c)
    /\ material # None
    /\ SignedWithin(envelope, class, object, at)
    /\ RecordSignature(row)
===============================================================================
