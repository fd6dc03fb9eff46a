------------------------------- MODULE Authority -------------------------------
(***************************************************************************)
(* What operators do with their authority: attest and revoke keys          *)
(* (principal-authority.ts), and attest the head of the event log          *)
(* (chain-attestation.ts), over the registry and the custody of            *)
(* OperatorCustody.                                                        *)
(*                                                                         *)
(* Attesting and revoking await their signature: standing is read before   *)
(* it, when the signature is verified, and again in the transaction that   *)
(* records.  The head is read, signed and recorded in one transaction.     *)
(***************************************************************************)
EXTENDS OperatorCustody

CONSTANT Requests    \* ids of requests under way

VARIABLES
    requests,     \* requests to attest or to revoke a key
    revokedBy,    \* the signed revocation of each key: who revoked it
    anchors       \* the chain head attestations

authorityVars == <<requests, revokedBy, anchors>>
vars == <<custodyVars, authorityVars>>

Request == [kind : {"principal.key_attested", "principal.key_revoked"},
            by : Principals, subject : Principals, signed : BOOLEAN]

\* head is the sequence number and the count of the events up to it; previous is the
\* head of the attestation before.
Anchor == [head : 1..MaxEvents, previous : 0..MaxEvents, by : Principals]

\* Custody, requests, revocations and anchors have their types.
AuthorityTypeOK ==
    /\ CustodyTypeOK
    /\ requests \in [Requests -> Request \cup {None}]
    /\ revokedBy \in [Principals -> Principals \cup {None}]
    /\ anchors \subseteq Anchor

Init ==
    /\ CustodyInit
    /\ requests = [x \in Requests |-> None]
    /\ revokedBy = [q \in Principals |-> None]
    /\ anchors = {}

-------------------------------------------------------------------------------
(* Attesting and revoking keys.                                            *)

\* The file tier signs with whatever key the file holds; peers hold their own.
HoldsKey(q) == q \in Peers \/ files.key = q

BeginRequest(x, kind, by, subject) ==
    /\ requests[x] = None
    /\ Standing(by)
    /\ keys[subject] # "absent"
    /\ requests' = [requests EXCEPT ![x] =
           [kind |-> kind, by |-> by, subject |-> subject, signed |-> FALSE]]
    /\ UNCHANGED <<custodyVars, revokedBy, anchors>>

\* The signature verifies under the enrolled key, which is still in standing.
SignRequest(x) ==
    /\ requests[x] # None
    /\ ~requests[x].signed
    /\ requests' = [requests EXCEPT ![x] =
           IF HoldsKey(requests[x].by) /\ Standing(requests[x].by)
           THEN [requests[x] EXCEPT !.signed = TRUE] ELSE None]
    /\ UNCHANGED <<custodyVars, revokedBy, anchors>>

\* A request that throws, or whose process is lost.
DropRequest(x) ==
    /\ requests[x] # None
    /\ requests' = [requests EXCEPT ![x] = None]
    /\ UNCHANGED <<custodyVars, revokedBy, anchors>>

\* Standing is read again inside the writing transaction.
VerifiedBefore(q) == TRUE
MayRecord(q) == Standing(q)

RecordAttestation(x) ==
    LET request == requests[x] IN
    /\ request # None /\ request.signed /\ request.kind = "principal.key_attested"
    /\ MayRecord(request.by)
    /\ Tell(EventOf("principal.key_attested", request.by, request.subject))
    /\ requests' = [requests EXCEPT ![x] = None]
    /\ UNCHANGED <<files, registryVars, jobs, history, revokedBy, anchors>>

\* One revocation per key; the audit row and the standing of the key move together.
RevokedAnyHow(q) == TRUE
Unrevoked(q) == revokedBy[q] = None
RecordRevocation(x) ==
    LET request == requests[x] IN
    /\ request # None /\ request.signed /\ request.kind = "principal.key_revoked"
    /\ MayRecord(request.by)
    /\ Unrevoked(request.subject)
    /\ revokedBy' = [revokedBy EXCEPT ![request.subject] = request.by]
    /\ keys' = [keys EXCEPT ![request.subject] = "revoked"]
    /\ Tell(EventOf("principal.key_revoked", request.by, request.subject))
    /\ requests' = [requests EXCEPT ![x] = None]
    /\ UNCHANGED <<files, principals, credentials, jobs, history, anchors>>

-------------------------------------------------------------------------------
(* Attesting the head of the log.                                          *)

LatestHead ==
    IF anchors = {} THEN 0
    ELSE CHOOSE n \in {a.head : a \in anchors} : \A a \in anchors : a.head <= n

\* Events after the attested head that are not attestations themselves; without one
\* the attestation before is returned and nothing is written.
HeadMoved == Len(log) > LatestHead
NewFacts == \E n \in LatestHead + 1 .. Len(log) : log[n].kind # "chain.head_attested"

AttestHead(by) ==
    /\ Standing(by) /\ HoldsKey(by)
    /\ NewFacts
    /\ anchors' = anchors \cup {[head |-> Len(log), previous |-> LatestHead, by |-> by]}
    /\ Tell(EventOf("chain.head_attested", by, None))
    /\ UNCHANGED <<files, registryVars, jobs, history, requests, revokedBy>>

\* Every other service appends to the same log.
OtherEvent ==
    /\ Tell(EventOf("other", None, None))
    /\ UNCHANGED <<files, registryVars, jobs, history, authorityVars>>

-------------------------------------------------------------------------------


Next ==
    \/ (Jobs \/ Embedding) /\ UNCHANGED authorityVars
    \/ \E x \in Requests :
          \/ \E kind \in {"principal.key_attested", "principal.key_revoked"},
                by \in Principals, subject \in Principals : BeginRequest(x, kind, by, subject)
          \/ SignRequest(x) \/ DropRequest(x)
          \/ RecordAttestation(x) \/ RecordRevocation(x)
    \/ \E by \in Principals : AttestHead(by)
    \/ OtherEvent

Spec == Init /\ [][Next]_vars

-------------------------------------------------------------------------------
(* What the record of authority guarantees.                                *)

AuthorityKinds == {"principal.key_attested", "principal.key_revoked", "chain.head_attested"}
RevocationAt(n) == log[n].kind = "principal.key_revoked"

\* An authority record is never ordered after the withdrawal of that authority: once the
\* log tells that a key was revoked, nothing signed with it follows.
RevokedKeysFallSilent ==
    \A m, n \in 1..Len(log) :
        m < n /\ RevocationAt(m) /\ log[n].kind \in AuthorityKinds => log[n].by # log[m].of

\* The audit row of a revocation, the standing of the key and the log agree: one event
\* for each row, and no revoked key comes back.
RevocationsAgree ==
    /\ \A q \in Principals : revokedBy[q] # None =>
          /\ keys[q] = "revoked"
          /\ \E n \in 1..Len(log) : log[n] = EventOf("principal.key_revoked", revokedBy[q], q)
    /\ \A n \in 1..Len(log) : RevocationAt(n) => revokedBy[log[n].of] = log[n].by
    /\ \A m, n \in 1..Len(log) :
          RevocationAt(m) /\ RevocationAt(n) /\ log[m].of = log[n].of => m = n

\* A withdrawal of authority is total: row, standing and log tell of it once and alike,
\* and nothing the key signed is recorded after it.
RevocationsHold == RevokedKeysFallSilent /\ RevocationsAgree

\* The attestations form a chain over the log: each names the one before, covers a fact
\* that one did not, and is told by the very next event.
AnchorsFormAChain ==
    \A a \in anchors :
        /\ a.head < Len(log)
        /\ log[a.head + 1] = EventOf("chain.head_attested", a.by, None)
        /\ a.previous = 0 \/ \E b \in anchors : b.head = a.previous
        /\ \A b \in anchors : b.head < a.head => b.head <= a.previous
        /\ \E n \in a.previous + 1 .. a.head : log[n].kind # "chain.head_attested"
        /\ \A b \in anchors : b.head = a.head => b = a
===============================================================================
