------------------------------- MODULE EventChain -------------------------------
(***************************************************************************)
(* The event log of a workspace and its anchors: persistence/events.ts,     *)
(* persistence/verify.ts, persistence/chain-attestations.ts and             *)
(* security/chain-attestation.ts.                                           *)
(*                                                                         *)
(* A process reads the head of the log in a deferred transaction and        *)
(* writes on top of it; SQLite lets it commit only if nobody wrote since.   *)
(* Below the program the file itself may be damaged: rows lost, changed or  *)
(* renumbered and the rest chained again, once, anchors lost, and the       *)
(* position an anchor names changed, once for each.                         *)
(*                                                                         *)
(* A hash stands for what was hashed: the contents of the rows up to and    *)
(* including its own, in order.                                             *)
(***************************************************************************)
EXTENDS SigningKeys, Sequences

CONSTANTS
    Writers,    \* processes that append
    Inputs,     \* what they append: a kind, a run and an idempotency key
    Runs,
    MaxEvents   \* a bound: how many rows the log takes

ASSUME ChainAssumption ==
    /\ None \notin Runs
    /\ MaxEvents \in Nat

VARIABLES
    log,        \* the rows of the events table
    drafts,     \* the append each writer is in the middle of
    anchors,    \* chain_head_attestations
    migrated,   \* whether the schema migration has run
    damaged,    \* whether the file was changed below the program
    repinned    \* the anchors whose rows were among the changes

chainVars == <<signingVars, log, drafts, anchors, migrated, damaged, repinned>>

Attested == "chain.head_attested"
Genesis == <<>>

\* A work event whose causal fields are at their defaults, and one given them later.
Bare == "bare"
Backfilled == "backfilled"

\* A row from before the chain, with neither hash nor causal fields.
LegacyRow == [seq |-> 1, kind |-> Bare, at |-> 0, run |-> None, runSeq |-> None,
              key |-> None, prev |-> None, hash |-> None]

ChainInit ==
    /\ SigningInit
    /\ log \in {{}, {LegacyRow}}
    /\ drafts = [w \in Writers |-> None]
    /\ anchors = {}
    /\ migrated = FALSE
    /\ damaged = FALSE /\ repinned = {}

-------------------------------------------------------------------------------
(* The rows.                                                               *)

Last1(rows) == CHOOSE r \in rows : \A s \in rows : s.seq <= r.seq
HeadSeq(rows) == IF rows = {} THEN 0 ELSE Last1(rows).seq
UpTo(rows, n) == {r \in rows : r.seq <= n}

\* The hash an event is chained on; an unhashed head counts as no head.
HeadHash(rows) ==
    IF rows = {} \/ Last1(rows).hash = None THEN Genesis ELSE Last1(rows).hash

RunRows(run) == {r \in log : r.run = run}
RunSeqs(run) == {r.runSeq : r \in RunRows(run)}

\* One more than the highest number of the run.
NextRunSeq(run) ==
    IF run = None THEN None
    ELSE IF RunSeqs(run) = {} THEN 1
    ELSE 1 + CHOOSE n \in RunSeqs(run) : \A m \in RunSeqs(run) : m <= n

ContentOf(r) == [seq |-> r.seq, kind |-> r.kind, at |-> r.at, run |-> r.run,
                 runSeq |-> r.runSeq, key |-> r.key]
Sealed(content, prev) ==
    [seq |-> content.seq, kind |-> content.kind, at |-> content.at, run |-> content.run,
     runSeq |-> content.runSeq, key |-> content.key,
     prev |-> prev, hash |-> Append(prev, content)]

\* The row an append would write now.
NextRow(input, at) ==
    Sealed([seq |-> HeadSeq(log) + 1, kind |-> input.kind, at |-> at, run |-> input.run,
            runSeq |-> NextRunSeq(input.run), key |-> input.key],
           HeadHash(log))

KeyTaken(key) == key # None /\ \E r \in log : r.key = key

\* The unique indexes of the table.
Unique(row) ==
    /\ \A r \in log : r.seq # row.seq
    /\ ~KeyTaken(row.key)
    /\ row.run # None => \A r \in log : r.run = row.run => r.runSeq # row.runSeq

\* A commit overtakes every transaction that read before it.
Overtaken(except) ==
    [w \in Writers |-> IF drafts[w] = None THEN None
                       ELSE IF w = except THEN None
                       ELSE [drafts[w] EXCEPT !.stale = TRUE]]

-------------------------------------------------------------------------------
(* Appending.                                                              *)

\* A key already taken returns the stored event, or throws: either way no row.
BeginAppend(w, input, at) ==
    /\ drafts[w] = None
    /\ ~KeyTaken(input.key)
    /\ HeadSeq(log) < MaxEvents
    /\ drafts' = [drafts EXCEPT ![w] = [row |-> NextRow(input, at), stale |-> FALSE]]
    /\ UNCHANGED <<signingVars, log, anchors, migrated, damaged, repinned>>

CommitRenumbered(w) ==
    LET row == Sealed([ContentOf(drafts[w].row) EXCEPT !.seq = HeadSeq(log) + 1,
                          !.runSeq = NextRunSeq(drafts[w].row.run)], drafts[w].row.prev) IN
    /\ drafts[w] # None
    /\ Unique(row)
    /\ log' = log \cup {row}
    /\ drafts' = Overtaken(w)
    /\ UNCHANGED <<signingVars, anchors, migrated, damaged, repinned>>

CommitAppend(w) ==
    /\ drafts[w] # None /\ ~drafts[w].stale
    /\ Unique(drafts[w].row)
    /\ log' = log \cup {drafts[w].row}
    /\ drafts' = Overtaken(w)
    /\ UNCHANGED <<signingVars, anchors, migrated, damaged, repinned>>

\* The database is busy, the service throws, or the process is lost.
AbandonAppend(w) ==
    /\ drafts[w] # None
    /\ drafts' = [drafts EXCEPT ![w] = None]
    /\ UNCHANGED <<signingVars, log, anchors, migrated, damaged, repinned>>

-------------------------------------------------------------------------------
(* Opening the database with a newer program.                              *)

\* The migration gives causal fields to rows that have none, but to no row of the chain.
BareRow(r) == r.kind = Bare
LegacyBareRow(r) == r.kind = Bare /\ r.hash = None

Backfill ==
    {IF LegacyBareRow(r) THEN [r EXCEPT !.kind = Backfilled] ELSE r : r \in log}

Migrate ==
    /\ ~migrated
    /\ migrated' = TRUE
    /\ log' = Backfill
    /\ drafts' = Overtaken(None)
    /\ UNCHANGED <<signingVars, anchors, damaged, repinned>>

-------------------------------------------------------------------------------
(* Attesting the head.                                                     *)

Latest == IF anchors = {} THEN None
          ELSE CHOOSE a \in anchors : \A b \in anchors : b.head <= a.head
AttestedHead == IF Latest = None THEN 0 ELSE Latest.head

\* Without a fact beyond the attested head nothing is written.
NewFact == Latest = None \/ \E r \in log : r.seq > AttestedHead /\ r.kind # Attested

\* Attestation ids are fresh.
FreshId == Cardinality({s \in signatures : s.class = "chain_attestation"}) + 1

\* A head is attested once.
RecordAnchor(anchor) ==
    /\ \A a \in anchors : a.head # anchor.head
    /\ anchors' = anchors \cup {anchor}

AttestHead(c, material) ==
    LET head == Last1(log)
        claims == [head |-> head.seq, hash |-> head.hash, count |-> Cardinality(log),
                   previous |-> AttestedHead, at |-> head.at] IN
    /\ log # {} /\ head.hash # None
    /\ NewFact
    /\ head.seq < MaxEvents
    /\ Sign(c, "chain_attestation", FreshId, claims, head.at, material)
    /\ RecordAnchor([id |-> FreshId, head |-> head.seq, hash |-> head.hash,
                     count |-> Cardinality(log), previous |-> AttestedHead,
                     key |-> sessions[c].key, signer |-> sessions[c].principal, at |-> head.at])
    /\ log' = log \cup {NextRow([kind |-> Attested, run |-> None, key |-> None], now)}
    /\ drafts' = Overtaken(None)
    /\ UNCHANGED <<registryVars, sessions, now, migrated, damaged, repinned>>

-------------------------------------------------------------------------------
(* Verifying.                                                              *)

HashBefore(r) == HeadHash(UpTo(log, r.seq - 1))
SealedRight(r) == r.hash = Append(r.prev, ContentOf(r))
ChainedOn(r) == r.prev = HashBefore(r)
RowVerifies(r) == r.hash # None /\ SealedRight(r)
RowAndLinkVerify(r) == RowVerifies(r) /\ ChainedOn(r)
WalkVerifies == \A r \in log : RowAndLinkVerify(r)

\* The anchor's own signature, from the stored row, by the clock of the anchor.
SignatureOf(a) == {s \in signatures : s.class = "chain_attestation" /\ s.object = a.id}
AnchorVerifies(a) ==
    \E s \in SignatureOf(a) :
        /\ s.key = a.key /\ s.signer = a.signer
        /\ Verifies(s, "chain_attestation", a.id, a.at)

HeadNotBehind(a) == HeadSeq(log) >= a.head
MatchesAnchor(a) ==
    /\ HeadNotBehind(a)
    /\ \E r \in log : r.seq = a.head /\ r.hash = a.hash
    /\ HeadSeq(log) = a.head => Cardinality(log) = a.count

VerifiesChain ==
    /\ WalkVerifies
    /\ Latest # None => AnchorVerifies(Latest) /\ MatchesAnchor(Latest)

-------------------------------------------------------------------------------
(* The file, below the program.                                            *)

\* The rows written again as a chain of their own, each on the rows before it.
Rechain(rows) ==
    LET before(r) == {s \in rows : s.seq < r.seq}
        numbered(n) == CHOOSE r \in rows : Cardinality(before(r)) = n - 1
        history(r) == [n \in 1..Cardinality(before(r)) |-> ContentOf(numbered(n))] IN
    {Sealed(ContentOf(r), history(r)) : r \in rows}

\* A row that says something else, or that has a number which is free.
Changed(r, rows) ==
    {[r EXCEPT !.kind = "altered"]}
    \cup {[r EXCEPT !.seq = n] : n \in (1..MaxEvents) \ {s.seq : s \in rows}}

Damage ==
    /\ ~damaged
    /\ \E survivors \in SUBSET log :
          \E rows \in {survivors} \cup UNION {{(survivors \ {r}) \cup {other} :
                            other \in Changed(r, survivors)} : r \in survivors} :
              /\ rows # log
              /\ log' \in {rows, Rechain(rows)}
    /\ damaged' = TRUE
    /\ drafts' = Overtaken(None)
    /\ UNCHANGED <<signingVars, anchors, migrated, repinned>>

LoseAnchor ==
    /\ anchors # {}
    /\ anchors' = anchors \ {Latest}
    /\ damaged' = TRUE
    /\ UNCHANGED <<signingVars, log, drafts, migrated, repinned>>

\* The position in the row of an anchor is changed: head_sequence, head_hash and
\* event_count name a row and the rows that stand in the log.  Heads are unique.
Repinned(a) ==
    {[a EXCEPT !.head = r.seq, !.hash = r.hash, !.count = Cardinality(log)] : r \in log}

RepinAnchor ==
    /\ \E a \in anchors : \E other \in Repinned(a) \ {a} :
          /\ a.id \notin repinned
          /\ \A b \in anchors \ {a} : b.head # other.head
          /\ anchors' = (anchors \ {a}) \cup {other}
          /\ repinned' = repinned \cup {a.id}
    /\ damaged' = TRUE
    /\ UNCHANGED <<signingVars, log, drafts, migrated>>

-------------------------------------------------------------------------------

Appending ==
    \E w \in Writers :
        \/ \E input \in Inputs, at \in 0..now : BeginAppend(w, input, at)
        \/ CommitAppend(w)
        \/ AbandonAppend(w)

Attesting == \E c \in Clients, material \in Keys \cup {None} : AttestHead(c, material)

ChainNext ==
    \/ RegistrySteps /\ UNCHANGED <<log, drafts, anchors, migrated, damaged, repinned>>
    \/ Appending
    \/ Migrate
    \/ Attesting
    \/ Damage
    \/ LoseAnchor
    \/ RepinAnchor

ChainSpec == ChainInit /\ [][ChainNext]_chainVars

-------------------------------------------------------------------------------
(* What the log guarantees.                                                *)

\* Several processes append to one log as if they took turns: the rows are numbered
\* without gaps, in the workspace and in each run, each is chained on the one before it,
\* and no idempotency key is stored twice (events.ts append: the number and the previous
\* hash are read before the row is written).
ChainIsLinear ==
    ~damaged =>
        /\ {r.seq : r \in log} = 1..Cardinality(log)
        /\ \A r \in log : r.hash # None => RowAndLinkVerify(r)
        /\ \A run \in Runs :
              /\ {r.runSeq : r \in RunRows(run)} = 1..Cardinality(RunRows(run))
              /\ \A r, s \in RunRows(run) : r.seq < s.seq => r.runSeq < s.runSeq
        /\ \A r, s \in log : r.key = s.key /\ r.key # None => r = s

\* No false alarm: a log nobody damaged and without rows from before the chain verifies,
\* through concurrent appends, the migration and any number of attestations, as long as
\* the key of the newest anchor stands and its window holds the time of the attested head.
SoundLogVerifies ==
    (/\ ~damaged
     /\ \A r \in log : r.hash # None
     /\ Latest # None => Stands(Latest.key) /\ WithinWindow(Latest.key, Latest.at))
    => VerifiesChain

\* The rows up to a signed head are, one for one, those whose contents the signed hash
\* stands for.
Survives(claims) ==
    /\ Len(claims.hash) = Cardinality(UpTo(log, claims.head))
    /\ \A n \in 1..Len(claims.hash) :
          \E r \in log : r.seq <= claims.head /\ ContentOf(r) = claims.hash[n]

\* chain-attestation.ts:71-73 says that an anchor is verified "with the signed body rebuilt
\* from the attestation row's own fields": when the log verifies, the rows are those that
\* the signature of the newest anchor speaks of.
VerifiedMeansSigned ==
    VerifiesChain /\ Latest # None =>
        \A s \in SignatureOf(Latest) : s.key = Latest.key => Survives(s.claims)

\* No silence, as far as the code goes: when the log verifies, the newest anchor survives
\* and its own row is as it was written, the rows up to the attested head are, one for one,
\* those that were signed for, whatever else happened to the file: rows lost, one changed or
\* renumbered, the rest chained again and appended to since, newer anchors lost, older ones
\* pointing elsewhere.
VerifiedMeansAttested ==
    Latest # None /\ Latest.id \notin repinned => VerifiedMeansSigned

\* The verdict of verify-chain is right both ways: it raises no false alarm, and it is not
\* silent about a loss that the newest surviving anchor, if its row stands, can show.
VerdictIsRight == SoundLogVerifies /\ VerifiedMeansAttested

\* The log as one history: the rows by their numbers.  The causal fields the migration
\* gives to a row from before the chain are not part of it.
RowAt(n) == CHOOSE r \in log : r.seq = n
Entry(r) == IF r.hash = None THEN [r EXCEPT !.kind = Bare] ELSE r
LogHistory == IF damaged THEN <<>> ELSE [n \in 1..Cardinality(log) |-> Entry(RowAt(n))]

AppendOnly == INSTANCE AppendOnlyLog WITH history <- LogHistory, intact <- ~damaged

\* Writers that overtake each other, migrations and attestations add up to one history that
\* grows at its end, one row at a time, and is never rewritten: append-only, but for the one
\* exception the migration is (events.ts append; schema.ts backfilledPayloadJson).
ImplementsAppendOnlyLog == AppendOnly!Spec
===============================================================================
