------------------------------- MODULE Promotion -------------------------------
(***************************************************************************)
(* Promotion of individual memory to collective guidance: memory/service.ts *)
(* over the approval queue.  The queue's targets are the candidates.        *)
(*                                                                         *)
(* The database commits a promotion's rows together; the markdown file is   *)
(* renamed into place before the commit and does not roll back.  A crash    *)
(* between the two (LoseApproval, LoseRatification) leaves the file alone.  *)
(***************************************************************************)
EXTENDS ApprovalService, FiniteSets

CONSTANTS Entries,           \* individual memory entries on record
          Usable,            \* those that are neither rejected nor stale
          SourceOf,          \* the entry each candidate promotes
          ProposerOf,        \* the agent that proposes it
          RunOf,             \* the run its source was learned in, or None
          Claims,            \* corroboration counts a proposer may write in
          MinCorroboration,  \* the floor of promotions outside a run
          MaxTime, MaxLost   \* bounds: seconds that pass, transactions lost

ASSUME PromotionAssumption ==
    /\ Usable \subseteq Entries
    /\ SourceOf \in [Targets -> Entries]
    /\ ProposerOf \in [Targets -> Principals]
    /\ RunOf \in [Targets -> Runs \cup {None}]
    /\ Claims \subseteq Nat
    /\ MinCorroboration \in Nat /\ MaxTime \in Nat /\ MaxLost \in Nat

VARIABLES
    candidate,       \* the candidate rows
    proposed,        \* the count in each candidate's promotion_proposed event
    corroborations,  \* the corroboration rows
    eligible,        \* entries whose provenance resolves
    collective,      \* the collective memory rows: None, or what they say
    file,            \* the markdown files, likewise
    resolvedAt,      \* resolved_at of each approval
    now, lost        \* seconds passed, transactions lost to a crash

evidence == <<candidate, proposed, corroborations, eligible>>
memory == <<collective, file>>
promotionVars == <<vars, evidence, memory, resolvedAt, now, lost>>

CandidateRow == [status : {"absent", "pending", "ratified", "rejected"}, count : Nat]
CorroborationRow == [candidate : Targets, source : Entries, by : Principals]

\* What of a collective entry differs from one attempt to the next: its
\* created_at, and the confidence its corroborations give it.
Content == [at : Nat, count : Nat]

ASSUME ContentAssumption == None \notin Content

\* Every row, file and clock has its type.
PromotionTypeOK ==
    /\ TypeOK
    /\ candidate \in [Targets -> CandidateRow]
    /\ proposed \in [Targets -> Nat \cup {None}]
    /\ corroborations \subseteq CorroborationRow
    /\ eligible \subseteq Entries
    /\ collective \in [Targets -> Content \cup {None}]
    /\ file \in [Targets -> Content \cup {None}]
    /\ resolvedAt \in [Approvals -> Nat]
    /\ now \in 0 .. MaxTime
    /\ lost \in 0 .. MaxLost

PromotionInit ==
    /\ Init
    /\ candidate = [c \in Targets |-> [status |-> "absent", count |-> 0]]
    /\ proposed = [c \in Targets |-> None]
    /\ corroborations = {}
    /\ eligible \in SUBSET Entries
    /\ collective = [c \in Targets |-> None]
    /\ file = [c \in Targets |-> None]
    /\ resolvedAt = [a \in Approvals |-> 0]
    /\ now = 0
    /\ lost = 0

-------------------------------------------------------------------------------
(* Evidence.                                                               *)

\* An operator attests an entry, or the event or result it cites is recorded:
\* trust is derived from append-only tables, so it only grows.
Attest(e) ==
    /\ eligible' = eligible \cup {e}
    /\ UNCHANGED <<vars, candidate, proposed, corroborations, memory, resolvedAt, now, lost>>

\* A candidate already on record is proposed again only as it is stored, and
\* as the event of its first proposal stored it.
SameProposal(c, n) ==
    \/ candidate[c].status = "absent"
    \/ candidate[c] = [status |-> "pending", count |-> n] /\ proposed[c] = n

Propose(c, n, a) ==
    /\ SameProposal(c, n)
    /\ SourceOf[c] \in eligible
    /\ candidate' = [candidate EXCEPT ![c] = [status |-> "pending", count |-> n]]
    /\ proposed' = [proposed EXCEPT ![c] = n]
    /\ \/ RequestWithoutRun(a, c, ProposerOf[c])
       \/ /\ RunOf[c] # None
          /\ RequestForRun(a, RunOf[c], c, ProposerOf[c], "fail_run")
    /\ UNCHANGED <<corroborations, eligible, memory, resolvedAt, now, lost>>

RowsOf(c) == {row \in corroborations : row.candidate = c}

KnownCandidate(c) == candidate[c].status # "absent"
StillOpen(c) == candidate[c].status = "pending"

\* Independent evidence: another actor than the proposer, another entry than
\* the promoted one, and neither seen before on this candidate.
SourceIndependent(c, e, p) ==
    /\ p # ProposerOf[c]
    /\ e # SourceOf[c]
    /\ \A row \in RowsOf(c) : row.source # e
Independent(c, e, p) ==
    /\ SourceIndependent(c, e, p)
    /\ \A row \in RowsOf(c) : row.by # p

RecordCorroboration(c, e, p) ==
    /\ StillOpen(c)
    /\ Independent(c, e, p)
    /\ e \in Usable
    /\ e \in eligible
    /\ corroborations' = corroborations \cup {[candidate |-> c, source |-> e, by |-> p]}
    /\ candidate' = [candidate EXCEPT ![c].count = Cardinality(RowsOf(c)) + 1]
    /\ UNCHANGED <<vars, proposed, eligible, memory, resolvedAt, now, lost>>

-------------------------------------------------------------------------------
(* Ratification.                                                           *)

\* The floor is held against the rows, never against the count the candidate
\* carries.
ClaimedEnough(c, floor) == candidate[c].count >= floor
CorroboratedEnough(c, floor) == Cardinality(RowsOf(c)) >= floor

UndatedText(c, at) == [at |-> None, count |-> Cardinality(RowsOf(c))]
CollectiveText(c, at) == [at |-> at, count |-> Cardinality(RowsOf(c))]

\* A file that is there already must be the one this attempt would write.
KeepFile(c, text) == file' = [file EXCEPT ![c] = IF @ = None THEN text ELSE @]
WriteFile(c, text) ==
    /\ file[c] \in {None, text}
    /\ file' = [file EXCEPT ![c] = text]

Ratifiable(c, floor) == StillOpen(c) /\ CorroboratedEnough(c, floor)

RatifyAndWriteCollective(c, at, floor) ==
    /\ Ratifiable(c, floor)
    /\ candidate' = [candidate EXCEPT ![c].status = "ratified"]
    /\ collective' = [collective EXCEPT ![c] = CollectiveText(c, at)]
    /\ WriteFile(c, CollectiveText(c, at))
    /\ UNCHANGED <<proposed, corroborations, eligible>>

\* Outside a run the approving transaction applies the promotion.
ApprovePromotion(a, p) ==
    LET c == approvals[a].target IN
    /\ ApproveAndApply(a, p)
    /\ RatifyAndWriteCollective(c, now, MinCorroboration)
    /\ resolvedAt' = [resolvedAt EXCEPT ![a] = now]
    /\ UNCHANGED <<now, lost>>

\* The same transaction, lost after the rename: only the file remains.
LoseApproval(a, p) ==
    LET c == approvals[a].target IN
    /\ lost < MaxLost
    /\ approvals[a].status = "pending" /\ approvals[a].run = None
    /\ NotSelfResolution(a, p)
    /\ Ratifiable(c, MinCorroboration)
    /\ WriteFile(c, CollectiveText(c, now))
    /\ lost' = lost + 1
    /\ UNCHANGED <<vars, evidence, collective, resolvedAt, now>>

\* In a run, approving resumes the run and the run ratifies later, in a
\* transaction of its own and with no floor.
ApproveRunPromotion(a, p) ==
    /\ ApproveForRun(a, p)
    /\ resolvedAt' = [resolvedAt EXCEPT ![a] = now]
    /\ UNCHANGED <<evidence, memory, now, lost>>

AwaitsRatification(a) ==
    /\ approvals[a].status = "approved"
    /\ approvals[a].run # None
    /\ runs[approvals[a].run].status = "running"

RatifyForRun(a) ==
    /\ AwaitsRatification(a)
    /\ RatifyAndWriteCollective(approvals[a].target, resolvedAt[a], 0)
    /\ UNCHANGED <<vars, resolvedAt, now, lost>>

LoseRatification(a) ==
    LET c == approvals[a].target IN
    /\ lost < MaxLost
    /\ AwaitsRatification(a)
    /\ Ratifiable(c, 0)
    /\ WriteFile(c, CollectiveText(c, resolvedAt[a]))
    /\ lost' = lost + 1
    /\ UNCHANGED <<vars, evidence, collective, resolvedAt, now>>

\* Rejecting fails the run and its candidate; outside a run the candidate stays
\* pending and may be proposed again.
RejectPromotion(a, p) ==
    LET c == approvals[a].target IN
    /\ \/ /\ RejectForRun(a, p)
          /\ candidate[c].status # "ratified"
          /\ candidate' = [candidate EXCEPT ![c].status = "rejected"]
       \/ RejectWithoutRun(a, p) /\ UNCHANGED candidate
    /\ resolvedAt' = [resolvedAt EXCEPT ![a] = now]
    /\ UNCHANGED <<proposed, corroborations, eligible, memory, now, lost>>

\* Timestamps have second precision.
Tick ==
    /\ now < MaxTime
    /\ now' = now + 1
    /\ UNCHANGED <<vars, evidence, memory, resolvedAt, lost>>

-------------------------------------------------------------------------------

EvidenceSteps ==
    \/ \E e \in Entries : Attest(e)
    \/ \E c \in Targets : \/ \E n \in Claims \cup {candidate[c].count}, a \in Approvals :
                                 Propose(c, n, a)
                          \/ \E e \in Entries, p \in Principals : RecordCorroboration(c, e, p)

DecisionSteps ==
    \E a \in Approvals :
        \/ \E p \in Principals : \/ ApprovePromotion(a, p)
                                 \/ ApproveRunPromotion(a, p)
                                 \/ RejectPromotion(a, p)
                                 \/ LoseApproval(a, p)
        \/ RatifyForRun(a)
        \/ LoseRatification(a)

PromotionNext ==
    \/ EvidenceSteps
    \/ DecisionSteps
    \/ Tick
    \/ DriveSteps /\ UNCHANGED <<evidence, memory, resolvedAt, now, lost>>

PromotionSpec == PromotionInit /\ [][PromotionNext]_promotionVars

\* An operator who is told a transaction was lost approves again, and a run
\* that waits for its ratification is resumed again.
OperatorsRetry ==
    \A a \in Approvals :
        /\ SF_promotionVars(\E p \in Principals : ApprovePromotion(a, p))
        /\ SF_promotionVars(\E p \in Principals : ApproveRunPromotion(a, p))
        /\ SF_promotionVars(RatifyForRun(a))

RetriedPromotion == PromotionSpec /\ OperatorsRetry

-------------------------------------------------------------------------------
(* What promotion guarantees.                                              *)

\* Guidance is earned: what became collective was approved by somebody other
\* than its proposer, and, outside a run, stands on at least MinCorroboration
\* rows of as many different actors and entries, none of them the proposer or
\* the promoted entry, all with provenance that resolves.
GuidanceIsEarned ==
    \A c \in Targets : collective[c] # None =>
        \E a \in Approvals :
            /\ approvals[a].target = c /\ approvals[a].status = "approved"
            /\ signed[a].by # ProposerOf[c]
            /\ approvals[a].run = None =>
                 LET actors == {row.by : row \in RowsOf(c)}
                     sources == {row.source : row \in RowsOf(c)} IN
                 /\ Cardinality(actors \ {ProposerOf[c]}) >= MinCorroboration
                 /\ Cardinality((sources \ {SourceOf[c]}) \cap eligible) >= MinCorroboration

\* The row and the file say the same, through lost transactions, retries in a
\* later second and corroborations in between; a candidate is ratified exactly
\* when its row exists.
MemoryMatchesFile ==
    \A c \in Targets :
        /\ candidate[c].status = "ratified" <=> collective[c] # None
        /\ collective[c] # None => file[c] = collective[c]

\* What was settled stays as it was: a ratified candidate gains no evidence and
\* its memory and file never change; a rejected one never becomes memory.
SettledStaysSettled ==
    [][\A c \in Targets :
          candidate[c].status \in {"ratified", "rejected"} =>
              /\ candidate'[c] = candidate[c]
              /\ RowsOf(c)' = RowsOf(c)
              /\ collective'[c] = collective[c]
              /\ file'[c] = file[c]]_promotionVars

\* Approved promotion writes collective memory: once its evidence is there, a
\* promotion that operators keep approving and resuming is written, unless it is
\* rejected or its run ends.
ApprovedPromotionIsWritten ==
    \A a \in Approvals, c \in Targets :
        (/\ approvals[a].target = c
         /\ approvals[a].status \in {"pending", "approved"}
         /\ CorroboratedEnough(c, MinCorroboration))
        ~> \/ collective[c] # None
           \/ approvals[a].status = "rejected"
           \/ \E r \in Runs : approvals[a].run = r /\ runs[r].status \in Terminal
===============================================================================
