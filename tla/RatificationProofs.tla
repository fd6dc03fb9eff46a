--------------------------- MODULE RatificationProofs ---------------------------
(***************************************************************************)
(* What the queue ratifies, for every set of targets, approvals, runs and  *)
(* principals: memory promotion, and the organizational changes that earn  *)
(* the dial its next level.                                                *)
(*                                                                         *)
(* That the memory row and its file agree needs only that a lost           *)
(* transaction leaves the file of an open candidate, and that writing over *)
(* a file demands the same text.  That guidance is earned counts actors    *)
(* where the code counts rows: RowsInv says that the two are as many, since*)
(* no actor and no entry appears on two rows of one candidate.             *)
(*                                                                         *)
(* CleanupsAreAccounted is inductive once the rows have their types: an    *)
(* application takes only stale entries, so it shares none with one in     *)
(* force, and its guard on the blast radius leaves it never empty, so one  *)
(* in force is not applied again.                                          *)
(***************************************************************************)
EXTENDS Promotion, EarnedAutonomy, ApprovalServiceProofs, FunctionTheorems, FiniteSetTheorems

-------------------------------------------------------------------------------
(* The queue under promotion.                                              *)

\* Every step of promotion is a transaction of the approval queue or leaves its
\* tables alone (memory/service.ts reaches them through approvals.ts).
LEMMA PromotionStepsQueue == [PromotionNext]_promotionVars => [Next]_vars
<1> SUFFICES ASSUME [PromotionNext]_promotionVars PROVE [Next]_vars
  OBVIOUS
<1>1. ASSUME NEW c \in Targets, NEW n, NEW a \in Approvals, Propose(c, n, a) PROVE Next
  <2>1. ProposerOf[c] \in Principals /\ (RunOf[c] # None => RunOf[c] \in Runs)
    BY PromotionAssumption DEF PromotionAssumption
  <2> QED
    BY <1>1, <2>1 DEF Propose, Next, RequestSteps
<1>2. ASSUME NEW a \in Approvals, NEW p \in Principals,
             \/ ApprovePromotion(a, p) \/ ApproveRunPromotion(a, p) \/ RejectPromotion(a, p)
      PROVE  Next
  BY <1>2 DEF ApprovePromotion, ApproveRunPromotion, RejectPromotion, Next, ResolutionSteps
<1>3. ASSUME NEW a \in Approvals, NEW p \in Principals,
             LoseApproval(a, p) \/ RatifyForRun(a) \/ LoseRatification(a)
      PROVE  UNCHANGED vars
  BY <1>3 DEF LoseApproval, RatifyForRun, LoseRatification
<1>4. ASSUME NEW e \in Entries, Attest(e) PROVE UNCHANGED vars
  BY <1>4 DEF Attest
<1>5. ASSUME NEW c \in Targets, NEW e \in Entries, NEW p \in Principals,
             RecordCorroboration(c, e, p)
      PROVE  UNCHANGED vars
  BY <1>5 DEF RecordCorroboration
<1>6. CASE EvidenceSteps
  BY <1>1, <1>4, <1>5, <1>6 DEF EvidenceSteps
<1>7. CASE DecisionSteps
  <2>1. ASSUME NEW a \in Approvals, RatifyForRun(a) \/ LoseRatification(a)
        PROVE  UNCHANGED vars
    BY <2>1 DEF RatifyForRun, LoseRatification
  <2> QED
    BY <1>2, <1>3, <1>7, <2>1 DEF DecisionSteps
<1>8. CASE Tick
  BY <1>8 DEF Tick
<1>9. CASE DriveSteps
  BY <1>9 DEF Next
<1> QED
  BY <1>6, <1>7, <1>8, <1>9 DEF PromotionNext, promotionVars

\* Promotion behaves, on the queue's tables, as the approval queue does: all it
\* guarantees holds of promotion.
THEOREM PromotionImplementsQueue == PromotionSpec => Spec
<1>1. PromotionInit => Init
  BY DEF PromotionInit
<1> QED
  BY <1>1, PromotionStepsQueue, PTL DEF PromotionSpec, Spec

-------------------------------------------------------------------------------
(* Types.                                                                  *)

EvidenceTypeOK ==
    /\ candidate \in [Targets -> CandidateRow]
    /\ proposed \in [Targets -> Nat \cup {None}]
    /\ corroborations \subseteq CorroborationRow
    /\ IsFiniteSet(corroborations)
    /\ eligible \subseteq Entries
MemoryTypeOK ==
    /\ collective \in [Targets -> Content \cup {None}]
    /\ file \in [Targets -> Content \cup {None}]
    /\ resolvedAt \in [Approvals -> Nat]
    /\ now \in 0 .. MaxTime
    /\ lost \in 0 .. MaxLost

PromotionTypes == EvidenceTypeOK /\ MemoryTypeOK

\* A candidate has finitely many rows.
LEMMA RowsAreFinite ==
  ASSUME EvidenceTypeOK, NEW c
  PROVE  IsFiniteSet(RowsOf(c)) /\ Cardinality(RowsOf(c)) \in Nat
<1>1. RowsOf(c) \subseteq corroborations
  BY DEF RowsOf
<1> QED
  BY <1>1, FS_Subset, FS_CardinalityType DEF EvidenceTypeOK

\* Every table is empty at first.
LEMMA PromotionTypesInit == PromotionInit => PromotionTypes
<1> SUFFICES ASSUME PromotionInit PROVE PromotionTypes
  OBVIOUS
<1>1. IsFiniteSet(corroborations)
  BY FS_EmptySet DEF PromotionInit
<1> QED
  BY <1>1, PromotionAssumption
     DEF PromotionAssumption, PromotionInit, PromotionTypes, EvidenceTypeOK, MemoryTypeOK,
         CandidateRow

\* Ratifying writes a row and a file of the right form (memory/service.ts:
\* ratifyAndWriteCollective).
LEMMA RatificationTypes ==
  ASSUME PromotionTypes, NEW c \in Targets, NEW at \in Nat, NEW floor,
         RatifyAndWriteCollective(c, at, floor)
  PROVE  EvidenceTypeOK' /\ collective' \in [Targets -> Content \cup {None}]
         /\ file' \in [Targets -> Content \cup {None}]
<1>1. CollectiveText(c, at) \in Content
  BY RowsAreFinite DEF PromotionTypes, CollectiveText, Content
<1>2. EvidenceTypeOK'
  BY DEF RatifyAndWriteCollective, PromotionTypes, EvidenceTypeOK, CandidateRow
<1> QED
  BY <1>1, <1>2 DEF RatifyAndWriteCollective, WriteFile, PromotionTypes, MemoryTypeOK

\* A stored approval names a candidate.
LEMMA TargetOK ==
  ASSUME LedgerInv, NEW a \in Approvals, approvals[a].status # "absent"
  PROVE  approvals[a].target \in Targets
  BY DEF LedgerInv, RequestsNameTargets

\* Every step of promotion leaves rows, files and clocks their types.
LEMMA PromotionTypesKept ==
  LedgerInv /\ PromotionTypes /\ [PromotionNext]_promotionVars => PromotionTypes'
<1> SUFFICES ASSUME LedgerInv, PromotionTypes, [PromotionNext]_promotionVars
             PROVE  PromotionTypes'
  OBVIOUS
<1>0. now \in Nat /\ lost \in Nat /\ MaxTime \in Nat /\ MaxLost \in Nat
  BY PromotionAssumption DEF PromotionAssumption, PromotionTypes, MemoryTypeOK
<1>1. CASE UNCHANGED <<evidence, memory, resolvedAt, now, lost>>
  BY <1>1 DEF evidence, memory, PromotionTypes, EvidenceTypeOK, MemoryTypeOK
<1>2. ASSUME NEW e \in Entries, Attest(e) PROVE PromotionTypes'
  BY <1>2 DEF Attest, memory, PromotionTypes, EvidenceTypeOK, MemoryTypeOK
<1>3. ASSUME NEW c \in Targets, NEW n \in Claims \cup {candidate[c].count},
             NEW a \in Approvals, Propose(c, n, a)
      PROVE  PromotionTypes'
  <2>1. n \in Nat
    BY PromotionAssumption
       DEF PromotionAssumption, PromotionTypes, EvidenceTypeOK, CandidateRow
  <2> QED
    BY <1>3, <2>1
       DEF Propose, memory, PromotionTypes, EvidenceTypeOK, MemoryTypeOK, CandidateRow
<1>4. ASSUME NEW c \in Targets, NEW e \in Entries, NEW p \in Principals,
             RecordCorroboration(c, e, p)
      PROVE  PromotionTypes'
  <2>1. Cardinality(RowsOf(c)) + 1 \in Nat
    BY RowsAreFinite DEF PromotionTypes
  <2>2. IsFiniteSet(corroborations')
    BY <1>4, FS_AddElement DEF RecordCorroboration, PromotionTypes, EvidenceTypeOK
  <2>3. candidate' \in [Targets -> CandidateRow]
    BY <1>4, <2>1 DEF RecordCorroboration, PromotionTypes, EvidenceTypeOK, CandidateRow
  <2>4. corroborations' \subseteq CorroborationRow
    BY <1>4 DEF RecordCorroboration, PromotionTypes, EvidenceTypeOK, CorroborationRow
  <2> QED
    BY <1>4, <2>2, <2>3, <2>4
       DEF RecordCorroboration, memory, PromotionTypes, EvidenceTypeOK, MemoryTypeOK
<1>5. ASSUME NEW a \in Approvals, NEW p \in Principals, ApprovePromotion(a, p)
      PROVE  PromotionTypes'
  <2>1. approvals[a].target \in Targets
    BY <1>5, TargetOK DEF ApprovePromotion, ApproveAndApply, ResolveApproval
  <2> QED
    BY <1>0, <1>5, <2>1, RatificationTypes DEF ApprovePromotion, PromotionTypes, MemoryTypeOK
<1>6. ASSUME NEW a \in Approvals, RatifyForRun(a) PROVE PromotionTypes'
  <2>1. approvals[a].target \in Targets /\ resolvedAt[a] \in Nat
    BY <1>6, TargetOK DEF RatifyForRun, AwaitsRatification, PromotionTypes, MemoryTypeOK
  <2> QED
    BY <1>6, <2>1, RatificationTypes DEF RatifyForRun, PromotionTypes, MemoryTypeOK
<1>7. ASSUME NEW a \in Approvals, NEW p \in Principals, ApproveRunPromotion(a, p)
      PROVE  PromotionTypes'
  BY <1>0, <1>7 DEF ApproveRunPromotion, evidence, memory, PromotionTypes, EvidenceTypeOK,
                    MemoryTypeOK
<1>8. ASSUME NEW a \in Approvals, NEW p \in Principals, RejectPromotion(a, p)
      PROVE  PromotionTypes'
  <2>1. candidate' \in [Targets -> CandidateRow]
    BY <1>8 DEF RejectPromotion, PromotionTypes, EvidenceTypeOK, CandidateRow
  <2> QED
    BY <1>0, <1>8, <2>1 DEF RejectPromotion, memory, PromotionTypes, EvidenceTypeOK,
                            MemoryTypeOK
<1>9. ASSUME NEW c \in Targets, NEW at \in Nat, WriteFile(c, CollectiveText(c, at)),
             lost < MaxLost, lost' = lost + 1,
             UNCHANGED <<vars, evidence, collective, resolvedAt, now>>
      PROVE  PromotionTypes'
  <2>1. CollectiveText(c, at) \in Content
    BY RowsAreFinite DEF PromotionTypes, CollectiveText, Content
  <2>2. EvidenceTypeOK'
    BY <1>9 DEF evidence, PromotionTypes, EvidenceTypeOK
  <2> QED
    BY <1>0, <1>9, <2>1, <2>2 DEF WriteFile, PromotionTypes, MemoryTypeOK
<1>10. ASSUME NEW a \in Approvals, NEW p \in Principals, LoseApproval(a, p)
       PROVE  PromotionTypes'
  <2>1. approvals[a].target \in Targets
    BY <1>10, TargetOK DEF LoseApproval
  <2> QED
    BY <1>0, <1>9, <1>10, <2>1 DEF LoseApproval
<1>11. ASSUME NEW a \in Approvals, LoseRatification(a) PROVE PromotionTypes'
  <2>1. approvals[a].target \in Targets /\ resolvedAt[a] \in Nat
    BY <1>11, TargetOK DEF LoseRatification, AwaitsRatification, PromotionTypes, MemoryTypeOK
  <2> QED
    BY <1>9, <1>11, <2>1 DEF LoseRatification
<1>12. CASE Tick
  BY <1>0, <1>12 DEF Tick, evidence, memory, PromotionTypes, EvidenceTypeOK, MemoryTypeOK
<1>13. CASE EvidenceSteps
  BY <1>2, <1>3, <1>4, <1>13 DEF EvidenceSteps
<1>14. CASE DecisionSteps
  BY <1>5, <1>6, <1>7, <1>8, <1>10, <1>11, <1>14 DEF DecisionSteps
<1> QED
  BY <1>1, <1>12, <1>13, <1>14 DEF PromotionNext, promotionVars

\* Tables have their types and the queue its invariant in every reachable state.
LEMMA PromotionTyped == PromotionSpec => [](LedgerInv /\ PromotionTypes)
  BY PromotionImplementsQueue, LedgerInvHolds, PromotionTypesInit, PromotionTypesKept, PTL
     DEF PromotionSpec

\* Candidates, corroborations, rows, files and clocks have their types in every
\* reachable state.
THEOREM PromotionTypeCorrect == PromotionSpec => []PromotionTypeOK
<1>1. LedgerInv /\ PromotionTypes => PromotionTypeOK
  BY DEF LedgerInv, PromotionTypes, EvidenceTypeOK, MemoryTypeOK, PromotionTypeOK
<1> QED
  BY <1>1, PromotionTyped, PTL
-------------------------------------------------------------------------------
(* Rows and files.                                                         *)

\* Ratification gives an open candidate its row and its file together.
LEMMA RatificationMatches ==
  ASSUME PromotionTypes, MemoryMatchesFile, NEW c \in Targets, NEW at \in Nat, NEW floor,
         RatifyAndWriteCollective(c, at, floor)
  PROVE  MemoryMatchesFile'
<1> DEFINE text == CollectiveText(c, at)
<1>1. text \in Content
  BY RowsAreFinite DEF PromotionTypes, CollectiveText, Content
<1>2. candidate'[c].status = "ratified" /\ collective'[c] = text /\ text # None
  BY <1>1, ContentAssumption
     DEF RatifyAndWriteCollective, PromotionTypes, EvidenceTypeOK, MemoryTypeOK, CandidateRow
<1>3. file'[c] = text
  BY DEF RatifyAndWriteCollective, WriteFile, PromotionTypes, MemoryTypeOK
<1>4. \A d \in Targets \ {c} : /\ candidate'[d] = candidate[d]
                               /\ collective'[d] = collective[d] /\ file'[d] = file[d]
  BY DEF RatifyAndWriteCollective, WriteFile, PromotionTypes, EvidenceTypeOK, MemoryTypeOK
<1> QED
  BY <1>2, <1>3, <1>4 DEF MemoryMatchesFile

\* A transaction lost after the rename leaves the file of a candidate without a row.
LEMMA LossMatches ==
  ASSUME PromotionTypes, MemoryMatchesFile, NEW c \in Targets, NEW text, NEW floor,
         Ratifiable(c, floor), WriteFile(c, text), UNCHANGED <<candidate, collective>>
  PROVE  /\ MemoryMatchesFile'
         /\ \A d \in Targets : candidate[d].status # "pending" => file'[d] = file[d]
<1>1. collective[c] = None /\ candidate[c].status = "pending"
  BY DEF Ratifiable, StillOpen, MemoryMatchesFile
<1>2. \A d \in Targets \ {c} : file'[d] = file[d]
  BY DEF WriteFile, PromotionTypes, MemoryTypeOK
<1> QED
  BY <1>1, <1>2 DEF MemoryMatchesFile

\* A candidate that does not pass between ratified and not keeps row and file agreed.
LEMMA CandidateMatches ==
  ASSUME MemoryMatchesFile, UNCHANGED memory,
         \A c \in Targets : candidate'[c].status = "ratified" <=> candidate[c].status = "ratified"
  PROVE  MemoryMatchesFile'
  BY DEF MemoryMatchesFile, memory

\* Every step, a lost transaction included, leaves row and file agreed.
LEMMA MatchKept ==
  LedgerInv /\ PromotionTypes /\ MemoryMatchesFile /\ [PromotionNext]_promotionVars
      => MemoryMatchesFile'
<1> SUFFICES ASSUME LedgerInv, PromotionTypes, MemoryMatchesFile, [PromotionNext]_promotionVars
             PROVE  MemoryMatchesFile'
  OBVIOUS
<1>1. CASE UNCHANGED <<candidate, memory>>
  BY <1>1, CandidateMatches
<1>2. ASSUME NEW c \in Targets, NEW n, NEW a \in Approvals, Propose(c, n, a)
      PROVE  MemoryMatchesFile'
  BY <1>2, CandidateMatches DEF Propose, SameProposal, PromotionTypes, EvidenceTypeOK
<1>3. ASSUME NEW c \in Targets, NEW e \in Entries, NEW p \in Principals,
             RecordCorroboration(c, e, p)
      PROVE  MemoryMatchesFile'
  BY <1>3, CandidateMatches
     DEF RecordCorroboration, StillOpen, PromotionTypes, EvidenceTypeOK, CandidateRow
<1>4. ASSUME NEW a \in Approvals, NEW p \in Principals, ApprovePromotion(a, p)
      PROVE  MemoryMatchesFile'
  <2>1. approvals[a].target \in Targets /\ now \in Nat
    BY <1>4, TargetOK DEF ApprovePromotion, ApproveAndApply, ResolveApproval, PromotionTypes,
                          MemoryTypeOK
  <2> QED
    BY <1>4, <2>1, RatificationMatches DEF ApprovePromotion
<1>5. ASSUME NEW a \in Approvals, RatifyForRun(a) PROVE MemoryMatchesFile'
  <2>1. approvals[a].target \in Targets /\ resolvedAt[a] \in Nat
    BY <1>5, TargetOK DEF RatifyForRun, AwaitsRatification, PromotionTypes, MemoryTypeOK
  <2> QED
    BY <1>5, <2>1, RatificationMatches DEF RatifyForRun
<1>6. ASSUME NEW a \in Approvals, NEW p \in Principals, RejectPromotion(a, p)
      PROVE  MemoryMatchesFile'
  BY <1>6, CandidateMatches DEF RejectPromotion, PromotionTypes, EvidenceTypeOK, CandidateRow
<1>7. ASSUME NEW a \in Approvals, NEW p \in Principals, LoseApproval(a, p)
      PROVE  MemoryMatchesFile'
  BY <1>7, TargetOK, LossMatches DEF LoseApproval, evidence
<1>8. ASSUME NEW a \in Approvals, LoseRatification(a) PROVE MemoryMatchesFile'
  BY <1>8, TargetOK, LossMatches DEF LoseRatification, AwaitsRatification, evidence
<1>9. CASE EvidenceSteps
  BY <1>1, <1>2, <1>3, <1>9 DEF EvidenceSteps, Attest, memory
<1>10. CASE DecisionSteps
  BY <1>1, <1>4, <1>5, <1>6, <1>7, <1>8, <1>10 DEF DecisionSteps, ApproveRunPromotion, evidence
<1> QED
  BY <1>1, <1>9, <1>10 DEF PromotionNext, promotionVars, Tick, evidence

\* A candidate is ratified exactly when its memory is on record, and the file says
\* what the row says, whichever transactions were lost (memory/service.ts:583).
THEOREM FilesMatch == PromotionSpec => []MemoryMatchesFile
<1>1. PromotionInit => MemoryMatchesFile
  BY DEF PromotionInit, MemoryMatchesFile
<1> QED
  BY <1>1, MatchKept, PromotionTyped, PTL DEF PromotionSpec

Settled(c) ==
    candidate[c].status \in {"ratified", "rejected"} =>
        /\ candidate'[c] = candidate[c]
        /\ RowsOf(c)' = RowsOf(c)
        /\ collective'[c] = collective[c]
        /\ file'[c] = file[c]

\* No step disturbs a settled candidate.
LEMMA SettledKept ==
  ASSUME LedgerInv, PromotionTypes, MemoryMatchesFile, [PromotionNext]_promotionVars,
         NEW c \in Targets
  PROVE  Settled(c)
<1> USE DEF Settled
<1>1. CASE UNCHANGED <<candidate, corroborations, memory>>
  BY <1>1 DEF memory, RowsOf
<1>2. ASSUME NEW d \in Targets, NEW n, NEW a \in Approvals, Propose(d, n, a)
      PROVE  Settled(c)
  BY <1>2 DEF Propose, SameProposal, memory, RowsOf, PromotionTypes, EvidenceTypeOK
<1>3. ASSUME NEW d \in Targets, NEW e \in Entries, NEW p \in Principals,
             RecordCorroboration(d, e, p)
      PROVE  Settled(c)
  <2>1. c # d => candidate'[c] = candidate[c] /\ RowsOf(c)' = RowsOf(c)
    BY <1>3 DEF RecordCorroboration, RowsOf, PromotionTypes, EvidenceTypeOK
  <2> QED
    BY <1>3, <2>1 DEF RecordCorroboration, StillOpen, memory
<1>4. ASSUME NEW d \in Targets, NEW at, NEW floor, RatifyAndWriteCollective(d, at, floor)
      PROVE  Settled(c)
  BY <1>4
     DEF RatifyAndWriteCollective, Ratifiable, StillOpen, WriteFile, RowsOf, PromotionTypes,
         EvidenceTypeOK, MemoryTypeOK
<1>5. ASSUME NEW a \in Approvals, NEW p \in Principals, ApprovePromotion(a, p)
      PROVE  Settled(c)
  BY <1>4, <1>5, TargetOK DEF ApprovePromotion, ApproveAndApply, ResolveApproval
<1>6. ASSUME NEW a \in Approvals, RatifyForRun(a) PROVE Settled(c)
  BY <1>4, <1>6, TargetOK DEF RatifyForRun, AwaitsRatification
<1>7. ASSUME NEW a \in Approvals, NEW p \in Principals, RejectPromotion(a, p)
      PROVE  Settled(c)
  <2>1. candidate[c].status \in {"ratified", "rejected"} => candidate'[c] = candidate[c]
    <3> DEFINE d == approvals[a].target
    <3>1. CASE UNCHANGED candidate
      BY <3>1
    <3>2. CASE /\ candidate[d].status # "ratified"
               /\ candidate' = [candidate EXCEPT ![d].status = "rejected"]
      <4>1. CASE c # d
        BY <3>2, <4>1 DEF PromotionTypes, EvidenceTypeOK
      <4>2. CASE c = d /\ candidate[c].status = "rejected"
        <5>1. [candidate[c] EXCEPT !.status = "rejected"] = candidate[c]
          BY <4>2 DEF PromotionTypes, EvidenceTypeOK, CandidateRow
        <5> QED
          BY <3>2, <4>2, <5>1 DEF PromotionTypes, EvidenceTypeOK
      <4> QED
        BY <3>2, <4>1, <4>2
    <3> QED
      BY <1>7, <3>1, <3>2 DEF RejectPromotion
  <2> QED
    BY <1>7, <2>1 DEF RejectPromotion, memory, RowsOf
<1>8. ASSUME NEW a \in Approvals, NEW p \in Principals, LoseApproval(a, p)
      PROVE  Settled(c)
  BY <1>8, TargetOK, LossMatches DEF LoseApproval, evidence, RowsOf
<1>9. ASSUME NEW a \in Approvals, LoseRatification(a) PROVE Settled(c)
  BY <1>9, TargetOK, LossMatches DEF LoseRatification, AwaitsRatification, evidence, RowsOf
<1>10. CASE EvidenceSteps
  BY <1>1, <1>2, <1>3, <1>10 DEF EvidenceSteps, Attest
<1>11. CASE DecisionSteps
  BY <1>1, <1>5, <1>6, <1>7, <1>8, <1>9, <1>11
     DEF DecisionSteps, ApproveRunPromotion, evidence
<1> QED
  BY <1>1, <1>10, <1>11 DEF PromotionNext, promotionVars, Tick, evidence

\* A ratified candidate gains no evidence and keeps its memory and file, a rejected
\* one never becomes memory (memory/service.ts:263).
THEOREM SettledIsFinal == PromotionSpec => SettledStaysSettled
<1>1. LedgerInv /\ PromotionTypes /\ MemoryMatchesFile /\ [PromotionNext]_promotionVars
          => \A c \in Targets : Settled(c)
  BY SettledKept
<1> QED
  BY <1>1, FilesMatch, PromotionTyped, PTL DEF PromotionSpec, SettledStaysSettled, Settled
-------------------------------------------------------------------------------
(* Guidance is earned.                                                     *)

\* Every corroboration is independent evidence that resolves, and no actor and no
\* entry appears on two rows of one candidate (memory/service.ts:
\* recordCorroboration).
RowsInv ==
    \A row \in corroborations :
        /\ row.by # ProposerOf[row.candidate] /\ row.source # SourceOf[row.candidate]
        /\ row.source \in eligible
        /\ \A other \in corroborations :
              (row.candidate = other.candidate
                  /\ (row.by = other.by \/ row.source = other.source)) => row = other

\* The promotion of a candidate is asked for by its proposer.
AskedByProposer ==
    \A a \in Approvals : approvals[a].status # "absent" =>
        approvals[a].by = ProposerOf[approvals[a].target]

\* What made a candidate guidance: an approval by another, and the floor of rows
\* when it was approved outside a run.
Grounds(c) ==
    \E a \in Approvals :
        /\ approvals[a].target = c /\ approvals[a].status = "approved"
        /\ signed[a].by # ProposerOf[c]
        /\ approvals[a].run = None => Cardinality(RowsOf(c)) >= MinCorroboration
Grounded == \A c \in Targets : collective[c] # None => Grounds(c)

EarnedInv == RowsInv /\ AskedByProposer /\ Grounded

PromotionContext == LedgerInv /\ PromotionTypes /\ MemoryMatchesFile

\* Only independent evidence that resolves becomes a row.
LEMMA RowsInvKept ==
  ASSUME PromotionContext, RowsInv, [PromotionNext]_promotionVars PROVE RowsInv'
<1>1. eligible \subseteq eligible' /\ corroborations' = corroborations => RowsInv'
  BY DEF RowsInv
<1>2. ASSUME NEW c \in Targets, NEW e \in Entries, NEW p \in Principals,
             RecordCorroboration(c, e, p)
      PROVE  RowsInv'
  <2> DEFINE row == [candidate |-> c, source |-> e, by |-> p]
  <2>1. corroborations' = corroborations \cup {row} /\ eligible' = eligible /\ e \in eligible
    BY <1>2 DEF RecordCorroboration
  <2>2. p # ProposerOf[c] /\ e # SourceOf[c]
    BY <1>2 DEF RecordCorroboration, Independent, SourceIndependent
  <2>3. \A other \in corroborations : other.candidate = c => other.by # p /\ other.source # e
    BY <1>2 DEF RecordCorroboration, Independent, SourceIndependent, RowsOf
  <2>4. row.candidate = c /\ row.source = e /\ row.by = p
    OBVIOUS
  <2> HIDE DEF row
  <2> QED
    BY <2>1, <2>2, <2>3, <2>4 DEF RowsInv
<1>3. CASE EvidenceSteps
  BY <1>1, <1>2, <1>3 DEF EvidenceSteps, Attest, Propose
<1>4. CASE DecisionSteps
  BY <1>1, <1>4 DEF DecisionSteps, ApprovePromotion, RatifyForRun, RatifyAndWriteCollective,
     ApproveRunPromotion, RejectPromotion, LoseApproval, LoseRatification, evidence
<1> QED
  BY <1>1, <1>3, <1>4 DEF PromotionNext, promotionVars, Tick, evidence

\* Only a proposer asks for the promotion of its candidate.
LEMMA AskedKept ==
  ASSUME PromotionContext, AskedByProposer, [PromotionNext]_promotionVars
  PROVE  AskedByProposer'
<1>0. approvals \in [Approvals -> ApprovalRow]
  BY DEF PromotionContext, LedgerInv, TypeOK, StoreTypeOK
<1>1. approvals' = approvals => AskedByProposer'
  BY DEF AskedByProposer
<1>2. ASSUME NEW c \in Targets, NEW n, NEW a \in Approvals, Propose(c, n, a)
      PROVE  AskedByProposer'
  <2>1. /\ \A b \in Approvals \ {a} : approvals'[b] = approvals[b]
        /\ approvals'[a].target = c /\ approvals'[a].by = ProposerOf[c]
    BY <1>0, <1>2 DEF Propose, RequestWithoutRun, RequestForRun
  <2> QED
    BY <2>1 DEF AskedByProposer
<1>3. ASSUME NEW a \in Approvals, NEW v \in {"approved", "rejected"}, ResolveApproval(a, v)
      PROVE  AskedByProposer'
  <2>1. /\ \A b \in Approvals \ {a} : approvals'[b] = approvals[b]
        /\ approvals'[a].target = approvals[a].target /\ approvals'[a].by = approvals[a].by
        /\ approvals[a].status = "pending"
    BY <1>0, <1>3 DEF ResolveApproval, ApprovalRow
  <2> QED
    BY <2>1 DEF AskedByProposer
<1>4. CASE EvidenceSteps
  BY <1>1, <1>2, <1>4 DEF EvidenceSteps, Attest, RecordCorroboration, vars
<1>5. CASE DecisionSteps
  BY <1>1, <1>3, <1>5 DEF DecisionSteps, ApprovePromotion, ApproveAndApply, RatifyForRun,
     ApproveRunPromotion, ApproveForRun, RejectPromotion, RejectForRun, RejectWithoutRun,
     LoseApproval, LoseRatification, vars
<1>6. CASE DriveSteps
  BY <1>1, <1>6 DEF DriveSteps, StartRun, DriveRun, RecordWhileSuspended
<1> QED
  BY <1>1, <1>4, <1>5, <1>6 DEF PromotionNext, promotionVars, Tick, vars

\* What a memory rests on stays: resolved approvals and their signatures are final,
\* and the rows of a ratified candidate are frozen.
LEMMA GroundsStay ==
  ASSUME PromotionContext, NEW c \in Targets, Grounds(c), RowsOf(c)' = RowsOf(c),
         \A a \in Approvals : approvals[a].status \in {"approved", "rejected"} =>
             approvals'[a] = approvals[a] /\ signed'[a] = signed[a]
  PROVE  Grounds(c)'
  BY DEF Grounds

\* A ratification, in the approving transaction or later, has its grounds.
LEMMA RatificationGrounded ==
  ASSUME PromotionContext, AskedByProposer, NEW a \in Approvals, NEW p,
         NEW c \in Targets, c = approvals[a].target,
         ApprovePromotion(a, p) \/ RatifyForRun(a)
  PROVE  Grounds(c)'
<1>0. /\ approvals \in [Approvals -> ApprovalRow]
      /\ signed \in [Approvals -> [verdict : {"none", "approved", "rejected"},
                                  by : Principals \cup {None}]]
  BY DEF PromotionContext, LedgerInv, TypeOK, StoreTypeOK, SignedTypeOK
<1>1. approvals[a].by = ProposerOf[c]
  BY DEF AskedByProposer, ApprovePromotion, ApproveAndApply, ResolveApproval, RatifyForRun,
         AwaitsRatification
<1>2. RowsOf(c)' = RowsOf(c)
  BY DEF ApprovePromotion, RatifyForRun, RatifyAndWriteCollective, RowsOf
<1>3. CASE ApprovePromotion(a, p)
  <2>1. /\ approvals'[a].target = c /\ approvals'[a].status = "approved"
        /\ signed'[a].by = p /\ p # ProposerOf[c]
    BY <1>0, <1>1, <1>3 DEF ApprovePromotion, ApproveAndApply, ResolveApproval, Sign,
                            NotSelfResolution, ApprovalRow
  <2>2. Cardinality(RowsOf(c)) >= MinCorroboration
    BY <1>3 DEF ApprovePromotion, RatifyAndWriteCollective, Ratifiable, CorroboratedEnough
  <2> QED
    BY <1>2, <2>1, <2>2 DEF Grounds
<1>4. CASE RatifyForRun(a)
  <2>1. /\ approvals[a].status = "approved" /\ approvals[a].run # None
        /\ approvals' = approvals /\ signed' = signed
    BY <1>4 DEF RatifyForRun, AwaitsRatification, vars
  <2>2. signed[a].by # ProposerOf[c]
    BY <1>1, <2>1 DEF PromotionContext, LedgerInv, ResolutionSignedByAnother
  <2> QED
    BY <1>2, <2>1, <2>2 DEF Grounds
<1> QED
  BY <1>3, <1>4

\* Only the two ratifications write a row of collective memory.
LEMMA OnlyRatificationWrites ==
  ASSUME PromotionContext, [PromotionNext]_promotionVars, NEW c \in Targets,
         collective'[c] # collective[c]
  PROVE  \E a \in Approvals : /\ approvals[a].target = c
                              /\ RatifyForRun(a) \/ \E p \in Principals : ApprovePromotion(a, p)
<1>1. ASSUME NEW d \in Targets, NEW at, NEW floor, RatifyAndWriteCollective(d, at, floor)
      PROVE  c = d
  BY <1>1 DEF RatifyAndWriteCollective, PromotionContext, PromotionTypes, MemoryTypeOK
<1>2. ASSUME NEW a \in Approvals, NEW p \in Principals, ApprovePromotion(a, p)
      PROVE  approvals[a].target = c
  BY <1>1, <1>2, TargetOK DEF PromotionContext, ApprovePromotion, ApproveAndApply,
                              ResolveApproval
<1>3. ASSUME NEW a \in Approvals, RatifyForRun(a) PROVE approvals[a].target = c
  BY <1>1, <1>3, TargetOK DEF PromotionContext, RatifyForRun, AwaitsRatification
<1>4. ~EvidenceSteps
  BY DEF EvidenceSteps, Attest, Propose, RecordCorroboration, memory
<1>5. \A a \in Approvals : /\ ~LoseRatification(a)
                           /\ \A p \in Principals : /\ ~ApproveRunPromotion(a, p)
                                                    /\ ~RejectPromotion(a, p)
                                                    /\ ~LoseApproval(a, p)
  BY DEF ApproveRunPromotion, RejectPromotion, LoseApproval, LoseRatification, memory
<1>6. DecisionSteps
  BY <1>4 DEF PromotionNext, promotionVars, Tick, memory
<1> QED
  BY <1>2, <1>3, <1>5, <1>6 DEF DecisionSteps

\* A step that writes guidance has its grounds, and no step takes them away.
LEMMA GroundedKept ==
  ASSUME PromotionContext, EarnedInv, [PromotionNext]_promotionVars
  PROVE  Grounded'
<1> SUFFICES ASSUME NEW c \in Targets, collective'[c] # None PROVE Grounds(c)'
  BY DEF Grounded
<1>1. CASE collective'[c] # collective[c]
  <2>1. PICK a \in Approvals :
            /\ approvals[a].target = c
            /\ RatifyForRun(a) \/ \E p \in Principals : ApprovePromotion(a, p)
    BY <1>1, OnlyRatificationWrites
  <2> QED
    BY <2>1, RatificationGrounded DEF EarnedInv
<1>2. CASE collective'[c] = collective[c]
  <2>1. Grounds(c) /\ candidate[c].status = "ratified"
    BY <1>2 DEF EarnedInv, Grounded, PromotionContext, MemoryMatchesFile
  <2>2. RowsOf(c)' = RowsOf(c)
    BY <2>1, SettledKept DEF PromotionContext, Settled
  <2>3. \A a \in Approvals : approvals[a].status \in {"approved", "rejected"} =>
            approvals'[a] = approvals[a] /\ signed'[a] = signed[a]
    BY PromotionStepsQueue, DecisionsKept DEF PromotionContext, LedgerInv
  <2> QED
    BY <2>1, <2>2, <2>3, GroundsStay
<1> QED
  BY <1>1, <1>2

\* All guidance has its grounds in every reachable state.
LEMMA EarnedInvHolds == PromotionSpec => []EarnedInv
<1>1. PromotionInit => EarnedInv
  BY DEF PromotionInit, Init, StoreInit, AbsentApproval, EarnedInv, RowsInv, AskedByProposer,
         Grounded
<1>2. PromotionContext /\ EarnedInv /\ [PromotionNext]_promotionVars => EarnedInv'
  BY RowsInvKept, AskedKept, GroundedKept DEF EarnedInv
<1> QED
  BY <1>1, <1>2, PromotionTyped, FilesMatch, PTL DEF PromotionSpec, PromotionContext

\* A candidate's rows are as many as their actors and as their entries.
LEMMA RowsCountActors ==
  ASSUME PromotionTypes, RowsInv, NEW c
  PROVE  /\ Cardinality({row.by : row \in RowsOf(c)}) = Cardinality(RowsOf(c))
         /\ Cardinality({row.source : row \in RowsOf(c)}) = Cardinality(RowsOf(c))
<1>1. IsFiniteSet(RowsOf(c))
  BY RowsAreFinite DEF PromotionTypes
<1>2. Cardinality({row.by : row \in RowsOf(c)}) = Cardinality(RowsOf(c))
  <2> DEFINE f == [row \in RowsOf(c) |-> row.by]
  <2>1. f \in Injection(RowsOf(c), {row.by : row \in RowsOf(c)})
    BY DEF RowsInv, RowsOf, Injection, IsInjective
  <2>2. f \in Surjection(RowsOf(c), {row.by : row \in RowsOf(c)})
    BY DEF Surjection
  <2> QED
    BY <1>1, <2>1, <2>2, FS_Surjection
<1>3. Cardinality({row.source : row \in RowsOf(c)}) = Cardinality(RowsOf(c))
  <2> DEFINE f == [row \in RowsOf(c) |-> row.source]
  <2>1. f \in Injection(RowsOf(c), {row.source : row \in RowsOf(c)})
    BY DEF RowsInv, RowsOf, Injection, IsInjective
  <2>2. f \in Surjection(RowsOf(c), {row.source : row \in RowsOf(c)})
    BY DEF Surjection
  <2> QED
    BY <1>1, <2>1, <2>2, FS_Surjection
<1> QED
  BY <1>2, <1>3

\* What became collective was approved by another than its proposer and, outside a
\* run, stands on MinCorroboration different actors and entries, none of them the
\* proposer or the promoted entry (memory/service.ts: ratifyAndWriteCollective).
THEOREM GuidanceEarned == PromotionSpec => []GuidanceIsEarned
<1>1. PromotionContext /\ EarnedInv => GuidanceIsEarned
  <2> SUFFICES ASSUME PromotionContext, EarnedInv, NEW c \in Targets, collective[c] # None
               PROVE  \E a \in Approvals :
                         /\ approvals[a].target = c /\ approvals[a].status = "approved"
                         /\ signed[a].by # ProposerOf[c]
                         /\ approvals[a].run = None =>
                              LET actors == {row.by : row \in RowsOf(c)}
                                  sources == {row.source : row \in RowsOf(c)} IN
                              /\ Cardinality(actors \ {ProposerOf[c]}) >= MinCorroboration
                              /\ Cardinality((sources \ {SourceOf[c]}) \cap eligible)
                                     >= MinCorroboration
    BY DEF GuidanceIsEarned
  <2> DEFINE actors == {row.by : row \in RowsOf(c)}
             sources == {row.source : row \in RowsOf(c)}
  <2>1. actors \ {ProposerOf[c]} = actors
    BY DEF EarnedInv, RowsInv, RowsOf
  <2>2. (sources \ {SourceOf[c]}) \cap eligible = sources
    BY DEF EarnedInv, RowsInv, RowsOf
  <2>3. /\ Cardinality(actors) = Cardinality(RowsOf(c))
        /\ Cardinality(sources) = Cardinality(RowsOf(c))
    BY RowsCountActors DEF PromotionContext, EarnedInv
  <2>4. Grounds(c)
    BY DEF EarnedInv, Grounded
  <2> HIDE DEF actors, sources
  <2> QED
    BY <2>1, <2>2, <2>3, <2>4 DEF Grounds, actors, sources
<1> QED
  BY <1>1, EarnedInvHolds, PromotionTyped, FilesMatch, PTL DEF PromotionContext

-------------------------------------------------------------------------------
(* Cleanups and their entries.                                             *)

\* The rows of proposals, applications and entries have their types, every rejected
\* entry its one application in force, and no proposer applied its own proposal.
ChangeInv ==
    /\ ChangeTypeOK
    /\ CleanupsAreAccounted
    /\ \A o \in Targets : applications[o].by # ProposedBy[o]

\* No change is on record at first.
LEMMA ChangeInvInit == AutonomyInit => ChangeInv
<1> SUFFICES ASSUME AutonomyInit PROVE ChangeInv
  OBVIOUS
<1>1. ChangeTypeOK
  BY DEF AutonomyInit, ChangeInit, ChangeTypeOK, ProposalStatus, Application, NoApplication
<1>2. Verified = {}
  BY DEF AutonomyInit, ChangeInit, Verified, NoApplication
<1>3. \A e \in MemoryEntries : entries[e] # "rejected"
  BY DEF AutonomyInit, ChangeInit
<1>4. \A o \in Targets : applications[o].by # ProposedBy[o]
  BY RunStoreAssumption, OrgChangeAssumption
     DEF OrgChangeAssumption, AutonomyInit, ChangeInit, NoApplication
<1> QED
  BY <1>1, <1>2, <1>3, <1>4 DEF ChangeInv, CleanupsAreAccounted

\* An application takes stale entries, at least one, and becomes the one in force
\* for exactly these (apply.ts: apply, memoryCleanupApplier).
LEMMA ApplyKeepsChanges ==
  ASSUME ChangeInv, NEW o \in Targets, NEW p \in Principals, Apply(o, p)
  PROVE  ChangeInv'
<1>1. ChangeTypeOK'
  BY DEF ChangeInv, ChangeTypeOK, Apply, Swap, SetProposal, ProposalStatus, Application
<1>2. EntriesOf[o] \subseteq MemoryEntries /\ EntriesOf[o] # {}
  <2>1. EntriesOf[o] \subseteq MemoryEntries
    BY OrgChangeAssumption DEF OrgChangeAssumption
  <2>2. Cardinality(EntriesOf[o]) # 0
    BY OrgChangeAssumption DEF OrgChangeAssumption, Apply
  <2>3. Cardinality({}) = 0
    BY FS_EmptySet
  <2> QED
    BY <2>1, <2>2, <2>3
<1>3. \A e \in EntriesOf[o] : entries[e] = "stale"
  BY DEF Apply, Swap
<1>4. \A oo \in Verified : EntriesOf[oo] \cap EntriesOf[o] = {}
  BY <1>2, <1>3 DEF ChangeInv, CleanupsAreAccounted
<1>5. Verified' = Verified \cup {o}
  BY DEF ChangeInv, ChangeTypeOK, Apply, Verified, Application
<1>6. \A e \in MemoryEntries : entries'[e] = "rejected" <=> \E oo \in Verified' : e \in EntriesOf[oo]
  <2> SUFFICES ASSUME NEW e \in MemoryEntries
               PROVE  entries'[e] = "rejected" <=> \E oo \in Verified' : e \in EntriesOf[oo]
    OBVIOUS
  <2>1. CASE e \in EntriesOf[o]
    BY <2>1, <1>5 DEF Apply, Swap
  <2>2. CASE e \notin EntriesOf[o]
    <3>1. entries'[e] = entries[e]
      BY <2>2 DEF Apply, Swap
    <3> QED
      BY <2>2, <3>1, <1>5 DEF ChangeInv, CleanupsAreAccounted
  <2> QED
    BY <2>1, <2>2
<1>7. \A oo, ooo \in Verified' : oo # ooo => EntriesOf[oo] \cap EntriesOf[ooo] = {}
  BY <1>4, <1>5 DEF ChangeInv, CleanupsAreAccounted
<1>8. \A oo \in Targets : applications'[oo].by # ProposedBy[oo]
  BY DEF ChangeInv, ChangeTypeOK, Apply, ApplyAllowed
<1> QED
  BY <1>1, <1>6, <1>7, <1>8 DEF ChangeInv, CleanupsAreAccounted

\* A reversal gives back the entries of its own application, which no other one in
\* force names (apply.ts: revert).
LEMMA RevertKeepsChanges ==
  ASSUME ChangeInv, NEW o \in Targets, NEW p \in Principals, Revert(o, p)
  PROVE  ChangeInv'
<1>1. ChangeTypeOK'
  BY DEF ChangeInv, ChangeTypeOK, Revert, Swap, Application
<1>2. o \in Verified
  BY DEF Revert, Verified
<1>3. Verified' = Verified \ {o}
  BY DEF ChangeInv, ChangeTypeOK, Revert, Verified, Application
<1>4. \A e \in MemoryEntries : entries'[e] = "rejected" <=> \E oo \in Verified' : e \in EntriesOf[oo]
  <2> SUFFICES ASSUME NEW e \in MemoryEntries
               PROVE  entries'[e] = "rejected" <=> \E oo \in Verified' : e \in EntriesOf[oo]
    OBVIOUS
  <2>1. CASE e \in EntriesOf[o]
    <3>1. entries'[e] = "stale"
      BY <2>1 DEF Revert, Swap
    <3>2. \A oo \in Verified \ {o} : e \notin EntriesOf[oo]
      BY <2>1, <1>2 DEF ChangeInv, CleanupsAreAccounted
    <3> QED
      BY <3>1, <3>2, <1>3
  <2>2. CASE e \notin EntriesOf[o]
    <3>1. entries'[e] = entries[e]
      BY <2>2 DEF Revert, Swap
    <3> QED
      BY <2>2, <3>1, <1>3 DEF ChangeInv, CleanupsAreAccounted
  <2> QED
    BY <2>1, <2>2
<1>5. \A oo, ooo \in Verified' : oo # ooo => EntriesOf[oo] \cap EntriesOf[ooo] = {}
  BY <1>3 DEF ChangeInv, CleanupsAreAccounted
<1>6. \A oo \in Targets : applications'[oo].by # ProposedBy[oo]
  BY DEF ChangeInv, ChangeTypeOK, Revert
<1> QED
  BY <1>1, <1>4, <1>5, <1>6 DEF ChangeInv, CleanupsAreAccounted

\* Whatever leaves applications and entries alone keeps the invariant, so long as
\* proposals and the kill switch keep their types.
LEMMA OthersKeepChanges ==
  ASSUME ChangeInv, UNCHANGED <<applications, entries>>,
         proposals' \in [Targets -> ProposalStatus], applyPaused' \in BOOLEAN
  PROVE  ChangeInv'
  BY DEF ChangeInv, ChangeTypeOK, CleanupsAreAccounted, Verified

\* Every step accounts for the changes it opens, decides and cleans up.
LEMMA ChangesKeepInv == ChangeInv /\ [AutonomyNext]_autonomyVars => ChangeInv'
<1> SUFFICES ASSUME ChangeInv, [AutonomyNext]_autonomyVars PROVE ChangeInv'
  OBVIOUS
<1> USE DEF ChangeInv, ChangeTypeOK, ProposalStatus, SetProposal
<1>1. ASSUME UNCHANGED changeVars PROVE ChangeInv'
  BY <1>1, OthersKeepChanges DEF changeVars
<1>2. ASSUME NEW o \in Targets, NEW a \in Approvals, ProposeChange(o, a) PROVE ChangeInv'
  BY <1>2, OthersKeepChanges DEF ProposeChange
<1>3. ASSUME NEW a \in Approvals, NEW p \in Principals, ApproveChange(a, p) PROVE ChangeInv'
  BY <1>3, OthersKeepChanges DEF ApproveChange
<1>4. ASSUME NEW a \in Approvals, NEW p \in Principals, RejectChange(a, p) PROVE ChangeInv'
  BY <1>4, OthersKeepChanges DEF RejectChange, RejectTarget
<1>5. ASSUME NEW o \in Targets, NEW p \in Principals, Apply(o, p) PROVE ChangeInv'
  BY <1>5, ApplyKeepsChanges
<1>6. ASSUME NEW o \in Targets, NEW p \in Principals, Revert(o, p) PROVE ChangeInv'
  BY <1>6, RevertKeepsChanges
<1>7. ASSUME NEW o \in Targets, NEW p \in Principals, Acknowledge(o, p) PROVE ChangeInv'
  BY <1>7, OthersKeepChanges DEF Acknowledge
<1>8. ASSUME NEW o \in Targets, Withdraw(o) PROVE ChangeInv'
  BY <1>8, OthersKeepChanges DEF Withdraw
<1>9. ASSUME NEW paused \in BOOLEAN, SetPaused(paused) PROVE ChangeInv'
  BY <1>9, OthersKeepChanges DEF SetPaused
<1>10. CASE ChangeSteps
  BY <1>10, <1>2, <1>3, <1>4, <1>5, <1>6, <1>7, <1>8, <1>9 DEF ChangeSteps
<1>11. CASE ~ChangeSteps
  <2>1. UNCHANGED orgVars
    BY <1>11 DEF AutonomyNext, ProposeWidening, RatifyWidening, RejectWidening, Narrow, SecondPasses,
                 autonomyVars
  <2> QED
    BY <2>1, <1>1 DEF orgVars
<1> QED
  BY <1>10, <1>11

\* Overlapping cleanups, applied and reverted in any order, neither share an entry
\* nor leave one behind (apply.ts:365).
THEOREM ChangesAccounted == AutonomySpec => []CleanupsAreAccounted
<1>1. AutonomySpec => []ChangeInv
  BY ChangeInvInit, ChangesKeepInv, PTL DEF AutonomySpec
<1>2. ChangeInv => CleanupsAreAccounted
  BY DEF ChangeInv
<1> QED
  BY <1>1, <1>2, PTL
-------------------------------------------------------------------------------
(* The queue under the changes, and types.                                 *)

\* Every step of changes and dial is a transaction of the approval queue or leaves
\* its tables alone (changes.ts and autonomy.ts reach them through approvals.ts).
LEMMA ChangesStepQueue == [AutonomyNext]_autonomyVars => [Next]_vars
<1> SUFFICES ASSUME [AutonomyNext]_autonomyVars PROVE [Next]_vars
  OBVIOUS
<1>1. ASSUME NEW o \in Targets, NEW a \in Approvals, ProposeChange(o, a)
      PROVE  Next
  BY <1>1, OrgChangeAssumption DEF OrgChangeAssumption, ProposeChange, Next, RequestSteps
<1>2. ASSUME NEW a \in Approvals, NEW p \in Principals,
             ApproveChange(a, p) \/ RejectChange(a, p)
      PROVE  Next
  BY <1>2 DEF ApproveChange, RejectChange, Next, ResolutionSteps
<1>3. CASE ChangeSteps
  <2>1. ASSUME NEW o \in Targets, NEW p \in Principals,
               Apply(o, p) \/ Revert(o, p) \/ Acknowledge(o, p)
        PROVE  UNCHANGED vars
    BY <2>1 DEF Apply, Revert, Acknowledge
  <2>2. ASSUME NEW o \in Targets, Withdraw(o) PROVE UNCHANGED vars
    BY <2>2 DEF Withdraw
  <2>3. ASSUME NEW paused \in BOOLEAN, SetPaused(paused) PROVE UNCHANGED vars
    BY <2>3 DEF SetPaused
  <2> QED
    BY <1>1, <1>2, <1>3, <2>1, <2>2, <2>3 DEF ChangeSteps
<1>4. CASE ~ChangeSteps
  BY <1>4 DEF AutonomyNext, ProposeWidening, RatifyWidening, RejectWidening, Narrow, SecondPasses,
              autonomyVars, orgVars
<1> QED
  BY <1>3, <1>4

\* Organizational changes and the dial behave, on the queue's tables, as the approval
\* queue does: all it guarantees holds of them.
THEOREM ChangesImplementQueue == AutonomySpec => Spec
<1>1. AutonomyInit => Init
  BY DEF AutonomyInit
<1> QED
  BY <1>1, ChangesStepQueue, PTL DEF AutonomySpec, Spec

DialTypeOK ==
    /\ level \in Levels
    /\ cases \in [Cases -> Case]
    /\ narrowed \in [0 .. MaxSeconds -> Move \cup {None}]
    /\ second \in 0 .. MaxSeconds
    /\ drifted \subseteq Cases

\* A step of the dial leaves the streaks, bands and cases their types.
LEMMA DialTypes ==
    /\ AutonomyInit => DialTypeOK
    /\ DialTypeOK /\ [AutonomyNext]_autonomyVars => DialTypeOK'
<1>1. AutonomyInit => DialTypeOK
  BY AutonomyAssumption DEF AutonomyAssumption, AutonomyInit, DialTypeOK, Case
<1>2. ASSUME DialTypeOK, [AutonomyNext]_autonomyVars PROVE DialTypeOK'
  <2> USE AutonomyAssumption DEF AutonomyAssumption, DialTypeOK, Levels
  <2>1. ASSUME NEW k \in Cases, NEW q \in Principals, ProposeWidening(k, q) PROVE DialTypeOK'
    <3>1. NextWider \in Levels
      BY <1>2, <2>1 DEF ProposeWidening, Widenable, NextWider
    <3> QED
      BY <1>2, <2>1, <3>1 DEF ProposeWidening, Case
  <2>2. ASSUME NEW k \in Cases, NEW p \in Principals, RatifyWidening(k, p) PROVE DialTypeOK'
    <3>1. cases[k].to \in Levels
      BY <1>2, <2>2 DEF RatifyWidening, CaseAgainstLiveDial, Widenable, NextWider
    <3>2. cases' \in [Cases -> Case]
      BY <1>2, <2>2 DEF RatifyWidening, Case
    <3> QED
      BY <1>2, <2>2, <3>1, <3>2 DEF RatifyWidening, MoveDial, Proposed
  <2>3. ASSUME NEW k \in Cases, RejectWidening(k) PROVE DialTypeOK'
    <3>1. cases' \in [Cases -> Case]
      BY <1>2, <2>3 DEF RejectWidening, Case
    <3> QED
      BY <1>2, <2>3, <3>1 DEF RejectWidening
  <2>4. ASSUME NEW to \in Levels, Narrow(to) PROVE DialTypeOK'
    BY <1>2, <2>4 DEF Narrow, MoveDial, Proposed, Move
  <2>5. CASE SecondPasses
    BY <1>2, <2>5 DEF SecondPasses
  <2>6. CASE UNCHANGED dialVars
    BY <1>2, <2>6 DEF dialVars
  <2> QED
    BY <1>2, <2>1, <2>2, <2>3, <2>4, <2>5, <2>6 DEF AutonomyNext, autonomyVars
<1> QED
  BY <1>1, <1>2

\* The rows of queue, changes and dial have their types in every reachable state.
THEOREM AutonomyTypeCorrect == AutonomySpec => []AutonomyTypeOK
<1>1. AutonomyInit => ChangeInv /\ DialTypeOK
  BY ChangeInvInit, DialTypes
<1>2. ChangeInv /\ DialTypeOK /\ [AutonomyNext]_autonomyVars => (ChangeInv /\ DialTypeOK)'
  BY ChangesKeepInv, DialTypes
<1>3. TypeOK /\ ChangeInv /\ DialTypeOK => AutonomyTypeOK
  BY DEF ChangeInv, DialTypeOK, AutonomyTypeOK
<1> QED
  BY <1>1, <1>2, <1>3, ChangesImplementQueue, TypeCorrect, PTL DEF AutonomySpec

-------------------------------------------------------------------------------
(* Widening.                                                               *)

\* The dial widens by one level, under the ceiling, only by ratifying a case proposed
\* for that level, while enough applications somebody else made are in force
\* (autonomy.ts: ratifyWidening).
THEOREM WideningEarned == AutonomySpec => WideningIsEarned
<1>1. ASSUME ChangeInv, DialTypeOK, [AutonomyNext]_autonomyVars, level' > level
      PROVE  /\ level' = level + 1 /\ level' <= Ceiling
             /\ \E k \in Cases : /\ cases[k].status = "proposed"
                                 /\ cases'[k].status = "ratified"
                                 /\ cases[k].to = level'
             /\ Cardinality({o \in Targets : /\ applications[o].status = "verified"
                                             /\ applications[o].by # ProposedBy[o]})
                    >= MinTrackRecord
  <2>1. ~UNCHANGED level
    BY <1>1 DEF DialTypeOK, Levels
  <2>2. ASSUME NEW to \in Levels, Narrow(to) PROVE FALSE
    BY <1>1, <2>2 DEF Narrow, MoveDial, DialTypeOK, Levels
  <2>3. PICK k \in Cases, p \in Principals : RatifyWidening(k, p)
    BY <1>1, <2>1, <2>2 DEF AutonomyNext, autonomyVars, dialVars, ProposeWidening,
       RejectWidening, SecondPasses
  <2>4. level' = cases[k].to /\ cases[k].to = NextWider /\ Widenable(TrackRecord)
    BY <2>3 DEF RatifyWidening, MoveDial, CaseAgainstLiveDial
  <2>5. cases[k].status = "proposed" /\ cases'[k].status = "ratified"
    BY <1>1, <2>3 DEF RatifyWidening, DialTypeOK, Case
  <2>6. Verified = {o \in Targets : /\ applications[o].status = "verified"
                                    /\ applications[o].by # ProposedBy[o]}
    BY <1>1 DEF ChangeInv, Verified
  <2>7. Cardinality({o \in Targets : /\ applications[o].status = "verified"
                                      /\ applications[o].by # ProposedBy[o]})
            >= MinTrackRecord
    BY <2>4, <2>6 DEF Widenable, TrackRecord
  <2> QED
    BY <2>4, <2>5, <2>7 DEF NextWider, Widenable
<1>2. AutonomyInit => ChangeInv /\ DialTypeOK
  BY ChangeInvInit, DialTypes
<1>3. ChangeInv /\ DialTypeOK /\ [AutonomyNext]_autonomyVars => (ChangeInv /\ DialTypeOK)'
  BY ChangesKeepInv, DialTypes
<1> QED
  BY <1>1, <1>2, <1>3, PTL DEF AutonomySpec, WideningIsEarned
-------------------------------------------------------------------------------
(* Proposals and their approvals.                                          *)

\* The approval of a proposal is made with it and stays.
EveryProposalIsAsked ==
    \A o \in Targets : proposals[o] # "absent" =>
        \E a \in Approvals : approvals[a].status # "absent" /\ approvals[a].target = o

\* A stored approval is asked for by the proposer of a proposal on record, and no
\* proposal has two: its approval is made with it, once.
OneApprovalPerProposal ==
    /\ \A a \in Approvals : approvals[a].status # "absent" =>
          /\ approvals[a].target \in Targets
          /\ approvals[a].by = ProposedBy[approvals[a].target]
          /\ proposals[approvals[a].target] # "absent"
    /\ \A a, b \in Approvals :
          /\ approvals[a].status # "absent" /\ approvals[b].status # "absent"
          /\ approvals[a].target = approvals[b].target
          => a = b
    /\ \A o \in Targets : applications[o].status # "absent" <=> proposals[o] = "applied"

VerdictsAgree ==
    \A a \in Approvals : approvals[a].status # "absent" =>
        /\ approvals[a].status = "pending" <=> proposals[approvals[a].target] = "proposed"
        /\ approvals[a].status = "rejected" <=> proposals[approvals[a].target] = "rejected"

FollowInv == EveryProposalIsAsked /\ OneApprovalPerProposal /\ VerdictsAgree

Typed == TypeOK /\ ChangeInv

\* There is no proposal at first.
LEMMA FollowInit == AutonomyInit => FollowInv
  BY DEF AutonomyInit, Init, StoreInit, AbsentApproval, ChangeInit, NoApplication, FollowInv,
         EveryProposalIsAsked, OneApprovalPerProposal, VerdictsAgree

\* The one step that makes an approval makes its proposal (changes.ts: propose).
LEMMA ProposalIsFollowed ==
  ASSUME Typed, FollowInv, NEW o \in Targets, NEW a \in Approvals, ProposeChange(o, a)
  PROVE  FollowInv'
<1>1. /\ \A b \in Approvals \ {a} : approvals'[b] = approvals[b]
      /\ approvals[a].status = "absent"
      /\ approvals'[a].status = "pending" /\ approvals'[a].target = o
      /\ approvals'[a].by = ProposedBy[o]
  BY DEF Typed, TypeOK, StoreTypeOK, ProposeChange, RequestWithoutRun, NewRequest
<1>2. /\ proposals[o] = "absent" /\ proposals'[o] = "proposed"
      /\ \A oo \in Targets \ {o} : proposals'[oo] = proposals[oo]
      /\ applications' = applications
  BY DEF Typed, ChangeInv, ChangeTypeOK, ProposeChange, SetProposal
<1>3. \A b \in Approvals : approvals[b].status # "absent" => approvals[b].target # o
  BY <1>2 DEF FollowInv, OneApprovalPerProposal
<1>4. OneApprovalPerProposal'
  BY <1>1, <1>2, <1>3 DEF FollowInv, OneApprovalPerProposal
<1>5. VerdictsAgree'
  BY <1>1, <1>2, <1>3 DEF FollowInv, OneApprovalPerProposal, VerdictsAgree
<1>6. EveryProposalIsAsked'
  BY <1>1, <1>2 DEF FollowInv, EveryProposalIsAsked
<1> QED
  BY <1>4, <1>5, <1>6 DEF FollowInv

\* A resolution gives approval and proposal the same verdict (changes.ts: the
\* handlers it registers with approvals.ts).
LEMMA VerdictIsFollowed ==
  ASSUME Typed, FollowInv, NEW a \in Approvals, NEW v \in {"approved", "rejected"},
         ResolveApproval(a, v), SetProposal(approvals[a].target, v), UNCHANGED applications
  PROVE  FollowInv'
<1> DEFINE o == approvals[a].target
<1>1. /\ \A b \in Approvals \ {a} : approvals'[b] = approvals[b]
      /\ approvals[a].status = "pending" /\ approvals'[a].status = v
      /\ approvals'[a].target = o /\ approvals'[a].by = approvals[a].by
  BY DEF Typed, TypeOK, StoreTypeOK, ApprovalRow, ResolveApproval
<1>2. o \in Targets /\ proposals[o] = "proposed"
  BY <1>1 DEF FollowInv, OneApprovalPerProposal, VerdictsAgree
<1>3. proposals'[o] = v /\ \A oo \in Targets \ {o} : proposals'[oo] = proposals[oo]
  BY <1>2 DEF Typed, ChangeInv, ChangeTypeOK, SetProposal
<1>4. \A b \in Approvals \ {a} : approvals[b].status # "absent" => approvals[b].target # o
  BY <1>1 DEF FollowInv, OneApprovalPerProposal
<1>5. OneApprovalPerProposal'
  BY <1>1, <1>2, <1>3, <1>4 DEF FollowInv, OneApprovalPerProposal
<1>6. VerdictsAgree'
  BY <1>1, <1>2, <1>3, <1>4 DEF FollowInv, OneApprovalPerProposal, VerdictsAgree
<1>7. EveryProposalIsAsked'
  BY <1>1, <1>2, <1>3 DEF FollowInv, EveryProposalIsAsked
<1> QED
  BY <1>5, <1>6, <1>7 DEF FollowInv

\* What happens to an approved proposal afterwards leaves its verdict alone
\* (apply.ts: apply, revert; control.ts: acknowledge; changes.ts: withdraw).
LEMMA LaterStepsFollow ==
  ASSUME Typed, FollowInv, UNCHANGED approvals, NEW o \in Targets, NEW p \in Principals,
         Apply(o, p) \/ Revert(o, p) \/ Acknowledge(o, p) \/ Withdraw(o)
  PROVE  FollowInv'
<1>1. \A oo \in Targets \ {o} : /\ proposals'[oo] = proposals[oo]
                                 /\ applications'[oo] = applications[oo]
  BY DEF Typed, ChangeInv, ChangeTypeOK, Apply, Revert, Acknowledge, Withdraw, SetProposal
<1>2. \/ proposals'[o] = proposals[o]
      \/ /\ proposals[o] \in {"approved", "acknowledged"}
         /\ proposals'[o] \in {"applied", "acknowledged", "withdrawn"}
  BY DEF Typed, ChangeInv, ChangeTypeOK, Apply, Revert, Acknowledge, Withdraw, SetProposal,
         ApplyAllowed
<1>3. applications'[o].status # "absent" <=> proposals'[o] = "applied"
  BY DEF Typed, ChangeInv, ChangeTypeOK, Apply, Revert, Acknowledge, Withdraw, SetProposal,
         ApplyAllowed, FollowInv, OneApprovalPerProposal, Application
<1>4. OneApprovalPerProposal'
  BY <1>1, <1>2, <1>3 DEF FollowInv, OneApprovalPerProposal
<1>5. VerdictsAgree'
  BY <1>1, <1>2 DEF FollowInv, OneApprovalPerProposal, VerdictsAgree
<1>6. EveryProposalIsAsked'
  BY <1>1, <1>2 DEF FollowInv, EveryProposalIsAsked
<1> QED
  BY <1>4, <1>5, <1>6 DEF FollowInv

\* Every step keeps a proposal and its approval together.
LEMMA FollowKept == Typed /\ FollowInv /\ [AutonomyNext]_autonomyVars => FollowInv'
<1> SUFFICES ASSUME Typed, FollowInv, [AutonomyNext]_autonomyVars PROVE FollowInv'
  OBVIOUS
<1>1. ASSUME NEW o \in Targets, NEW a \in Approvals, ProposeChange(o, a) PROVE FollowInv'
  BY <1>1, ProposalIsFollowed
<1>2. ASSUME NEW a \in Approvals, NEW p \in Principals, ApproveChange(a, p) PROVE FollowInv'
  BY <1>2, VerdictIsFollowed DEF ApproveChange, ApproveAndApply
<1>3. ASSUME NEW a \in Approvals, NEW p \in Principals, RejectChange(a, p) PROVE FollowInv'
  BY <1>3, VerdictIsFollowed DEF RejectChange, RejectWithoutRun, RejectTarget
<1>4. ASSUME NEW o \in Targets, NEW p \in Principals,
             Apply(o, p) \/ Revert(o, p) \/ Acknowledge(o, p)
      PROVE  FollowInv'
  BY <1>4, LaterStepsFollow DEF Apply, Revert, Acknowledge, vars
<1>5. ASSUME NEW o \in Targets, Withdraw(o) PROVE FollowInv'
  <2>1. PICK p : p \in Principals
    BY OrgChangeAssumption DEF OrgChangeAssumption
  <2> QED
    BY <1>5, <2>1, LaterStepsFollow DEF Withdraw, vars
<1>6. CASE UNCHANGED <<approvals, proposals, applications>>
  BY <1>6 DEF FollowInv, EveryProposalIsAsked, OneApprovalPerProposal, VerdictsAgree
<1>7. ASSUME NEW paused \in BOOLEAN, SetPaused(paused) PROVE FollowInv'
  BY <1>7, <1>6 DEF SetPaused, vars
<1>8. CASE ChangeSteps
  BY <1>8, <1>1, <1>2, <1>3, <1>4, <1>5, <1>7 DEF ChangeSteps
<1>9. CASE ~ChangeSteps
  <2>1. UNCHANGED orgVars
    BY <1>9 DEF AutonomyNext, ProposeWidening, RatifyWidening, RejectWidening, Narrow, SecondPasses,
                autonomyVars
  <2> QED
    BY <2>1, <1>6 DEF orgVars, changeVars, vars
<1> QED
  BY <1>8, <1>9

\* A proposal goes where its approval went: what was applied was approved by somebody
\* other than its proposer and applied by somebody else again (changes.ts:112).
THEOREM ProposalsFollow == AutonomySpec => []ProposalFollowsApproval
<1>1. AutonomySpec => [](Typed /\ FollowInv /\ LedgerInv)
  <2>1. AutonomyInit => ChangeInv /\ FollowInv
    BY ChangeInvInit, FollowInit
  <2>2. TypeOK /\ ChangeInv /\ FollowInv /\ [AutonomyNext]_autonomyVars
            => ChangeInv' /\ FollowInv'
    BY ChangesKeepInv, FollowKept DEF Typed
  <2>3. TypeOK /\ ChangeInv <=> Typed
    BY DEF Typed
  <2> QED
    BY <2>1, <2>2, <2>3, ChangesImplementQueue, TypeCorrect, LedgerInvHolds, PTL
       DEF AutonomySpec
<1>2. ASSUME Typed, FollowInv, LedgerInv PROVE ProposalFollowsApproval
  <2> SUFFICES ASSUME NEW o \in Targets, proposals[o] # "absent"
               PROVE  \E a \in Approvals :
                         /\ AskedFor(o) = {a}
                         /\ approvals[a].status = "pending" <=> proposals[o] = "proposed"
                         /\ approvals[a].status = "rejected" <=> proposals[o] = "rejected"
                         /\ approvals[a].status = "approved" => signed[a].by # ProposedBy[o]
                         /\ applications[o].status # "absent" <=> proposals[o] = "applied"
                         /\ applications[o].by # ProposedBy[o]
    BY DEF ProposalFollowsApproval
  <2>1. PICK a \in Approvals : approvals[a].status # "absent" /\ approvals[a].target = o
    BY <1>2 DEF FollowInv, EveryProposalIsAsked
  <2>2. AskedFor(o) = {a}
    BY <1>2, <2>1 DEF AskedFor, FollowInv, OneApprovalPerProposal
  <2>3. /\ approvals[a].status = "pending" <=> proposals[o] = "proposed"
        /\ approvals[a].status = "rejected" <=> proposals[o] = "rejected"
        /\ applications[o].status # "absent" <=> proposals[o] = "applied"
    BY <1>2, <2>1 DEF FollowInv, OneApprovalPerProposal, VerdictsAgree
  <2>4. approvals[a].by = ProposedBy[o] /\ ProposedBy[o] \in Principals
    BY <1>2, <2>1, OrgChangeAssumption
       DEF OrgChangeAssumption, FollowInv, OneApprovalPerProposal
  <2>5. approvals[a].status = "approved" => signed[a].by # ProposedBy[o]
    BY <1>2, <2>4 DEF LedgerInv, ResolutionSignedByAnother
  <2>6. applications[o].by # ProposedBy[o]
    BY <1>2, <2>4 DEF Typed, ChangeInv
  <2> QED
    BY <2>1, <2>2, <2>3, <2>5, <2>6
<1> QED
  BY <1>1, <1>2, PTL
===============================================================================
