------------------------------- MODULE OrgChange -------------------------------
(***************************************************************************)
(* Organizational changes: org/changes.ts, org/apply.ts and org/control.ts *)
(* over the approval queue.  The queue's targets are the proposals.        *)
(*                                                                         *)
(* The one registered applier, memory_cleanup, turns stale memory entries  *)
(* rejected and back.  A proposal of any other type changes nothing: it is *)
(* acknowledged, and may be withdrawn.                                     *)
(***************************************************************************)
EXTENDS ApprovalService, FiniteSets

CONSTANTS MemoryEntries,    \* the memory entries of the workspace
          ProposedBy,       \* who makes each proposal
          Cleanups,         \* the proposals of the type that has an applier
          Evidenced,        \* the proposals that cite evidence
          EntriesOf,        \* the entries a proposal names
          MaxBlastRadius    \* how many entries one application may touch

ASSUME OrgChangeAssumption ==
    /\ ProposedBy \in [Targets -> Principals]
    /\ Cleanups \subseteq Targets /\ Evidenced \subseteq Targets
    /\ EntriesOf \in [Targets -> SUBSET MemoryEntries]
    /\ MaxBlastRadius \in Nat

VARIABLES
    proposals,      \* status of each proposal
    applications,   \* the application record of each proposal
    entries,        \* status of each memory entry
    applyPaused     \* the operator's kill switch

changeVars == <<proposals, applications, entries, applyPaused>>
orgVars == <<vars, changeVars>>

ProposalStatus == {"absent", "proposed", "approved", "rejected", "applied",
                   "acknowledged", "withdrawn"}
Application == [status : {"absent", "verified", "reverted"}, by : Principals \cup {None}]
NoApplication == [status |-> "absent", by |-> None]

ChangeTypeOK ==
    /\ proposals \in [Targets -> ProposalStatus]
    /\ applications \in [Targets -> Application]
    /\ entries \in [MemoryEntries -> {"candidate", "confirmed", "stale", "rejected"}]
    /\ applyPaused \in BOOLEAN

ChangeInit ==
    /\ proposals = [o \in Targets |-> "absent"]
    /\ applications = [o \in Targets |-> NoApplication]
    /\ entries \in [MemoryEntries -> {"confirmed", "stale"}]
    /\ applyPaused = FALSE

-------------------------------------------------------------------------------
(* Proposals and their approvals.                                          *)

SetProposal(o, status) == proposals' = [proposals EXCEPT ![o] = status]

\* A proposal and its approval are made in one transaction; proposing it again
\* returns both as they are.
ProposeChange(o, a) ==
    /\ proposals[o] = "absent"
    /\ SetProposal(o, "proposed")
    /\ RequestWithoutRun(a, o, ProposedBy[o])
    /\ UNCHANGED <<applications, entries, applyPaused>>

ApproveChange(a, p) ==
    /\ ApproveAndApply(a, p)
    /\ proposals[approvals[a].target] = "proposed"
    /\ SetProposal(approvals[a].target, "approved")
    /\ UNCHANGED <<applications, entries, applyPaused>>

KeepProposal(o) == UNCHANGED proposals
RejectTarget(o) ==
    /\ proposals[o] \in {"proposed", "rejected"}
    /\ SetProposal(o, "rejected")

RejectChange(a, p) ==
    /\ RejectWithoutRun(a, p)
    /\ RejectTarget(approvals[a].target)
    /\ UNCHANGED <<applications, entries, applyPaused>>

-------------------------------------------------------------------------------
(* Application.                                                            *)

\* The guardrails of both routes.
ApplyAllowed(o, p) ==
    /\ proposals[o] = "approved"
    /\ ~applyPaused
    /\ o \in Evidenced
    /\ ProposedBy[o] # p

\* Compare-and-swap of every named entry: one that is not as expected fails the
\* transaction, so no application is partial.
SwapAny(set, from, to) ==
    entries' = [e \in MemoryEntries |-> IF e \in set THEN to ELSE entries[e]]
Swap(set, from, to) ==
    /\ \A e \in set : entries[e] = from
    /\ entries' = [e \in MemoryEntries |-> IF e \in set THEN to ELSE entries[e]]

Apply(o, p) ==
    /\ o \in Cleanups
    /\ ApplyAllowed(o, p)
    /\ Cardinality(EntriesOf[o]) \in 1 .. MaxBlastRadius
    /\ Swap(EntriesOf[o], "stale", "rejected")
    /\ SetProposal(o, "applied")
    /\ applications' = [applications EXCEPT ![o] = [status |-> "verified", by |-> p]]
    /\ UNCHANGED <<vars, applyPaused>>

\* An entry that changed since would refuse the reversal; reverting needs
\* neither another actor nor the kill switch off.
Revert(o, p) ==
    /\ applications[o].status = "verified"
    /\ Swap(EntriesOf[o], "rejected", "stale")
    /\ applications' = [applications EXCEPT ![o].status = "reverted"]
    /\ UNCHANGED <<vars, proposals, applyPaused>>

Acknowledge(o, p) ==
    /\ o \notin Cleanups
    /\ ApplyAllowed(o, p)
    /\ SetProposal(o, "acknowledged")
    /\ UNCHANGED <<vars, applications, entries, applyPaused>>

Withdraw(o) ==
    /\ proposals[o] = "acknowledged"
    /\ SetProposal(o, "withdrawn")
    /\ UNCHANGED <<vars, applications, entries, applyPaused>>

SetPaused(paused) ==
    /\ applyPaused' = paused
    /\ UNCHANGED <<vars, proposals, applications, entries>>

ChangeSteps ==
    \/ \E o \in Targets, a \in Approvals : ProposeChange(o, a)
    \/ \E a \in Approvals, p \in Principals : ApproveChange(a, p) \/ RejectChange(a, p)
    \/ \E o \in Targets, p \in Principals :
           Apply(o, p) \/ Revert(o, p) \/ Acknowledge(o, p)
    \/ \E o \in Targets : Withdraw(o)
    \/ \E paused \in BOOLEAN : SetPaused(paused)

-------------------------------------------------------------------------------
(* What changes guarantee.                                                 *)

Verified == {o \in Targets : applications[o].status = "verified"}

\* Every rejected entry is rejected by exactly one application in force, and all
\* the entries of an application in force are rejected: overlapping proposals
\* and reversals in any order neither share an entry nor leave one behind.
CleanupsAreAccounted ==
    /\ \A e \in MemoryEntries : entries[e] = "rejected" <=> \E o \in Verified : e \in EntriesOf[o]
    /\ \A o, oo \in Verified : o # oo => EntriesOf[o] \cap EntriesOf[oo] = {}

AskedFor(o) == {a \in Approvals : approvals[a].status # "absent" /\ approvals[a].target = o}

\* A proposal has one approval and goes where that went: it is open while the
\* approval is pending, rejected with it, and whatever it became afterwards it was
\* approved by somebody other than its proposer and applied by somebody else again.
ProposalFollowsApproval ==
    \A o \in Targets : proposals[o] # "absent" => \E a \in Approvals :
        /\ AskedFor(o) = {a}
        /\ approvals[a].status = "pending" <=> proposals[o] = "proposed"
        /\ approvals[a].status = "rejected" <=> proposals[o] = "rejected"
        /\ approvals[a].status = "approved" => signed[a].by # ProposedBy[o]
        /\ applications[o].status # "absent" <=> proposals[o] = "applied"
        /\ applications[o].by # ProposedBy[o]
===============================================================================
