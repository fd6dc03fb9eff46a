---------------------------- MODULE ApprovalService ----------------------------
(***************************************************************************)
(* The human approval queue: governance/approvals.ts over the run store.   *)
(*                                                                         *)
(* Every action is one committed transaction.  API servers and command     *)
(* lines share the database, so the interleaving of actions is the         *)
(* interleaving of their transactions; the services that drive a run       *)
(* (the spine, the work service) appear as StartRun and DriveRun, which    *)
(* may come at any time and from a caller whose view of the run is stale.  *)
(***************************************************************************)
EXTENDS RunStore, Naturals

VARIABLES
    signed,       \* the decision-signature row of each approval
    applied,      \* how often a target was applied by apply_without_run
    checkpoint    \* the latest checkpoint of each run

vars == <<runs, locks, approvals, signed, applied, checkpoint>>

Unsigned == [verdict |-> "none", by |-> None]
NoCheckpoint == [node |-> None, ptr |-> None]

SignedTypeOK ==
    signed \in [Approvals -> [verdict : {"none", "approved", "rejected"},
                              by : Principals \cup {None}]]
AppliedTypeOK == applied \in [Targets -> Nat]
CheckpointTypeOK == checkpoint \in [Runs -> [node : Nodes, ptr : Approvals \cup {None}]]

\* Every row, lock, signature, counter and checkpoint has its type.
TypeOK == StoreTypeOK /\ SignedTypeOK /\ AppliedTypeOK /\ CheckpointTypeOK

Init ==
    /\ StoreInit
    /\ signed = [a \in Approvals |-> Unsigned]
    /\ applied = [t \in Targets |-> 0]
    /\ checkpoint = [r \in Runs |-> NoCheckpoint]

-------------------------------------------------------------------------------
(* The services that own a run.                                            *)

StartRun(r) ==
    /\ CreateRun(r, "queued")
    /\ UNCHANGED <<approvals, signed, applied, checkpoint>>

\* The spine and the work service move a run with setStatus and keep no pointer;
\* the spine's step also checkpoints.
DriveRun(r, status, node) ==
    /\ runs[r].status # "absent"
    /\ SetRunStatus(approvals, r, status, node, None)
    /\ \/ UNCHANGED checkpoint
       \/ checkpoint' = [checkpoint EXCEPT ![r] = [node |-> node, ptr |-> None]]
    /\ UNCHANGED <<approvals, signed, applied>>

-------------------------------------------------------------------------------
(* Requests.                                                               *)

\* An approval of the same target that is still pending, or was approved.
LiveFor(t) == {a \in Approvals : /\ approvals[a].target = t
                                 /\ approvals[a].status \in {"pending", "approved"}}

\* A request by an id already used, or for a target that has a live approval,
\* returns the stored approval or throws: it never adds a row.
RequestById(a, t) == approvals[a].status = "absent"
NewRequest(a, t) == approvals[a].status = "absent" /\ LiveFor(t) = {}

Checkpoint(r, node, ptr) ==
    checkpoint' = [checkpoint EXCEPT ![r] = [node |-> node, ptr |-> ptr]]

\* A step of the spine that finds its run suspended by somebody else writes its
\* node and its checkpoint, and leaves the run suspended on the same approval.
RecordWhileSuspended(r, node) ==
    /\ runs[r].status = "suspended_approval"
    /\ SetRunStatus(approvals, r, "suspended_approval", node, runs[r].ptr)
    /\ Checkpoint(r, node, runs[r].ptr)
    /\ UNCHANGED <<approvals, signed, applied>>

\* resume_run: the request suspends its running run.
RequestForRun(a, r, t, q, onReject) ==
    /\ NewRequest(a, t)
    /\ runs[r].status = "running"
    /\ approvals' = [approvals EXCEPT ![a] =
           [status |-> "pending", run |-> r, by |-> q, target |-> t,
            onReject |-> onReject]]
    /\ SetRunStatus(approvals', r, "suspended_approval", "approval_requested", a)
    /\ Checkpoint(r, "approval_requested", a)
    /\ UNCHANGED <<signed, applied>>

\* apply_without_run: an approval of something outside any run.
RequestWithoutRun(a, t, q) ==
    /\ NewRequest(a, t)
    /\ approvals' = [approvals EXCEPT ![a] =
           [status |-> "pending", run |-> None, by |-> q, target |-> t,
            onReject |-> "no_op"]]
    /\ UNCHANGED <<runs, locks, signed, applied, checkpoint>>

-------------------------------------------------------------------------------
(* Resolutions.                                                            *)

\* Separation of duties over stable principal ids, in both directions.
AnyoneResolves(a, p) == TRUE
NotSelfResolution(a, p) == approvals[a].by # p

SignWithoutVerdict(a, verdict, p) ==
    signed' = [signed EXCEPT ![a] = [verdict |-> p, by |-> p]]
Sign(a, verdict, p) ==
    signed' = [signed EXCEPT ![a] = [verdict |-> verdict, by |-> p]]

\* An approval resumes its run; a run that failed meanwhile stays as it is.
ResumeNothing(r) == UNCHANGED <<runs, locks, checkpoint>>
ResumeIfSuspended(r) ==
    \/ /\ runs[r].status = "suspended_approval"
       /\ SetRunStatus(approvals', r, "running", "approval_resolved", None)
       /\ Checkpoint(r, "approval_resolved", None)
    \/ /\ runs[r].status # "suspended_approval"
       /\ UNCHANGED <<runs, locks, checkpoint>>

ApproveForRun(a, p) ==
    LET r == approvals[a].run IN
    /\ NotSelfResolution(a, p)
    /\ ResolveApproval(a, "approved")
    /\ r # None
    /\ Sign(a, "approved", p)
    /\ ResumeIfSuspended(r)
    /\ UNCHANGED applied

\* The handler applies the target inside the approving transaction; a handler
\* that throws takes the approval down with it.
ApproveAndApply(a, p) ==
    /\ NotSelfResolution(a, p)
    /\ ResolveApproval(a, "approved")
    /\ approvals[a].run = None
    /\ Sign(a, "approved", p)
    /\ applied' = [applied EXCEPT ![approvals[a].target] = @ + 1]
    /\ UNCHANGED <<runs, locks, checkpoint>>

RejectForRun(a, p) ==
    LET r == approvals[a].run IN
    /\ NotSelfResolution(a, p)
    /\ ResolveApproval(a, "rejected")
    /\ r # None
    /\ Sign(a, "rejected", p)
    /\ \/ /\ approvals[a].onReject = "fail_run"
          /\ SetRunStatus(approvals', r, "failed", "approval_rejected", None)
          /\ Checkpoint(r, "approval_rejected", None)
       \/ /\ approvals[a].onReject = "skip_action"
          /\ SetRunStatus(approvals', r, "running", "approval_skipped", None)
          /\ Checkpoint(r, "approval_skipped", None)
    /\ UNCHANGED applied

RejectWithoutRun(a, p) ==
    /\ NotSelfResolution(a, p)
    /\ ResolveApproval(a, "rejected")
    /\ approvals[a].run = None
    /\ Sign(a, "rejected", p)
    /\ UNCHANGED <<runs, locks, applied, checkpoint>>

-------------------------------------------------------------------------------

RequestSteps ==
    \E a \in Approvals, t \in Targets, q \in Principals :
        \/ RequestWithoutRun(a, t, q)
        \/ \E r \in Runs, onReject \in {"fail_run", "skip_action"} :
               RequestForRun(a, r, t, q, onReject)

ResolutionSteps ==
    \E a \in Approvals, p \in Principals :
        \/ ApproveForRun(a, p)
        \/ ApproveAndApply(a, p)
        \/ RejectForRun(a, p)
        \/ RejectWithoutRun(a, p)

DriveSteps ==
    \E r \in Runs :
        \/ StartRun(r)
        \/ DriveRun(r, "running", "run_started")
        \/ RecordWhileSuspended(r, "run_started")
        \/ \E status \in Terminal : DriveRun(r, status, "run_ended")

Next == RequestSteps \/ ResolutionSteps \/ DriveSteps

Spec == Init /\ [][Next]_vars

\* What the queue leaves to the service that owns a run: whatever setStatus lets pass,
\* and any checkpoint, while the approvals stay the queue's alone.
OwnerStep(r) ==
    LET row == runs'[r]
        latest == checkpoint'[r] IN
    /\ row \in RunRow /\ latest \in [node : Nodes, ptr : Approvals \cup {None}]
    /\ UNCHANGED <<runs, locks>> \/ SetRunStatus(approvals, r, row.status, row.node, row.ptr)
    /\ Checkpoint(r, latest.node, latest.ptr)
    /\ UNCHANGED <<approvals, signed, applied>>

\* The queue, whichever services drive the runs: what a component that owns a run, or
\* asks for approvals, implements if it moves runs by setStatus and checkpoints alone and
\* leaves the approvals to the queue's own transactions (approvals.ts, runs.ts).
ServedNext == Next \/ \E r \in Runs : OwnerStep(r)
ServedQueue == Init /\ [][ServedNext]_vars

-------------------------------------------------------------------------------
(* What the queue guarantees.                                              *)

Active(r) == runs[r].status \in RunStatus \ Terminal

\* The workspace lock is held by a run exactly while that run is not terminal,
\* so a workspace never has two active runs and never keeps a lock nobody will
\* release (runs.ts: create, setStatus and refreshActiveRunLock).
OneActiveRunPerWorkspace ==
    \A r \in Runs : Active(r) <=> locks[WorkspaceOf[r]] = r

\* A run waits only for a decision that can still be made: while it is
\* suspended, the approval it points at is its own and pending
\* (approvals.ts resolves the row and moves the run in one transaction).
SuspendedOnPendingApproval ==
    \A r \in Runs : runs[r].status = "suspended_approval" =>
        /\ runs[r].ptr \in Approvals
        /\ approvals[runs[r].ptr].status = "pending"
        /\ approvals[runs[r].ptr].run = r

\* A pending approval of a run holds that very run, unless the run failed
\* meanwhile: no run goes on, or completes, past a question it asked.
PendingApprovalHoldsRun ==
    \A a \in Approvals :
        (approvals[a].status = "pending" /\ approvals[a].run # None) =>
            \/ /\ runs[approvals[a].run].status = "suspended_approval"
               /\ runs[approvals[a].run].ptr = a
            \/ runs[approvals[a].run].status = "failed"

\* A resolved approval carries exactly the verdict somebody other than its
\* requester signed, and an open one carries no signature.
ResolutionSignedByAnother ==
    \A a \in Approvals :
        IF approvals[a].status \in {"approved", "rejected"}
        THEN /\ signed[a].verdict = approvals[a].status
             /\ signed[a].by \in Principals \ {approvals[a].by}
        ELSE signed[a] = Unsigned

\* One target never has two live approvals, whatever ids its requests carry.
OneLiveApprovalPerTarget ==
    \A a, b \in Approvals :
        /\ approvals[a].target # None
        /\ approvals[a].target = approvals[b].target
        /\ {approvals[a].status, approvals[b].status} \subseteq {"pending", "approved"}
        => a = b

\* A target approved outside a run is applied at most once, and only under an
\* approved approval, through any sequence of rejections and fresh requests.
AppliedOnceUnderApproval ==
    \A t \in Targets :
        /\ applied[t] <= 1
        /\ applied[t] = 1 => \E a \in Approvals : /\ approvals[a].target = t
                                                   /\ approvals[a].status = "approved"
                                                   /\ approvals[a].run = None

\* Three tables agree that separate statements of a transaction update: no workspace has
\* two active runs or keeps a lock nobody will release, a run never waits for a question
\* that is settled or another run's, and none passes a question it asked.
RunsMatchApprovals ==
    /\ OneActiveRunPerWorkspace
    /\ SuspendedOnPendingApproval
    /\ PendingApprovalHoldsRun

\* What was applied was approved, once, by somebody other than its requester, through any
\* sequence of rejections, replays and fresh requests for the same target.
ApprovalsMatchTargets ==
    /\ ResolutionSignedByAnother
    /\ OneLiveApprovalPerTarget
    /\ AppliedOnceUnderApproval

\* A suspended run leaves suspension for running only in the step that resolves
\* the approval it waits on; a stale caller cannot set it running.
ResumesOnlyOnItsVerdict ==
    [][\A r \in Runs :
          (runs[r].status = "suspended_approval" /\ runs'[r].status = "running") =>
              /\ approvals[runs[r].ptr].status = "pending"
              /\ \/ approvals'[runs[r].ptr].status = "approved"
                 \/ /\ approvals'[runs[r].ptr].status = "rejected"
                    /\ approvals[runs[r].ptr].onReject = "skip_action"]_vars

\* What was decided stays decided: a resolved approval, its signature and a
\* terminal run never change again.
DecisionsAreFinal ==
    [][/\ \A a \in Approvals : approvals[a].status \in {"approved", "rejected"} =>
              approvals'[a] = approvals[a] /\ signed'[a] = signed[a]
       /\ \A r \in Runs : runs[r].status \in Terminal => runs'[r] = runs[r]]_vars

\* Every decision binds: nothing stands in for the verdict a run waits on, whatever view a
\* service resumes it from, and nothing undoes a verdict once it is given (runs.ts:
\* resolveApproval, setStatus).
DecisionsBind == ResumesOnlyOnItsVerdict /\ DecisionsAreFinal
===============================================================================
