------------------------- MODULE ApprovalServiceProofs -------------------------
(***************************************************************************)
(* What holds of the approval queue for every set of runs, workspaces,     *)
(* approvals, principals and targets.                                      *)
(*                                                                         *)
(* Two inductive invariants carry the safety of the queue.  QueueInv ties  *)
(* the runs to the approvals they wait for: none of its three conjuncts is *)
(* inductive alone, because a resolution moves the run its approval names  *)
(* and only the pointer invariant says that this is the run that waits.    *)
(* LedgerInv is about the approvals among themselves: an application is    *)
(* unique because live approvals of a target are.                          *)
(***************************************************************************)
EXTENDS ApprovalService, TLAPS

-------------------------------------------------------------------------------
(* Types.                                                                  *)

\* The run and the target a stored approval names, if any (approvals.ts: request).
LEMMA RowOK == ASSUME StoreTypeOK, NEW a \in Approvals
               PROVE /\ approvals[a].run \in Runs \cup {None}
                     /\ approvals[a].target \in Targets \cup {None}
  BY DEF StoreTypeOK, ApprovalRow

\* Resolving an approval leaves a table of approval rows (persistence/approvals.ts:
\* resolve).
LEMMA ResolvedOK ==
  ASSUME StoreTypeOK, NEW a \in Approvals, NEW v \in {"approved", "rejected"},
         ResolveApproval(a, v)
  PROVE  approvals' \in [Approvals -> ApprovalRow]
<1>1. [approvals[a] EXCEPT !.status = v] \in ApprovalRow
  BY  DEF ApprovalRow, StoreTypeOK
<1> QED BY <1>1 DEF ResolveApproval, StoreTypeOK

\* Recording a decision signature leaves a table of signatures (approvals.ts:
\* approve, reject).
LEMMA SignOK ==
  ASSUME SignedTypeOK, NEW a \in Approvals, NEW p \in Principals,
         NEW v \in {"approved", "rejected"}, Sign(a, v, p)
  PROVE  SignedTypeOK'
  BY DEF SignedTypeOK, Sign

\* Saving a checkpoint leaves a table of checkpoints (approvals.ts:
\* traceAndCheckpoint).
LEMMA CheckpointKept ==
  ASSUME CheckpointTypeOK, NEW r \in Runs, NEW node \in Nodes, NEW ptr \in Approvals \cup {None},
         Checkpoint(r, node, ptr)
  PROVE  CheckpointTypeOK'
  BY DEF CheckpointTypeOK, Checkpoint

\* setStatus leaves run rows and locks of their types, whichever approval table its
\* guards read (runs.ts: setStatus).
LEMMA RunMoveOK ==
  ASSUME StoreTypeOK, NEW r \in Runs, NEW status \in RunStatus, NEW node \in Nodes,
         NEW ptr \in Approvals \cup {None},
         \/ SetRunStatus(approvals, r, status, node, ptr)
         \/ SetRunStatus(approvals', r, status, node, ptr)
  PROVE  runs' \in [Runs -> RunRow] /\ locks' \in [Workspaces -> Runs \cup {None}]
<1>1. runs' \in [Runs -> RunRow]
  BY DEF StoreTypeOK, SetRunStatus, RunRow
<1>2. locks' \in [Workspaces -> Runs \cup {None}]
  BY RunStoreAssumption DEF StoreTypeOK, SetRunStatus, LockAfter
<1> QED BY <1>1, <1>2

\* The empty database is well typed.
LEMMA InitTypeOK == Init => TypeOK
  BY DEF Init, TypeOK, StoreInit, StoreTypeOK, AbsentRun, AbsentApproval, RunRow,
         ApprovalRow, Unsigned, NoCheckpoint, Nodes, SignedTypeOK, AppliedTypeOK, CheckpointTypeOK
\* Every transaction of the queue keeps the tables well typed.
LEMMA TypePreserved == TypeOK /\ [Next]_vars => TypeOK'
<1> SUFFICES ASSUME StoreTypeOK, SignedTypeOK, AppliedTypeOK, CheckpointTypeOK,
                    [Next]_vars
             PROVE  TypeOK'
  BY DEF TypeOK
<1> USE DEF TypeOK
<1>nodes. {"run_started", "approval_requested", "approval_resolved",
           "approval_rejected", "approval_skipped", "run_ended"} \subseteq Nodes
  BY DEF Nodes
<1>statuses. {"queued", "running", "suspended_approval", "completed", "failed"} = RunStatus
  BY DEF RunStatus, Terminal
<1>1. ASSUME NEW a \in Approvals, NEW t \in Targets, NEW q \in Principals,
             RequestWithoutRun(a, t, q)
      PROVE  TypeOK'
  BY <1>1 DEF RequestWithoutRun, ApprovalRow, StoreTypeOK, SignedTypeOK, CheckpointTypeOK, AppliedTypeOK
<1>2. ASSUME NEW a \in Approvals, NEW t \in Targets, NEW q \in Principals,
             NEW r \in Runs, NEW onReject \in {"fail_run", "skip_action"},
             RequestForRun(a, r, t, q, onReject)
      PROVE  TypeOK'
  <2>1. approvals' \in [Approvals -> ApprovalRow]
    BY <1>2 DEF RequestForRun, StoreTypeOK, ApprovalRow
  <2>2. runs' \in [Runs -> RunRow] /\ locks' \in [Workspaces -> Runs \cup {None}]
    BY <1>2, <1>nodes, <1>statuses, RunMoveOK DEF RequestForRun
  <2>3. CheckpointTypeOK'
    BY <1>2, <1>nodes, CheckpointKept DEF RequestForRun
  <2> QED
    BY <1>2, <2>1, <2>2, <2>3 DEF RequestForRun, StoreTypeOK, SignedTypeOK, AppliedTypeOK
<1>3. ASSUME NEW a \in Approvals, NEW p \in Principals, ApproveForRun(a, p)
      PROVE  TypeOK'
  <2>1. approvals[a].run \in Runs
    BY <1>3, RowOK DEF ApproveForRun
  <2>2. approvals' \in [Approvals -> ApprovalRow]
    BY <1>3, ResolvedOK DEF ApproveForRun
  <2>3. /\ runs' \in [Runs -> RunRow] /\ locks' \in [Workspaces -> Runs \cup {None}]
        /\ CheckpointTypeOK'
    <3>1. CASE runs[approvals[a].run].status = "suspended_approval"
      BY <1>3, <2>1, <3>1, <1>nodes, <1>statuses, RunMoveOK, CheckpointKept
         DEF ApproveForRun, ResumeIfSuspended
    <3>2. CASE runs[approvals[a].run].status # "suspended_approval"
      BY <1>3, <3>2 DEF ApproveForRun, ResumeIfSuspended, StoreTypeOK, CheckpointTypeOK
    <3> QED
      BY <3>1, <3>2
  <2>4. SignedTypeOK'
    BY <1>3, SignOK DEF ApproveForRun
  <2> QED
    BY <1>3, <2>2, <2>3, <2>4 DEF ApproveForRun, StoreTypeOK, AppliedTypeOK
<1>4. ASSUME NEW a \in Approvals, NEW p \in Principals, ApproveAndApply(a, p)
      PROVE  TypeOK'
  <2>1. approvals' \in [Approvals -> ApprovalRow] /\ SignedTypeOK'
    BY <1>4, ResolvedOK, SignOK DEF ApproveAndApply
  <2>2. AppliedTypeOK'
    <3>1. applied' = [applied EXCEPT ![approvals[a].target] = @ + 1]
      BY <1>4 DEF ApproveAndApply
    <3>2. CASE approvals[a].target \in Targets
      BY <3>1, <3>2 DEF AppliedTypeOK
    <3>3. CASE approvals[a].target \notin Targets
      BY <3>1, <3>3 DEF AppliedTypeOK
    <3> QED
      BY <3>2, <3>3
  <2> QED
    BY <1>4, <2>1, <2>2 DEF ApproveAndApply, StoreTypeOK, CheckpointTypeOK, AppliedTypeOK
<1>5. ASSUME NEW a \in Approvals, NEW p \in Principals, RejectForRun(a, p)
      PROVE  TypeOK'
  <2>1. approvals[a].run \in Runs
    BY <1>5, RowOK DEF RejectForRun
  <2>2. approvals' \in [Approvals -> ApprovalRow] /\ SignedTypeOK'
    BY <1>5, ResolvedOK, SignOK DEF RejectForRun
  <2>3. /\ runs' \in [Runs -> RunRow] /\ locks' \in [Workspaces -> Runs \cup {None}]
        /\ CheckpointTypeOK'
    BY <1>5, <2>1, <1>nodes, <1>statuses, RunMoveOK, CheckpointKept DEF RejectForRun
  <2> QED
    BY <1>5, <2>2, <2>3 DEF RejectForRun, StoreTypeOK, AppliedTypeOK
<1>6. ASSUME NEW a \in Approvals, NEW p \in Principals, RejectWithoutRun(a, p)
      PROVE  TypeOK'
  <2>1. approvals' \in [Approvals -> ApprovalRow] /\ SignedTypeOK'
    BY <1>6, ResolvedOK, SignOK DEF RejectWithoutRun
  <2> QED
    BY <1>6, <2>1 DEF RejectWithoutRun, StoreTypeOK, CheckpointTypeOK, AppliedTypeOK
<1>7. ASSUME NEW r \in Runs, StartRun(r)
      PROVE  TypeOK'
  <2>1. runs' \in [Runs -> RunRow]
    BY <1>7 DEF StartRun, CreateRun, StoreTypeOK, RunRow, Nodes, RunStatus
  <2>2. locks' \in [Workspaces -> Runs \cup {None}]
    BY <1>7, RunStoreAssumption DEF StartRun, CreateRun, StoreTypeOK
  <2> QED
    BY <1>7, <2>1, <2>2 DEF StartRun, StoreTypeOK, SignedTypeOK, CheckpointTypeOK, AppliedTypeOK
<1>8. ASSUME NEW r \in Runs, NEW status \in RunStatus, NEW node \in Nodes,
             DriveRun(r, status, node)
      PROVE  TypeOK'
  <2>1. runs' \in [Runs -> RunRow] /\ locks' \in [Workspaces -> Runs \cup {None}]
    BY <1>8, RunMoveOK DEF DriveRun
  <2>2. CheckpointTypeOK'
    BY <1>8 DEF DriveRun, CheckpointTypeOK
  <2> QED
    BY <1>8, <2>1, <2>2 DEF DriveRun, StoreTypeOK, SignedTypeOK, AppliedTypeOK
<1>9. CASE UNCHANGED vars
  BY <1>9 DEF vars, StoreTypeOK, SignedTypeOK, CheckpointTypeOK, AppliedTypeOK
<1>10. ASSUME NEW r \in Runs, RecordWhileSuspended(r, "run_started")
       PROVE  TypeOK'
  <2>1. runs[r].ptr \in Approvals \cup {None}
    BY DEF StoreTypeOK, RunRow
  <2>2. runs' \in [Runs -> RunRow] /\ locks' \in [Workspaces -> Runs \cup {None}]
    BY <1>10, <1>nodes, <1>statuses, <2>1, RunMoveOK DEF RecordWhileSuspended
  <2>3. CheckpointTypeOK'
    BY <1>10, <1>nodes, <2>1, CheckpointKept DEF RecordWhileSuspended
  <2> QED
    BY <1>10, <2>2, <2>3 DEF RecordWhileSuspended, StoreTypeOK, SignedTypeOK, AppliedTypeOK
<1> QED
  <2>1. ASSUME NEW r \in Runs, DriveRun(r, "running", "run_started")
        PROVE  TypeOK'
    BY <2>1, <1>8, <1>nodes, <1>statuses
  <2>2. ASSUME NEW r \in Runs, NEW status \in Terminal, DriveRun(r, status, "run_ended")
        PROVE  TypeOK'
    BY <2>2, <1>8, <1>nodes DEF RunStatus
  <2> QED
    BY <1>1, <1>2, <1>3, <1>4, <1>5, <1>6, <1>7, <1>9, <1>10, <2>1, <2>2
       DEF Next, RequestSteps, ResolutionSteps, DriveSteps

\* Statuses, pointers, locks, signatures, application counts and checkpoints keep
\* their types in every reachable state of the queue.
THEOREM TypeCorrect == Spec => []TypeOK
<1> QED
  BY InitTypeOK, TypePreserved, PTL DEF Spec

-------------------------------------------------------------------------------
(* Runs and the approvals they wait for.                                   *)

QueueInv == /\ TypeOK
            /\ OneActiveRunPerWorkspace
            /\ SuspendedOnPendingApproval
            /\ PendingApprovalHoldsRun

\* setStatus keeps lock and status together: whatever status it gives a run, the
\* workspace is held by its one active run (runs.ts: refreshActiveRunLock).
LEMMA LockFollowsStatus ==
  ASSUME TypeOK, OneActiveRunPerWorkspace,
         NEW r \in Runs, NEW status \in RunStatus, NEW node, NEW ptr,
         \/ SetRunStatus(approvals, r, status, node, ptr)
         \/ SetRunStatus(approvals', r, status, node, ptr)
  PROVE  OneActiveRunPerWorkspace'
<1>1. CASE UNCHANGED <<runs, locks>>
  BY <1>1 DEF OneActiveRunPerWorkspace, Active
<1>2. CASE /\ runs[r].status \in RunStatus \ Terminal
           /\ runs' = [runs EXCEPT ![r] = [status |-> status, node |-> node, ptr |-> ptr]]
           /\ locks' = [locks EXCEPT ![WorkspaceOf[r]] = LockAfter(r, status)]
  <2>1. locks[WorkspaceOf[r]] = r
    BY <1>2 DEF OneActiveRunPerWorkspace, Active
  <2>2. \A s \in Runs \ {r} : WorkspaceOf[s] = WorkspaceOf[r] => ~ Active(s)
    BY <2>1 DEF OneActiveRunPerWorkspace
  <2>3. ASSUME NEW s \in Runs, s # r
        PROVE  Active(s)' <=> locks'[WorkspaceOf[s]] = s
    <3>1. Active(s)' <=> Active(s)
      BY <1>2, <2>3 DEF TypeOK, StoreTypeOK, Active
    <3>2. CASE WorkspaceOf[s] = WorkspaceOf[r]
      BY <1>2, <2>1, <2>2, <2>3, <3>1, <3>2, RunStoreAssumption
         DEF TypeOK, StoreTypeOK, LockAfter
    <3>3. CASE WorkspaceOf[s] # WorkspaceOf[r]
      BY <1>2, <3>1, <3>3, RunStoreAssumption
         DEF TypeOK, StoreTypeOK, OneActiveRunPerWorkspace
    <3> QED
      BY <3>2, <3>3
  <2>4. Active(r)' <=> locks'[WorkspaceOf[r]] = r
    <3>1. Active(r)' <=> status \notin Terminal
      BY <1>2 DEF TypeOK, StoreTypeOK, Active
    <3>2. locks'[WorkspaceOf[r]] = LockAfter(r, status)
      BY <1>2, RunStoreAssumption DEF TypeOK, StoreTypeOK
    <3> QED
      BY <2>1, <3>1, <3>2, RunStoreAssumption DEF LockAfter
  <2> QED
    BY <2>3, <2>4 DEF OneActiveRunPerWorkspace, Active
<1> QED
  BY <1>1, <1>2 DEF SetRunStatus, MaySetStatus

\* setStatus moves its own run only, to exactly the status and pointer asked for,
\* and a terminal run nowhere (runs.ts: setStatus).
LEMMA RunMoved ==
  ASSUME TypeOK, NEW r \in Runs, NEW status, NEW node, NEW ptr,
         \/ SetRunStatus(approvals, r, status, node, ptr)
         \/ SetRunStatus(approvals', r, status, node, ptr)
  PROVE  /\ \A s \in Runs \ {r} : runs'[s] = runs[s]
         /\ runs'[r].status = status /\ runs'[r].ptr = ptr
         /\ runs[r].status \in Terminal => status = runs[r].status
  BY DEF TypeOK, StoreTypeOK, SetRunStatus, TerminalReplay, MaySetStatus

\* Resolving moves one pending approval to the verdict and keeps all it names
\* (persistence/approvals.ts: resolve).
LEMMA ResolvedRow ==
  ASSUME TypeOK, NEW a \in Approvals, NEW v \in {"approved", "rejected"},
         ResolveApproval(a, v)
  PROVE  /\ \A b \in Approvals \ {a} : approvals'[b] = approvals[b]
         /\ approvals[a].status = "pending"
         /\ approvals'[a] = [approvals[a] EXCEPT !.status = v]
         /\ approvals'[a].status = v /\ approvals'[a].run = approvals[a].run
  BY DEF TypeOK, StoreTypeOK, ApprovalRow, ResolveApproval

\* A resolution that takes its run out of suspension, and does not revive a failed
\* one, leaves no run waiting for a decided approval and no pending approval without
\* its run (approvals.ts: approve, reject).
LEMMA ResolutionKeepsPointers ==
  ASSUME QueueInv, NEW a \in Approvals, NEW v \in {"approved", "rejected"},
         ResolveApproval(a, v), approvals[a].run \in Runs,
         \A s \in Runs \ {approvals[a].run} : runs'[s] = runs[s],
         runs'[approvals[a].run].status # "suspended_approval",
         runs[approvals[a].run].status = "failed" => runs'[approvals[a].run].status = "failed"
  PROVE  SuspendedOnPendingApproval' /\ PendingApprovalHoldsRun'
<1> DEFINE r == approvals[a].run
<1>a. /\ \A b \in Approvals \ {a} : approvals'[b] = approvals[b]
      /\ approvals[a].status = "pending" /\ approvals'[a].status = v
  BY ResolvedRow DEF QueueInv
<1>b. \/ runs[r].status = "suspended_approval" /\ runs[r].ptr = a
      \/ runs[r].status = "failed"
  BY <1>a, RunStoreAssumption DEF QueueInv, PendingApprovalHoldsRun
<1>1. ASSUME NEW s \in Runs, runs'[s].status = "suspended_approval"
      PROVE  /\ runs'[s].ptr \in Approvals
             /\ approvals'[runs'[s].ptr].status = "pending"
             /\ approvals'[runs'[s].ptr].run = s
  <2>1. s # r /\ runs'[s] = runs[s]
    BY <1>1
  <2>2. /\ runs[s].ptr \in Approvals
        /\ approvals[runs[s].ptr].status = "pending"
        /\ approvals[runs[s].ptr].run = s
    BY <1>1, <2>1 DEF QueueInv, SuspendedOnPendingApproval
  <2>3. runs[s].ptr # a
    BY <2>1, <2>2
  <2> QED
    BY <2>1, <2>2, <2>3, <1>a
<1>2. ASSUME NEW b \in Approvals, approvals'[b].status = "pending", approvals'[b].run # None
      PROVE  \/ /\ runs'[approvals'[b].run].status = "suspended_approval"
                /\ runs'[approvals'[b].run].ptr = b
             \/ runs'[approvals'[b].run].status = "failed"
  <2>1. b # a /\ approvals'[b] = approvals[b]
    BY <1>2, <1>a
  <2>2. \/ /\ runs[approvals[b].run].status = "suspended_approval"
           /\ runs[approvals[b].run].ptr = b
        \/ runs[approvals[b].run].status = "failed"
    BY <1>2, <2>1 DEF QueueInv, PendingApprovalHoldsRun
  <2>3. approvals[b].run \in Runs
    BY <1>2, <2>1, RowOK DEF QueueInv, TypeOK
  <2>4. CASE approvals[b].run = r
    BY <1>b, <2>1, <2>2, <2>4
  <2>5. CASE approvals[b].run # r
    BY <2>1, <2>2, <2>3, <2>5
  <2> QED
    BY <2>4, <2>5
<1> QED
  BY <1>1, <1>2 DEF SuspendedOnPendingApproval, PendingApprovalHoldsRun

\* Of a suspended run a service can only make a failed one: its approval is still
\* pending, so validateApprovedResume refuses to resume it (runs.ts:289).
LEMMA SuspendedNotDriven ==
  ASSUME QueueInv, NEW r \in Runs, NEW status \in {"running", "completed", "failed"},
         NEW node, runs[r].status = "suspended_approval",
         SetRunStatus(approvals, r, status, node, None)
  PROVE  status = "failed"
<1> SUFFICES ASSUME status # "failed" PROVE FALSE
  OBVIOUS
<1>1. approvals[runs[r].ptr].status = "pending"
  BY DEF QueueInv, SuspendedOnPendingApproval
<1>2. MaySetStatus(approvals, r, status, None)
  BY DEF SetRunStatus, TerminalReplay, Terminal
<1>3. status = "running"
  BY <1>2 DEF MaySetStatus, AllowedTransitions
<1>4. ApprovedResume(approvals, r)
  BY <1>2, <1>3 DEF MaySetStatus
<1> QED
  BY <1>1, <1>4 DEF ApprovedResume

\* The empty database.
LEMMA QueueInvInit == Init => QueueInv
<1> SUFFICES ASSUME Init PROVE QueueInv
  OBVIOUS
<1>1. TypeOK
  BY InitTypeOK
<1>2. \A r \in Runs : runs[r].status = "absent" /\ locks[WorkspaceOf[r]] = None
  BY RunStoreAssumption DEF Init, StoreInit, AbsentRun
<1>3. \A a \in Approvals : approvals[a].status = "absent"
  BY DEF Init, StoreInit, AbsentApproval
<1> QED
  BY <1>1, <1>2, <1>3, RunStoreAssumption
     DEF QueueInv, OneActiveRunPerWorkspace, Active, RunStatus, Terminal,
         SuspendedOnPendingApproval, PendingApprovalHoldsRun

\* Every transaction of the queue keeps the runs and the approvals together.
LEMMA QueueInvKept == QueueInv /\ [Next]_vars => QueueInv'
<1> SUFFICES ASSUME QueueInv, [Next]_vars PROVE QueueInv'
  OBVIOUS
<1>0. TypeOK /\ TypeOK'
  BY TypePreserved DEF QueueInv
<1>1. ASSUME NEW a \in Approvals, NEW t \in Targets, NEW q \in Principals,
             RequestWithoutRun(a, t, q)
      PROVE  QueueInv'
  <2>1. /\ UNCHANGED <<runs, locks>>
        /\ approvals[a].status = "absent"
        /\ \A b \in Approvals \ {a} : approvals'[b] = approvals[b]
        /\ approvals'[a].run = None
    BY <1>0, <1>1 DEF RequestWithoutRun, NewRequest, TypeOK, StoreTypeOK
  <2>2. OneActiveRunPerWorkspace'
    BY <2>1 DEF QueueInv, OneActiveRunPerWorkspace, Active
  <2>3. SuspendedOnPendingApproval'
    BY <2>1 DEF QueueInv, SuspendedOnPendingApproval
  <2>4. PendingApprovalHoldsRun'
    BY <2>1 DEF QueueInv, PendingApprovalHoldsRun
  <2> QED
    BY <1>0, <2>2, <2>3, <2>4 DEF QueueInv
<1>2. ASSUME NEW a \in Approvals, NEW t \in Targets, NEW q \in Principals,
             NEW r \in Runs, NEW onReject \in {"fail_run", "skip_action"},
             RequestForRun(a, r, t, q, onReject)
      PROVE  QueueInv'
  <2>1. /\ approvals[a].status = "absent"
        /\ \A b \in Approvals \ {a} : approvals'[b] = approvals[b]
        /\ approvals'[a].run = r /\ approvals'[a].status = "pending"
        /\ runs[r].status = "running"
    BY <1>0, <1>2 DEF RequestForRun, NewRequest, TypeOK, StoreTypeOK
  <2>2. /\ \A s \in Runs \ {r} : runs'[s] = runs[s]
        /\ runs'[r].status = "suspended_approval" /\ runs'[r].ptr = a
    BY <1>0, <1>2, RunMoved DEF RequestForRun
  <2>3. OneActiveRunPerWorkspace'
    BY <1>0, <1>2, LockFollowsStatus DEF QueueInv, RequestForRun, RunStatus
  <2>4. SuspendedOnPendingApproval'
    BY <2>1, <2>2 DEF QueueInv, SuspendedOnPendingApproval
  <2>5. PendingApprovalHoldsRun'
    BY <1>0, <2>1, <2>2, RowOK DEF QueueInv, PendingApprovalHoldsRun, TypeOK
  <2> QED
    BY <1>0, <2>3, <2>4, <2>5 DEF QueueInv
<1>3. ASSUME NEW a \in Approvals, NEW p \in Principals, ApproveForRun(a, p)
      PROVE  QueueInv'
  <2> DEFINE r == approvals[a].run
  <2>1. r \in Runs /\ ResolveApproval(a, "approved")
    BY <1>0, <1>3, RowOK DEF ApproveForRun, TypeOK
  <2>2. CASE runs[r].status = "suspended_approval"
    <3>1. SetRunStatus(approvals', r, "running", "approval_resolved", None)
      BY <1>3, <2>2 DEF ApproveForRun, ResumeIfSuspended
    <3>2. OneActiveRunPerWorkspace'
      BY <1>0, <2>1, <3>1, LockFollowsStatus DEF QueueInv, RunStatus
    <3>3. (\A s \in Runs \ {r} : runs'[s] = runs[s]) /\ runs'[r].status = "running"
      BY <1>0, <2>1, <3>1, RunMoved
    <3>4. SuspendedOnPendingApproval' /\ PendingApprovalHoldsRun'
      BY <2>1, <2>2, <3>3, ResolutionKeepsPointers
    <3> QED
      BY <1>0, <3>2, <3>4 DEF QueueInv
  <2>3. CASE runs[r].status # "suspended_approval"
    <3>1. UNCHANGED <<runs, locks>>
      BY <1>3, <2>3 DEF ApproveForRun, ResumeIfSuspended
    <3>2. OneActiveRunPerWorkspace'
      BY <3>1 DEF QueueInv, OneActiveRunPerWorkspace, Active
    <3>3. SuspendedOnPendingApproval' /\ PendingApprovalHoldsRun'
      BY <2>1, <2>3, <3>1, ResolutionKeepsPointers
    <3> QED
      BY <1>0, <3>2, <3>3 DEF QueueInv
  <2> QED
    BY <2>2, <2>3
<1>4. ASSUME NEW a \in Approvals, NEW p \in Principals,
             ApproveAndApply(a, p) \/ RejectWithoutRun(a, p)
      PROVE  QueueInv'
  <2>1. /\ UNCHANGED <<runs, locks>>
        /\ approvals[a].run = None
        /\ ResolveApproval(a, "approved") \/ ResolveApproval(a, "rejected")
    BY <1>4 DEF ApproveAndApply, RejectWithoutRun
  <2>2. /\ \A b \in Approvals \ {a} : approvals'[b] = approvals[b]
        /\ approvals'[a].status # "pending"
    BY <1>0, <2>1, ResolvedRow
  <2>3. OneActiveRunPerWorkspace'
    BY <2>1 DEF QueueInv, OneActiveRunPerWorkspace, Active
  <2>4. SuspendedOnPendingApproval'
    BY <2>1, <2>2, RunStoreAssumption DEF QueueInv, SuspendedOnPendingApproval
  <2>5. PendingApprovalHoldsRun'
    BY <2>1, <2>2 DEF QueueInv, PendingApprovalHoldsRun
  <2> QED
    BY <1>0, <2>3, <2>4, <2>5 DEF QueueInv
<1>5. ASSUME NEW a \in Approvals, NEW p \in Principals, RejectForRun(a, p)
      PROVE  QueueInv'
  <2> DEFINE r == approvals[a].run
  <2>1. r \in Runs /\ ResolveApproval(a, "rejected")
    BY <1>0, <1>5, RowOK DEF RejectForRun, TypeOK
  <2>2. \/ SetRunStatus(approvals', r, "failed", "approval_rejected", None)
        \/ SetRunStatus(approvals', r, "running", "approval_skipped", None)
    BY <1>5 DEF RejectForRun
  <2>3. OneActiveRunPerWorkspace'
    BY <1>0, <2>1, <2>2, LockFollowsStatus DEF QueueInv, RunStatus, Terminal
  <2>4. /\ \A s \in Runs \ {r} : runs'[s] = runs[s]
        /\ runs'[r].status \in {"running", "failed"}
        /\ runs[r].status \in Terminal => runs'[r].status = runs[r].status
    BY <1>0, <2>1, <2>2, RunMoved
  <2>5. SuspendedOnPendingApproval' /\ PendingApprovalHoldsRun'
    BY <2>1, <2>4, ResolutionKeepsPointers DEF Terminal
  <2> QED
    BY <1>0, <2>3, <2>5 DEF QueueInv
<1>6. ASSUME NEW r \in Runs, StartRun(r)
      PROVE  QueueInv'
  <2>1. /\ runs[r].status = "absent" /\ locks[WorkspaceOf[r]] = None
        /\ \A s \in Runs \ {r} : runs'[s] = runs[s]
        /\ runs'[r].status = "queued"
        /\ locks' = [locks EXCEPT ![WorkspaceOf[r]] = r]
        /\ UNCHANGED approvals
    BY <1>0, <1>6 DEF StartRun, CreateRun, Terminal, TypeOK, StoreTypeOK
  <2>2. OneActiveRunPerWorkspace'
    <3>1. ASSUME NEW s \in Runs, s # r
          PROVE  Active(s)' <=> locks'[WorkspaceOf[s]] = s
      BY <1>0, <2>1, <3>1, RunStoreAssumption
         DEF QueueInv, OneActiveRunPerWorkspace, Active, TypeOK, StoreTypeOK
    <3>2. Active(r)' /\ locks'[WorkspaceOf[r]] = r
      BY <1>0, <2>1, RunStoreAssumption
         DEF Active, RunStatus, Terminal, TypeOK, StoreTypeOK
    <3> QED
      BY <3>1, <3>2 DEF OneActiveRunPerWorkspace, Active
  <2>3. SuspendedOnPendingApproval'
    BY <2>1 DEF QueueInv, SuspendedOnPendingApproval
  <2>4. PendingApprovalHoldsRun'
    BY <1>0, <2>1, RowOK DEF QueueInv, PendingApprovalHoldsRun, TypeOK
  <2> QED
    BY <1>0, <2>2, <2>3, <2>4 DEF QueueInv
<1>7. ASSUME NEW r \in Runs, NEW status \in {"running", "completed", "failed"},
             NEW node \in Nodes, DriveRun(r, status, node)
      PROVE  QueueInv'
  <2>1. SetRunStatus(approvals, r, status, node, None) /\ UNCHANGED approvals
    BY <1>7 DEF DriveRun
  <2>2. OneActiveRunPerWorkspace'
    BY <1>0, <2>1, LockFollowsStatus DEF QueueInv, RunStatus, Terminal
  <2>3. /\ \A s \in Runs \ {r} : runs'[s] = runs[s]
        /\ runs'[r].status = status
        /\ runs[r].status \in Terminal => runs[r].status = status
    BY <1>0, <2>1, RunMoved
  <2>4. SuspendedOnPendingApproval'
    BY <2>1, <2>3 DEF QueueInv, SuspendedOnPendingApproval
  <2>5. runs[r].status = "suspended_approval" => status = "failed"
    BY <2>1, SuspendedNotDriven
  <2>6. PendingApprovalHoldsRun'
    BY <1>0, <2>1, <2>3, <2>5, RowOK DEF QueueInv, PendingApprovalHoldsRun, TypeOK, Terminal
  <2> QED
    BY <1>0, <2>2, <2>4, <2>6 DEF QueueInv
<1>8. CASE UNCHANGED vars
  <2>1. UNCHANGED <<runs, locks, approvals>>
    BY <1>8 DEF vars
  <2> QED
    BY <1>0, <2>1 DEF QueueInv, OneActiveRunPerWorkspace, Active,
                      SuspendedOnPendingApproval, PendingApprovalHoldsRun
<1>9. ASSUME NEW r \in Runs, NEW node \in Nodes, RecordWhileSuspended(r, node)
      PROVE  QueueInv'
  <2>1. /\ SetRunStatus(approvals, r, "suspended_approval", node, runs[r].ptr)
        /\ runs[r].status = "suspended_approval"
        /\ UNCHANGED approvals
    BY <1>9 DEF RecordWhileSuspended
  <2>2. OneActiveRunPerWorkspace'
    BY <1>0, <2>1, LockFollowsStatus DEF QueueInv, RunStatus, Terminal
  <2>3. /\ \A s \in Runs \ {r} : runs'[s] = runs[s]
        /\ runs'[r].status = runs[r].status /\ runs'[r].ptr = runs[r].ptr
    BY <1>0, <2>1, RunMoved
  <2>4. SuspendedOnPendingApproval'
    BY <2>1, <2>3 DEF QueueInv, SuspendedOnPendingApproval
  <2>5. PendingApprovalHoldsRun'
    BY <1>0, <2>1, <2>3, RowOK DEF QueueInv, PendingApprovalHoldsRun, TypeOK
  <2> QED
    BY <1>0, <2>2, <2>4, <2>5 DEF QueueInv
<1> QED
  BY <1>1, <1>2, <1>3, <1>4, <1>5, <1>6, <1>7, <1>8, <1>9
     DEF Next, RequestSteps, ResolutionSteps, DriveSteps, Nodes, Terminal

\* What the service that owns a run does with setStatus keeps them together as well, sets
\* no suspended run running, and changes no run that is over (runs.ts: setStatus).
LEMMA OwnerKeepsQueue ==
  ASSUME QueueInv, NEW r \in Runs, OwnerStep(r)
  PROVE  /\ QueueInv'
         /\ \A s \in Runs : ~(runs[s].status = "suspended_approval" /\ runs'[s].status = "running")
         /\ \A s \in Runs : runs[s].status \in Terminal => runs'[s] = runs[s]
<1> DEFINE row == runs'[r]
           latest == checkpoint'[r]
<1>0. /\ TypeOK /\ row \in RunRow /\ UNCHANGED <<approvals, signed, applied>>
      /\ latest \in [node : Nodes, ptr : Approvals \cup {None}]
      /\ Checkpoint(r, latest.node, latest.ptr)
  BY DEF QueueInv, OwnerStep
<1>1. CheckpointTypeOK' /\ SignedTypeOK' /\ AppliedTypeOK'
  BY <1>0, CheckpointKept DEF TypeOK, SignedTypeOK, AppliedTypeOK
<1>2. CASE UNCHANGED <<runs, locks>>
  BY <1>0, <1>1, <1>2
     DEF QueueInv, TypeOK, StoreTypeOK, OneActiveRunPerWorkspace, Active,
         SuspendedOnPendingApproval, PendingApprovalHoldsRun
<1>3. CASE SetRunStatus(approvals, r, row.status, row.node, row.ptr) /\ ~UNCHANGED <<runs, locks>>
  <2>1. /\ MaySetStatus(approvals, r, row.status, row.ptr)
        /\ runs' = [runs EXCEPT ![r] = [status |-> row.status, node |-> row.node, ptr |-> row.ptr]]
    BY <1>3 DEF SetRunStatus
  <2>2. /\ row.status \in RunStatus /\ runs[r].status \in RunStatus \ Terminal
        /\ row.node \in Nodes /\ row.ptr \in Approvals \cup {None}
        /\ \A s \in Runs \ {r} : runs'[s] = runs[s]
    <3>1. row.status \in RunStatus
      BY <2>1 DEF MaySetStatus, AllowedTransitions, RunStatus, Terminal
    <3> QED BY <1>0, <2>1, <3>1 DEF MaySetStatus, RunRow, TypeOK, StoreTypeOK
  <2>3. TypeOK'
    BY <1>0, <1>1, <1>3, <2>2, RunMoveOK DEF TypeOK, StoreTypeOK
  <2>4. OneActiveRunPerWorkspace'
    BY <1>0, <1>3, <2>2, LockFollowsStatus DEF QueueInv
  <2>5. \A a \in Approvals : approvals[a].status = "pending" /\ approvals[a].run = r =>
            runs[r].status = "suspended_approval" /\ runs[r].ptr = a
    BY <2>2, RunStoreAssumption DEF QueueInv, PendingApprovalHoldsRun, Terminal
  <2>6. runs[r].status = "suspended_approval" =>
            row.status \in {"suspended_approval", "failed"} /\ row.status # "running"
    <3> SUFFICES ASSUME runs[r].status = "suspended_approval", row.status # "suspended_approval"
                 PROVE  row.status = "failed"
      OBVIOUS
    <3>1. approvals[runs[r].ptr].status = "pending"
      BY DEF QueueInv, SuspendedOnPendingApproval
    <3>2. row.status \in {"running", "failed"}
      BY <2>1 DEF MaySetStatus, AllowedTransitions
    <3>3. row.status # "running"
      BY <2>1, <3>1 DEF MaySetStatus, ApprovedResume
    <3> QED BY <3>2, <3>3
  <2>7. row.status = "suspended_approval" =>
            /\ row.ptr \in Approvals /\ approvals[row.ptr].status = "pending"
            /\ approvals[row.ptr].run = r
    BY <2>1 DEF MaySetStatus, ValidPointer
  <2>8. SuspendedOnPendingApproval'
    BY <1>0, <2>2, <2>7 DEF QueueInv, SuspendedOnPendingApproval
  <2>9. runs[r].status = "suspended_approval" /\ row.status = "suspended_approval" =>
            row.ptr = runs[r].ptr
    BY <2>1 DEF MaySetStatus
  <2>10. PendingApprovalHoldsRun'
    <3> SUFFICES ASSUME NEW a \in Approvals, approvals[a].status = "pending",
                        approvals[a].run # None
                 PROVE  \/ /\ runs'[approvals[a].run].status = "suspended_approval"
                           /\ runs'[approvals[a].run].ptr = a
                        \/ runs'[approvals[a].run].status = "failed"
      BY <1>0 DEF PendingApprovalHoldsRun
    <3>1. approvals[a].run \in Runs
      BY <1>0, RowOK DEF TypeOK
    <3>2. CASE approvals[a].run = r
      BY <2>5, <2>6, <2>9, <3>2
    <3>3. CASE approvals[a].run # r
      BY <2>2, <3>1, <3>3 DEF QueueInv, PendingApprovalHoldsRun
    <3> QED BY <3>2, <3>3
  <2>11. /\ \A s \in Runs : ~(runs[s].status = "suspended_approval" /\ runs'[s].status = "running")
         /\ \A s \in Runs : runs[s].status \in Terminal => runs'[s] = runs[s]
    BY <2>2, <2>6
  <2> QED BY <2>3, <2>4, <2>8, <2>10, <2>11 DEF QueueInv
<1> QED BY <1>2, <1>3 DEF OwnerStep

\* The inductive invariant of runs and approvals holds in every reachable state of the
\* queue, whichever services drive the runs.
LEMMA ServedQueueInv == ServedQueue => []QueueInv
<1>1. Init => QueueInv
  BY QueueInvInit
<1>2. QueueInv /\ [ServedNext]_vars => QueueInv'
  BY QueueInvKept, OwnerKeepsQueue DEF ServedNext
<1> QED BY <1>1, <1>2, PTL DEF ServedQueue

LEMMA QueueInvHolds == Spec => []QueueInv
  BY QueueInvInit, QueueInvKept, PTL DEF Spec

\* In every reachable state a workspace has one active run and it holds the lock, a
\* suspended run waits for a pending approval of its own, and a pending approval holds
\* its run suspended unless the run has failed (runs.ts, approvals.ts).
THEOREM QueueSafety == Spec => []RunsMatchApprovals
<1>1. QueueInv => RunsMatchApprovals
  BY DEF QueueInv, RunsMatchApprovals
<1> QED
  BY <1>1, QueueInvHolds, PTL

-------------------------------------------------------------------------------
(* Approvals among themselves.                                             *)

\* What makes an approved target comparable with another: it is a target.
RequestsNameTargets ==
    \A a \in Approvals : approvals[a].status # "absent" => approvals[a].target \in Targets

LedgerInv == /\ TypeOK
             /\ RequestsNameTargets
             /\ ResolutionSignedByAnother
             /\ OneLiveApprovalPerTarget
             /\ AppliedOnceUnderApproval

\* A new request is the only live approval of its target and disturbs no other
\* (approvals.ts: request, findExistingRequest).
LEMMA RequestKeepsLedger ==
  ASSUME LedgerInv, NEW a \in Approvals, NEW t \in Targets, NEW q \in Principals,
         NEW r \in Runs \cup {None}, NEW onReject, NewRequest(a, t),
         approvals' = [approvals EXCEPT ![a] =
             [status |-> "pending", run |-> r, by |-> q, target |-> t, onReject |-> onReject]],
         UNCHANGED <<signed, applied>>
  PROVE  /\ RequestsNameTargets' /\ ResolutionSignedByAnother'
         /\ OneLiveApprovalPerTarget' /\ AppliedOnceUnderApproval'
<1>1. /\ \A b \in Approvals \ {a} : approvals'[b] = approvals[b]
      /\ approvals'[a].status = "pending" /\ approvals'[a].target = t
      /\ approvals[a].status = "absent"
  BY DEF LedgerInv, TypeOK, StoreTypeOK, NewRequest
<1>2. \A b \in Approvals : approvals[b].target = t
                              => approvals[b].status \notin {"pending", "approved"}
  BY DEF NewRequest, LiveFor
<1>3. RequestsNameTargets'
  BY <1>1 DEF LedgerInv, RequestsNameTargets
<1>4. ResolutionSignedByAnother'
  BY <1>1 DEF LedgerInv, ResolutionSignedByAnother
<1>5. OneLiveApprovalPerTarget'
  BY <1>1, <1>2 DEF LedgerInv, OneLiveApprovalPerTarget
<1>6. AppliedOnceUnderApproval'
  BY <1>1 DEF LedgerInv, AppliedOnceUnderApproval
<1> QED
  BY <1>3, <1>4, <1>5, <1>6

\* A signed resolution by another principal keeps the approvals consistent among
\* themselves (approvals.ts: approve, reject, assertNotSelfResolution).
LEMMA ResolutionKeepsLedger ==
  ASSUME LedgerInv, NEW a \in Approvals, NEW p \in Principals,
         NEW v \in {"approved", "rejected"},
         NotSelfResolution(a, p), ResolveApproval(a, v), Sign(a, v, p)
  PROVE  /\ RequestsNameTargets' /\ ResolutionSignedByAnother'
         /\ OneLiveApprovalPerTarget'
<1>1. /\ \A b \in Approvals \ {a} : approvals'[b] = approvals[b] /\ signed'[b] = signed[b]
      /\ approvals[a].status = "pending" /\ approvals'[a].status = v
      /\ approvals'[a].target = approvals[a].target /\ approvals'[a].by = approvals[a].by
  BY DEF LedgerInv, TypeOK, StoreTypeOK, SignedTypeOK, ApprovalRow, ResolveApproval, Sign
<1>2. signed'[a].verdict = v /\ signed'[a].by = p /\ p # approvals[a].by
  BY DEF LedgerInv, TypeOK, SignedTypeOK, Sign, NotSelfResolution
<1>3. RequestsNameTargets'
  BY <1>1 DEF LedgerInv, RequestsNameTargets
<1>4. ResolutionSignedByAnother'
  BY <1>1, <1>2 DEF LedgerInv, ResolutionSignedByAnother
<1>5. OneLiveApprovalPerTarget'
  BY <1>1 DEF LedgerInv, OneLiveApprovalPerTarget
<1> QED
  BY <1>3, <1>4, <1>5

\* A resolution that applies nothing takes the approval of no applied target away.
LEMMA ResolutionKeepsApplied ==
  ASSUME LedgerInv, NEW a \in Approvals, NEW v \in {"approved", "rejected"},
         ResolveApproval(a, v), UNCHANGED applied
  PROVE  AppliedOnceUnderApproval'
<1>1. /\ \A b \in Approvals \ {a} : approvals'[b] = approvals[b]
      /\ approvals[a].status = "pending"
  BY DEF LedgerInv, TypeOK, StoreTypeOK, ResolveApproval
<1> QED
  BY <1>1 DEF LedgerInv, AppliedOnceUnderApproval

\* The empty database.
LEMMA LedgerInvInit == Init => LedgerInv
<1> SUFFICES ASSUME Init PROVE LedgerInv
  OBVIOUS
<1>1. \A a \in Approvals : /\ approvals[a].status = "absent"
                           /\ approvals[a].target = None
                           /\ signed[a] = Unsigned
  BY DEF Init, StoreInit, AbsentApproval
<1>2. \A t \in Targets : applied[t] = 0
  BY DEF Init
<1> QED
  BY <1>1, <1>2, InitTypeOK DEF LedgerInv, RequestsNameTargets, ResolutionSignedByAnother,
     OneLiveApprovalPerTarget, AppliedOnceUnderApproval

\* Every transaction of the queue keeps the approvals consistent among themselves.
LEMMA LedgerInvKept == LedgerInv /\ [Next]_vars => LedgerInv'
<1> SUFFICES ASSUME LedgerInv, [Next]_vars PROVE LedgerInv'
  OBVIOUS
<1>0. TypeOK /\ TypeOK'
  BY TypePreserved DEF LedgerInv
<1>1. ASSUME NEW a \in Approvals, NEW t \in Targets, NEW q \in Principals,
             RequestWithoutRun(a, t, q)
      PROVE  LedgerInv'
  BY <1>0, <1>1, RequestKeepsLedger DEF RequestWithoutRun, LedgerInv
<1>2. ASSUME NEW a \in Approvals, NEW t \in Targets, NEW q \in Principals,
             NEW r \in Runs, NEW onReject \in {"fail_run", "skip_action"},
             RequestForRun(a, r, t, q, onReject)
      PROVE  LedgerInv'
  BY <1>0, <1>2, RequestKeepsLedger DEF RequestForRun, LedgerInv
<1>3. ASSUME NEW a \in Approvals, NEW p \in Principals, ApproveForRun(a, p)
      PROVE  LedgerInv'
  BY <1>0, <1>3, ResolutionKeepsLedger, ResolutionKeepsApplied DEF ApproveForRun, LedgerInv
<1>4. ASSUME NEW a \in Approvals, NEW p \in Principals, ApproveAndApply(a, p)
      PROVE  LedgerInv'
  <2> DEFINE t == approvals[a].target
  <2>1. /\ RequestsNameTargets' /\ ResolutionSignedByAnother'
        /\ OneLiveApprovalPerTarget'
    BY <1>4, ResolutionKeepsLedger DEF ApproveAndApply
  <2>2. /\ \A b \in Approvals \ {a} : approvals'[b] = approvals[b]
        /\ approvals[a].status = "pending" /\ approvals'[a].status = "approved"
        /\ approvals'[a].target = t /\ approvals'[a].run = None
    BY <1>0, <1>4
       DEF ApproveAndApply, ResolveApproval, TypeOK, StoreTypeOK, ApprovalRow
  <2>3. t \in Targets /\ t # None
    BY <2>2, RunStoreAssumption DEF LedgerInv, RequestsNameTargets
  <2>4. applied[t] = 0
    <3>1. \A b \in Approvals : approvals[b].target = t => approvals[b].status # "approved"
      BY <2>2, <2>3 DEF LedgerInv, OneLiveApprovalPerTarget
    <3>2. applied[t] # 1
      BY <2>3, <3>1 DEF LedgerInv, AppliedOnceUnderApproval
    <3>3. applied[t] \in Nat /\ applied[t] <= 1
      BY <1>0, <2>3 DEF LedgerInv, AppliedOnceUnderApproval, TypeOK, AppliedTypeOK
    <3> QED
      BY <3>2, <3>3
  <2>5. applied'[t] = 1 /\ \A u \in Targets \ {t} : applied'[u] = applied[u]
    BY <1>0, <1>4, <2>3, <2>4 DEF ApproveAndApply, TypeOK, AppliedTypeOK
  <2>6. AppliedOnceUnderApproval'
    <3> SUFFICES ASSUME NEW u \in Targets
                 PROVE  /\ applied'[u] <= 1
                        /\ applied'[u] = 1 =>
                               \E b \in Approvals : /\ approvals'[b].target = u
                                                    /\ approvals'[b].status = "approved"
                                                    /\ approvals'[b].run = None
      BY DEF AppliedOnceUnderApproval
    <3>1. CASE u = t
      BY <2>2, <2>5, <3>1
    <3>2. CASE u # t
      BY <2>2, <2>5, <3>2 DEF LedgerInv, AppliedOnceUnderApproval
    <3> QED
      BY <3>1, <3>2
  <2> QED
    BY <1>0, <2>1, <2>6 DEF LedgerInv
<1>5. ASSUME NEW a \in Approvals, NEW p \in Principals,
             RejectForRun(a, p) \/ RejectWithoutRun(a, p)
      PROVE  LedgerInv'
  BY <1>0, <1>5, ResolutionKeepsLedger, ResolutionKeepsApplied
     DEF RejectForRun, RejectWithoutRun, LedgerInv
<1>6. CASE UNCHANGED <<approvals, signed, applied>>
  BY <1>0, <1>6
     DEF LedgerInv, RequestsNameTargets, ResolutionSignedByAnother,
         OneLiveApprovalPerTarget, AppliedOnceUnderApproval
<1>7. CASE DriveSteps
  BY <1>6, <1>7 DEF DriveSteps, StartRun, DriveRun, RecordWhileSuspended
<1>8. CASE UNCHANGED vars
  BY <1>6, <1>8 DEF vars
<1> QED
  BY <1>1, <1>2, <1>3, <1>4, <1>5, <1>7, <1>8 DEF Next, RequestSteps, ResolutionSteps

LEMMA OwnerKeepsLedger ==
  ASSUME LedgerInv, TypeOK', NEW r \in Runs, OwnerStep(r)
  PROVE  LedgerInv'
  BY DEF OwnerStep, LedgerInv, RequestsNameTargets, ResolutionSignedByAnother,
         OneLiveApprovalPerTarget, AppliedOnceUnderApproval

LEMMA LedgerInvHolds == Spec => []LedgerInv
  BY LedgerInvInit, LedgerInvKept, PTL DEF Spec

LEMMA ServedLedgerInv == ServedQueue => []LedgerInv
<1>1. Init => LedgerInv
  BY LedgerInvInit
<1>2. LedgerInv /\ QueueInv /\ QueueInv' /\ [ServedNext]_vars => LedgerInv'
  BY LedgerInvKept, OwnerKeepsLedger DEF ServedNext, QueueInv
<1> QED BY <1>1, <1>2, ServedQueueInv, PTL DEF ServedQueue

\* In every reachable state a resolved approval carries the verdict another principal
\* signed, a target has one live approval, and what was applied outside a run was
\* applied once, under an approved approval (approvals.ts: request, approve, reject).
THEOREM LedgerSafety == Spec => []ApprovalsMatchTargets
<1>1. LedgerInv => ApprovalsMatchTargets
  BY DEF LedgerInv, ApprovalsMatchTargets
<1> QED
  BY <1>1, LedgerInvHolds, PTL

-------------------------------------------------------------------------------
(* What no step does.                                                      *)

\* In a transaction of the queue a run leaves suspension only with the verdict it waits for.
LEMMA ResumedByVerdict ==
  QueueInv /\ [Next]_vars => \A r \in Runs :
            (runs[r].status = "suspended_approval" /\ runs'[r].status = "running") =>
                /\ approvals[runs[r].ptr].status = "pending"
                /\ \/ approvals'[runs[r].ptr].status = "approved"
                   \/ /\ approvals'[runs[r].ptr].status = "rejected"
                      /\ approvals[runs[r].ptr].onReject = "skip_action"
<1> SUFFICES ASSUME QueueInv, [Next]_vars, NEW s \in Runs,
                    runs[s].status = "suspended_approval", runs'[s].status = "running"
             PROVE  /\ approvals[runs[s].ptr].status = "pending"
                    /\ \/ approvals'[runs[s].ptr].status = "approved"
                       \/ /\ approvals'[runs[s].ptr].status = "rejected"
                          /\ approvals[runs[s].ptr].onReject = "skip_action"
  OBVIOUS
<1>0. TypeOK /\ runs'[s] # runs[s] /\ approvals[runs[s].ptr].status = "pending"
  BY DEF QueueInv, SuspendedOnPendingApproval
<1>1. ASSUME NEW a \in Approvals, approvals[a].run = s, approvals[a].status = "pending"
      PROVE  runs[s].ptr = a
  BY <1>1, RunStoreAssumption DEF QueueInv, PendingApprovalHoldsRun
<1>2. ASSUME NEW a \in Approvals, NEW p \in Principals, ApproveForRun(a, p)
      PROVE  approvals'[runs[s].ptr].status = "approved"
  <2>1. approvals[a].run \in Runs /\ ResolveApproval(a, "approved")
    BY <1>0, <1>2, RowOK DEF ApproveForRun, TypeOK
  <2>2. approvals[a].run = s
    BY <1>0, <1>2, <2>1, RunMoved DEF ApproveForRun, ResumeIfSuspended
  <2> QED
    BY <1>0, <1>1, <2>1, <2>2, ResolvedRow
<1>3. ASSUME NEW a \in Approvals, NEW p \in Principals, RejectForRun(a, p)
      PROVE  /\ approvals'[runs[s].ptr].status = "rejected"
             /\ approvals[runs[s].ptr].onReject = "skip_action"
  <2>1. approvals[a].run \in Runs /\ ResolveApproval(a, "rejected")
    BY <1>0, <1>3, RowOK DEF RejectForRun, TypeOK
  <2>2. approvals[a].run = s
    BY <1>0, <1>3, <2>1, RunMoved DEF RejectForRun
  <2>3. approvals[a].onReject # "fail_run"
    BY <1>0, <1>3, <2>1, <2>2, RunMoved DEF RejectForRun
  <2>4. approvals[a].onReject = "skip_action"
    BY <1>3, <2>3 DEF RejectForRun
  <2> QED
    BY <1>0, <1>1, <2>1, <2>2, <2>4, ResolvedRow
<1>4. ASSUME NEW r \in Runs, NEW status \in {"running", "completed", "failed"},
             NEW node, DriveRun(r, status, node)
      PROVE  FALSE
  <2>1. SetRunStatus(approvals, r, status, node, None)
    BY <1>4 DEF DriveRun
  <2>2. r = s /\ status = "running"
    BY <1>0, <2>1, RunMoved
  <2> QED
    BY <2>1, <2>2, SuspendedNotDriven
<1>5. ASSUME NEW a \in Approvals, NEW t \in Targets, NEW q \in Principals,
             NEW r \in Runs, NEW onReject, RequestForRun(a, r, t, q, onReject)
      PROVE  FALSE
  <2>1. SetRunStatus(approvals', r, "suspended_approval", "approval_requested", a)
    BY <1>5 DEF RequestForRun
  <2> QED
    BY <1>0, <2>1, RunMoved
<1>6. ASSUME NEW r \in Runs, StartRun(r)
      PROVE  FALSE
  BY <1>0, <1>6 DEF StartRun, CreateRun, TypeOK, StoreTypeOK
<1>7. ~ UNCHANGED runs
  BY <1>0
<1>8. ASSUME NEW r \in Runs, NEW node, RecordWhileSuspended(r, node)
      PROVE  FALSE
  BY <1>0, <1>8, RunMoved DEF RecordWhileSuspended
<1> QED
  BY <1>0, <1>2, <1>3, <1>4, <1>5, <1>6, <1>7, <1>8
     DEF Next, RequestSteps, ResolutionSteps, DriveSteps, Terminal, vars,
         RequestWithoutRun, ApproveAndApply, RejectWithoutRun

\* A run leaves suspension for running only in the step that approves, or rejects as
\* skippable, the very approval it waits for (runs.ts: validateApprovedResume).
THEOREM ResumesOnVerdict == Spec => ResumesOnlyOnItsVerdict
<1> QED
  BY ResumedByVerdict, QueueInvHolds, PTL DEF Spec, ResumesOnlyOnItsVerdict

\* No step of the queue changes a resolved approval, its signature or a terminal run.
LEMMA DecisionsKept ==
  TypeOK /\ [Next]_vars =>
      /\ \A a \in Approvals : approvals[a].status \in {"approved", "rejected"} =>
             approvals'[a] = approvals[a] /\ signed'[a] = signed[a]
      /\ \A r \in Runs : runs[r].status \in Terminal => runs'[r] = runs[r]
<1> SUFFICES ASSUME TypeOK, [Next]_vars
             PROVE  /\ \A a \in Approvals : approvals[a].status \in {"approved", "rejected"} =>
                          approvals'[a] = approvals[a] /\ signed'[a] = signed[a]
                    /\ \A r \in Runs : runs[r].status \in Terminal => runs'[r] = runs[r]
  OBVIOUS
<1>1. ASSUME NEW r \in Runs, NEW status, NEW node, NEW ptr,
             \/ SetRunStatus(approvals, r, status, node, ptr)
             \/ SetRunStatus(approvals', r, status, node, ptr)
      PROVE  \A s \in Runs : runs[s].status \in Terminal => runs'[s] = runs[s]
  BY <1>1 DEF TypeOK, StoreTypeOK, SetRunStatus, MaySetStatus
<1>2. ASSUME NEW a \in Approvals, NEW v, NEW p, ResolveApproval(a, v), Sign(a, v, p)
      PROVE  \A b \in Approvals : approvals[b].status \in {"approved", "rejected"} =>
                 approvals'[b] = approvals[b] /\ signed'[b] = signed[b]
  BY <1>2 DEF TypeOK, StoreTypeOK, SignedTypeOK, ResolveApproval, Sign
<1>3. CASE RequestSteps
  <2>1. \A b \in Approvals : approvals[b].status \in {"approved", "rejected"} =>
            approvals'[b] = approvals[b] /\ signed'[b] = signed[b]
    BY <1>3 DEF RequestSteps, RequestForRun, RequestWithoutRun, NewRequest,
                TypeOK, StoreTypeOK, SignedTypeOK
  <2>2. \A s \in Runs : runs[s].status \in Terminal => runs'[s] = runs[s]
    BY <1>1, <1>3 DEF RequestSteps, RequestForRun, RequestWithoutRun
  <2> QED
    BY <2>1, <2>2
<1>4. ASSUME NEW a \in Approvals, NEW p \in Principals,
             \/ ApproveForRun(a, p) \/ ApproveAndApply(a, p)
             \/ RejectForRun(a, p) \/ RejectWithoutRun(a, p)
      PROVE  /\ \A b \in Approvals : approvals[b].status \in {"approved", "rejected"} =>
                   approvals'[b] = approvals[b] /\ signed'[b] = signed[b]
             /\ \A s \in Runs : runs[s].status \in Terminal => runs'[s] = runs[s]
  <2>1. (ApproveForRun(a, p) \/ RejectForRun(a, p)) => approvals[a].run \in Runs
    BY RowOK DEF TypeOK, ApproveForRun, RejectForRun
  <2>2. \A b \in Approvals : approvals[b].status \in {"approved", "rejected"} =>
            approvals'[b] = approvals[b] /\ signed'[b] = signed[b]
    BY <1>2, <1>4 DEF ApproveForRun, ApproveAndApply, RejectForRun, RejectWithoutRun
  <2>3. \A s \in Runs : runs[s].status \in Terminal => runs'[s] = runs[s]
    BY <1>1, <1>4, <2>1
       DEF ApproveForRun, ResumeIfSuspended, ApproveAndApply, RejectForRun, RejectWithoutRun
  <2> QED
    BY <2>2, <2>3
<1>5. CASE DriveSteps
  <2>1. \A s \in Runs : runs[s].status \in Terminal => runs'[s] = runs[s]
    <3>1. ASSUME NEW r \in Runs, StartRun(r)
          PROVE  \A s \in Runs : runs[s].status \in Terminal => runs'[s] = runs[s]
      BY <3>1 DEF StartRun, CreateRun, Terminal, TypeOK, StoreTypeOK
    <3> QED
      BY <1>1, <1>5, <3>1 DEF DriveSteps, DriveRun, RecordWhileSuspended
  <2>2. UNCHANGED <<approvals, signed>>
    BY <1>5 DEF DriveSteps, StartRun, DriveRun, RecordWhileSuspended
  <2> QED
    BY <2>1, <2>2
<1>6. CASE UNCHANGED vars
  BY <1>6 DEF vars
<1> QED
  BY <1>3, <1>4, <1>5, <1>6 DEF Next, ResolutionSteps

\* No transaction changes a resolved approval, its signature or a terminal run
\* (persistence/approvals.ts: resolve; runs.ts: setStatus).
THEOREM FinalDecisions == Spec => DecisionsAreFinal
  BY DecisionsKept, TypeCorrect, PTL DEF Spec, DecisionsAreFinal

\* Every decision binds: a suspended run resumes only in the step that resolves its
\* approval, and no later step changes the resolution, its signature or a terminal run
\* (runs.ts: resolveApproval, setStatus).
THEOREM DecisionsAreBinding == Spec => DecisionsBind
  BY ResumesOnVerdict, FinalDecisions DEF DecisionsBind

\* The services a run belongs to cannot take the queue's promises away: with setStatus and
\* checkpoints alone, whatever they do and in whichever order, runs and approvals agree,
\* what was applied was approved once, runs resume on their verdicts only and decisions
\* are final (runs.ts: setStatus, called from spine/service.ts and work/service.ts).
THEOREM ServedQueueSafety ==
  ServedQueue => /\ [](RunsMatchApprovals /\ ApprovalsMatchTargets)
                 /\ ResumesOnlyOnItsVerdict /\ DecisionsAreFinal
<1>1. QueueInv /\ LedgerInv => RunsMatchApprovals /\ ApprovalsMatchTargets
  BY DEF QueueInv, RunsMatchApprovals, LedgerInv, ApprovalsMatchTargets
<1>2. QueueInv /\ [ServedNext]_vars => \A r \in Runs :
          (runs[r].status = "suspended_approval" /\ runs'[r].status = "running") =>
              /\ approvals[runs[r].ptr].status = "pending"
              /\ \/ approvals'[runs[r].ptr].status = "approved"
                 \/ /\ approvals'[runs[r].ptr].status = "rejected"
                    /\ approvals[runs[r].ptr].onReject = "skip_action"
  BY ResumedByVerdict, OwnerKeepsQueue DEF ServedNext
<1>3. QueueInv /\ [ServedNext]_vars =>
          /\ \A a \in Approvals : approvals[a].status \in {"approved", "rejected"} =>
                 approvals'[a] = approvals[a] /\ signed'[a] = signed[a]
          /\ \A r \in Runs : runs[r].status \in Terminal => runs'[r] = runs[r]
  <2> SUFFICES ASSUME QueueInv, [ServedNext]_vars
               PROVE  /\ \A a \in Approvals : approvals[a].status \in {"approved", "rejected"} =>
                             approvals'[a] = approvals[a] /\ signed'[a] = signed[a]
                      /\ \A r \in Runs : runs[r].status \in Terminal => runs'[r] = runs[r]
    OBVIOUS
  <2>1. CASE [Next]_vars
    BY <2>1, DecisionsKept DEF QueueInv
  <2>2. ASSUME NEW s \in Runs, OwnerStep(s)
        PROVE  /\ UNCHANGED <<approvals, signed>>
               /\ \A r \in Runs : runs[r].status \in Terminal => runs'[r] = runs[r]
    BY <2>2, OwnerKeepsQueue DEF OwnerStep
  <2> QED BY <2>1, <2>2 DEF ServedNext
<1>4. ServedQueue => [](RunsMatchApprovals /\ ApprovalsMatchTargets)
  BY <1>1, ServedQueueInv, ServedLedgerInv, PTL
<1>5. ServedQueue => ResumesOnlyOnItsVerdict
  BY <1>2, ServedQueueInv, PTL DEF ServedQueue, ResumesOnlyOnItsVerdict
<1>6. ServedQueue => DecisionsAreFinal
  BY <1>3, ServedQueueInv, PTL DEF ServedQueue, DecisionsAreFinal
<1> QED BY <1>4, <1>5, <1>6
===============================================================================
