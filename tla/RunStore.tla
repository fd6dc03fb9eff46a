------------------------------- MODULE RunStore -------------------------------
(***************************************************************************)
(* The run rows, the one-active-run-per-workspace lock and the approval    *)
(* rows a run points at: persistence/runs.ts, with the approval table of   *)
(* persistence/approvals.ts that its guards read.                          *)
(*                                                                         *)
(* The module has no next-state relation of its own.  A service composes   *)
(* the actions below inside one database transaction: an action of a       *)
(* composing module is one committed transaction, and a transaction the    *)
(* code aborts by throwing is a step that is not enabled.  Where the code  *)
(* updates an approval row first and the run afterwards, the run's guard   *)
(* reads the updated table, which is why it is applied to approvals'.      *)
(***************************************************************************)
CONSTANTS Runs, Workspaces, Approvals, Principals, Targets, None,
          WorkspaceOf            \* the workspace each run belongs to

ASSUME RunStoreAssumption ==
    /\ WorkspaceOf \in [Runs -> Workspaces]
    /\ None \notin Runs \cup Approvals \cup Principals \cup Targets

VARIABLES runs, locks, approvals

storeVars == <<runs, locks, approvals>>

Terminal == {"completed", "failed"}
RunStatus == {"queued", "running", "suspended_approval"} \cup Terminal

\* The nodes a run passes, as spine/service.ts and governance/approvals.ts name
\* them; run_ended stands for the node of any other service that ends a run.
Nodes == {"run_started", "work_created", "coordinator_invoked", "handoff_requested",
          "handoff_to_researcher", "researcher_invoked", "approval_requested",
          "approval_resolved", "capability_called", "artifact_created",
          "coordinator_finalized", "individual_memory_written",
          "collective_memory_written", "work_completed", "run_completed",
          "approval_rejected", "approval_skipped", "capability_failed", "run_ended", None}

\* A row that was never inserted has status "absent".
RunRow == [status : RunStatus \cup {"absent"}, node : Nodes, ptr : Approvals \cup {None}]
AbsentRun == [status |-> "absent", node |-> None, ptr |-> None]

ApprovalRow == [status : {"absent", "pending", "approved", "rejected"},
                run : Runs \cup {None}, by : Principals \cup {None},
                target : Targets \cup {None},
                onReject : {"fail_run", "skip_action", "no_op"}]
AbsentApproval == [status |-> "absent", run |-> None, by |-> None,
                   target |-> None, onReject |-> "no_op"]

StoreTypeOK ==
    /\ runs \in [Runs -> RunRow]
    /\ locks \in [Workspaces -> Runs \cup {None}]
    /\ approvals \in [Approvals -> ApprovalRow]

StoreInit ==
    /\ runs = [r \in Runs |-> AbsentRun]
    /\ locks = [w \in Workspaces |-> None]
    /\ approvals = [a \in Approvals |-> AbsentApproval]

-------------------------------------------------------------------------------

AllowedTransitions ==
    [ queued             |-> {"running"},
      running            |-> {"suspended_approval", "completed", "failed"},
      suspended_approval |-> {"running", "failed"},
      completed          |-> {},
      failed             |-> {} ]

\* A suspended run points at a pending approval of its own; no other run points
\* at any.  `table` is the approval table the statement reads.
ValidPointer(table, r, status, ptr) ==
    IF status = "suspended_approval"
    THEN /\ ptr \in Approvals
         /\ table[ptr].status = "pending"
         /\ table[ptr].run = r
    ELSE ptr = None

\* What a suspended run needs before it may run again.
ResumesUnasked(table, r) == TRUE
ApprovedResume(table, r) ==
    LET ptr == runs[r].ptr IN
    /\ ptr \in Approvals
    /\ table[ptr].run = r
    /\ \/ table[ptr].status = "approved"
       \/ table[ptr].status = "rejected" /\ table[ptr].onReject = "skip_action"

\* A nonterminal run is created only while nobody holds the workspace's lock,
\* and takes it.
CreateRun(r, status) ==
    /\ runs[r].status = "absent"
    /\ ValidPointer(approvals, r, status, None)
    /\ status \notin Terminal => locks[WorkspaceOf[r]] = None
    /\ runs' = [runs EXCEPT ![r] = [status |-> status, node |-> None, ptr |-> None]]
    /\ locks' = [locks EXCEPT ![WorkspaceOf[r]] = IF status \in Terminal THEN @ ELSE r]

MaySetStatus(table, r, status, ptr) ==
    LET current == runs[r].status IN
    /\ current \in RunStatus \ Terminal
    /\ status = current \/ status \in AllowedTransitions[current]
    /\ (current = status /\ status = "suspended_approval") => ptr = runs[r].ptr
    /\ (current = "suspended_approval" /\ status = "running") => ApprovedResume(table, r)
    /\ ValidPointer(table, r, status, ptr)
    /\ status \notin Terminal => locks[WorkspaceOf[r]] \in {None, r}

\* The only mutation a terminal run accepts: the identical write.
TerminalReplay(r, status, node, ptr) ==
    /\ runs[r].status \in Terminal
    /\ runs[r] = [status |-> status, node |-> node, ptr |-> ptr]

\* The lock follows the status: a terminal run releases it, any other status
\* holds it or takes it back.
LockKept(r, status) == IF status \in Terminal THEN locks[WorkspaceOf[r]] ELSE r
LockAfter(r, status) ==
    IF status \in Terminal
    THEN IF locks[WorkspaceOf[r]] = r THEN None ELSE locks[WorkspaceOf[r]]
    ELSE r

SetRunStatus(table, r, status, node, ptr) ==
    \/ /\ TerminalReplay(r, status, node, ptr)
       /\ UNCHANGED <<runs, locks>>
    \/ /\ MaySetStatus(table, r, status, ptr)
       /\ runs' = [runs EXCEPT ![r] = [status |-> status, node |-> node, ptr |-> ptr]]
       /\ locks' = [locks EXCEPT ![WorkspaceOf[r]] = LockAfter(r, status)]

\* A pending approval is resolved once.  Resolving it again the same way returns
\* the stored row, the other way throws.
ResolveAgain(a, verdict) ==
    /\ approvals[a].status # "absent"
    /\ approvals' = [approvals EXCEPT ![a].status = verdict]
ResolveApproval(a, verdict) ==
    /\ approvals[a].status = "pending"
    /\ approvals' = [approvals EXCEPT ![a].status = verdict]
===============================================================================
