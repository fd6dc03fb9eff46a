------------------------ MODULE CapabilityGatewayProofs ------------------------
(***************************************************************************)
(* What holds of the capability gateway for every set of calls, clients,   *)
(* processes, runs and principals, and every configuration of providers.   *)
(*                                                                         *)
(* Two invocations of one call race for its intent row.  GatewayInv says   *)
(* that whoever is past the intent is alone there and finds the provider   *)
(* not started yet, or started by itself; at most one execution, and an ok *)
(* result only for an answer, follow from that.  Every invocation that was *)
(* admitted still holds its authority, because neither a recorded decision *)
(* nor a resolved approval is ever taken back.                             *)
(*                                                                         *)
(* PromiseInv says of the in-flight map what the event loop gives: one     *)
(* invocation of a process runs at a time, so between the look at the map  *)
(* and the refusal nobody of that process starts the provider.             *)
(***************************************************************************)
EXTENDS CapabilityGateway, FiniteSetTheorems, TLAPS

-------------------------------------------------------------------------------
(* The approval queue inside the gateway.                                  *)

QueueFacts == INSTANCE ApprovalServiceProofs WITH Approvals <- Calls, Targets <- Calls

\* The gateway's constants fit the queue's: a call is an approval and its target.
LEMMA QueueAssumption == QueueFacts!RunStoreAssumption
  BY GatewayAssumption DEF QueueFacts!RunStoreAssumption

\* Every step of the gateway is a transaction of the approval queue or leaves its
\* tables alone (registry.ts calls runs, approvals and checkpoints only through it).
LEMMA GatewayStepsQueue == [Next]_vars => [Queue!Next]_queueVars
<1> SUFFICES ASSUME [Next]_vars PROVE [Queue!Next]_queueVars
  OBVIOUS
<1>1. ASSUME NEW p \in Procs, NEW c \in Calls, SubmitForApproval(p, c)
      PROVE  Queue!Next
  BY <1>1, GatewayAssumption DEF SubmitForApproval, Queue!Next, Queue!RequestSteps, Run
<1>2. ASSUME NEW c \in Calls, NEW q \in Principals, Resolve(c, q)
      PROVE  Queue!Next
  BY <1>2 DEF Resolve, Queue!Next, Queue!ResolutionSteps
<1>3. ASSUME NEW r \in Runs, MoveRun(r)
      PROVE  Queue!Next
  BY <1>3 DEF MoveRun, Queue!Next, Queue!DriveSteps, Queue!Terminal
<1>4. CASE UNCHANGED queueVars
  BY <1>4
<1>5. ASSUME NEW i \in Invocations, Proceed(i)
      PROVE  UNCHANGED queueVars
  BY <1>5 DEF Proceed, GuardRun, CheckResult, EnsureEffect, RefuseToReexecute, StartProvider,
              ProviderAnswers, ProviderThrows, RecordOutcome, RecordRaises, RecordFailure,
              FailureRaises
<1>6. ASSUME NEW p \in Procs, NEW c \in Calls, Answer(p, c)
      PROVE  SubmitForApproval(p, c) \/ UNCHANGED queueVars
  BY <1>6 DEF Answer, SubmitBlocked, RetryRejected, RetrySuspended
<1>7. ASSUME NEW i \in Invocations, NEW p \in Procs, NEW c \in Calls, Admit(i, p, c)
      PROVE  UNCHANGED queueVars
  BY <1>7 DEF Admit, SubmitAllowed, RetryPermitted
<1>8. ASSUME NEW p \in Procs, Crash(p)
      PROVE  UNCHANGED queueVars
  BY <1>8 DEF Crash
<1> QED
  BY <1>1, <1>2, <1>3, <1>4, <1>5, <1>6, <1>7, <1>8
     DEF Next, Serve, Surroundings, SuspendGrant, LiftGrant, TurnDial, vars

\* QueueFacts is the queue of the gateway under another name: the initial states,
LEMMA SameInit == Queue!Init => QueueFacts!Init
  BY DEF Queue!Init, QueueFacts!Init, Queue!Unsigned, QueueFacts!Unsigned, Queue!NoCheckpoint,
         QueueFacts!NoCheckpoint, Queue!StoreInit, QueueFacts!StoreInit, Queue!AbsentRun,
         QueueFacts!AbsentRun, Queue!AbsentApproval, QueueFacts!AbsentApproval
\* the transactions,
LEMMA SameNext == Queue!Next => QueueFacts!Next
  BY DEF Queue!Next, QueueFacts!Next, Queue!RequestSteps, QueueFacts!RequestSteps,
         Queue!RequestWithoutRun, QueueFacts!RequestWithoutRun, Queue!RequestForRun,
         QueueFacts!RequestForRun, Queue!NewRequest, QueueFacts!NewRequest, Queue!LiveFor,
         QueueFacts!LiveFor, Queue!SetRunStatus, QueueFacts!SetRunStatus, Queue!TerminalReplay,
         QueueFacts!TerminalReplay, Queue!MaySetStatus, QueueFacts!MaySetStatus,
         Queue!ApprovedResume, QueueFacts!ApprovedResume, Queue!ValidPointer,
         QueueFacts!ValidPointer, Queue!AllowedTransitions, QueueFacts!AllowedTransitions,
         Queue!LockAfter, QueueFacts!LockAfter, Queue!Checkpoint, QueueFacts!Checkpoint,
         Queue!ResolutionSteps, QueueFacts!ResolutionSteps, Queue!ApproveForRun,
         QueueFacts!ApproveForRun, Queue!ResumeIfSuspended, QueueFacts!ResumeIfSuspended,
         Queue!ApproveAndApply, QueueFacts!ApproveAndApply, Queue!RejectForRun,
         QueueFacts!RejectForRun, Queue!RejectWithoutRun, QueueFacts!RejectWithoutRun,
         Queue!NotSelfResolution, QueueFacts!NotSelfResolution, Queue!ResolveApproval,
         QueueFacts!ResolveApproval, Queue!Sign, QueueFacts!Sign, Queue!DriveSteps,
         QueueFacts!DriveSteps, Queue!StartRun, QueueFacts!StartRun, Queue!CreateRun,
         QueueFacts!CreateRun, Queue!DriveRun, QueueFacts!DriveRun, Queue!RecordWhileSuspended,
         QueueFacts!RecordWhileSuspended, Queue!RunStatus,
         QueueFacts!RunStatus, Queue!Terminal, QueueFacts!Terminal

\* and the types are the same.
LEMMA SameTypes == QueueFacts!TypeOK <=> Queue!TypeOK
  BY DEF QueueFacts!TypeOK, Queue!TypeOK, QueueFacts!StoreTypeOK, Queue!StoreTypeOK,
     QueueFacts!SignedTypeOK, Queue!SignedTypeOK, QueueFacts!AppliedTypeOK, Queue!AppliedTypeOK,
     QueueFacts!CheckpointTypeOK, Queue!CheckpointTypeOK, QueueFacts!RunRow, Queue!RunRow,
     QueueFacts!ApprovalRow, Queue!ApprovalRow, QueueFacts!RunStatus, Queue!RunStatus,
     QueueFacts!Terminal, Queue!Terminal, QueueFacts!Nodes, Queue!Nodes

\* The queue's tables keep their types under the steps of the gateway.
LEMMA QueueTypes == (Queue!Init => Queue!TypeOK) /\ (Queue!TypeOK /\ [Next]_vars => Queue!TypeOK')
<1>1. Queue!Init => Queue!TypeOK
  BY SameInit, SameTypes, QueueAssumption, QueueFacts!InitTypeOK
<1>2. [Next]_vars => [QueueFacts!Next]_(QueueFacts!vars)
  BY GatewayStepsQueue, SameNext DEF queueVars, QueueFacts!vars
<1>3. QueueFacts!TypeOK /\ [Next]_vars => QueueFacts!TypeOK'
  BY <1>2, QueueAssumption, QueueFacts!TypePreserved
<1>4. QueueFacts!TypeOK' <=> Queue!TypeOK'
  BY DEF QueueFacts!TypeOK, Queue!TypeOK, QueueFacts!StoreTypeOK, Queue!StoreTypeOK,
     QueueFacts!SignedTypeOK, Queue!SignedTypeOK, QueueFacts!AppliedTypeOK, Queue!AppliedTypeOK,
     QueueFacts!CheckpointTypeOK, Queue!CheckpointTypeOK, QueueFacts!RunRow, Queue!RunRow,
     QueueFacts!ApprovalRow, Queue!ApprovalRow, QueueFacts!RunStatus, Queue!RunStatus,
     QueueFacts!Terminal, Queue!Terminal, QueueFacts!Nodes, Queue!Nodes
<1> QED
  BY <1>1, <1>3, <1>4, SameTypes

-------------------------------------------------------------------------------
(* Types.                                                                  *)

\* A continuation moves its own invocation to the next step of executeProvider.
LEMMA GotoTypeOK ==
  ASSUME ProcTypeOK, NEW i \in Invocations, inv[i].pc # "idle", NEW step \in Steps \ {"idle"},
         Goto(i, step)
  PROVE  /\ inv' \in [Invocations -> {Idle} \cup Served]
         /\ inv'[i].pc = step /\ inv'[i].call = inv[i].call /\ inv'[i].proc = inv[i].proc
         /\ inv'[i].got = inv[i].got
         /\ \A j \in Invocations \ {i} : inv'[j] = inv[j]
<1>1. inv[i] \in Served
  BY DEF ProcTypeOK, Idle
<1>2. [inv[i] EXCEPT !.pc = step] \in Served
  BY <1>1 DEF Served
<1>3. /\ inv' \in [Invocations -> {Idle} \cup Served]
      /\ inv'[i] = [inv[i] EXCEPT !.pc = step]
      /\ \A j \in Invocations \ {i} : inv'[j] = inv[j]
  BY <1>2 DEF Goto, ProcTypeOK
<1> QED
  BY <1>1, <1>3 DEF Served

\* A return from executeProvider ends its own invocation.
LEMMA LeaveTypeOK ==
  ASSUME ProcTypeOK, NEW i \in Invocations, Leave(i)
  PROVE  /\ inv' \in [Invocations -> {Idle} \cup Served]
         /\ inv'[i] = Idle
         /\ \A j \in Invocations \ {i} : inv'[j] = inv[j]
  BY DEF Leave, ProcTypeOK

\* A settled promise ends its invocation and duplicates that joined it, no other.
LEMMA SettleTypeOK ==
  ASSUME ProcTypeOK, NEW i \in Invocations, Settle(i), inv[i].proc \in Procs
  PROVE  /\ ProcTypeOK'
         /\ inv'[i] = Idle
         /\ \A j \in Invocations : inv'[j] = Idle \/ inv'[j] = inv[j]
  BY DEF Settle, Forget, Joined, ProcTypeOK

\* An admitted call enters executeProvider at its first step.
LEMMA EnterTypeOK ==
  ASSUME ProcTypeOK, NEW i \in Invocations, NEW p \in Procs, NEW c \in Calls, Enter(i, p, c)
  PROVE  /\ ProcTypeOK'
         /\ inv[i].pc = "idle" /\ inv'[i].pc = "guard" /\ inv'[i].call = c
         /\ \A j \in Invocations \ {i} : inv'[j] = inv[j]
<1>1. [pc |-> "guard", call |-> c, proc |-> p, got |-> "none"] \in Served
  BY DEF Served, Steps, SyncSteps
<1> QED
  BY <1>1 DEF Enter, ProcTypeOK

\* An invocation that is not idle serves a call in a process.
LEMMA ServedFields ==
  ASSUME ProcTypeOK, NEW i \in Invocations, inv[i].pc # "idle"
  PROVE  inv[i].call \in Calls /\ inv[i].proc \in Procs
  BY DEF ProcTypeOK, Idle, Served

\* Recording a result writes the row of its call and no other
\* (persistence/capabilities.ts: record).
LEMMA ResultRowOK ==
  ASSUME CallTypeOK, NEW c \in Calls, NEW status \in {"ok", "failed", "blocked"},
         NEW why \in {"provider", "unavailable", "refused", "policy", "rejected", "suspended"},
         result' = [result EXCEPT ![c] = ResultOf(status, why)],
         UNCHANGED <<decision, effect>>
  PROVE  /\ CallTypeOK'
         /\ result'[c].status = status
         /\ \A d \in Calls \ {c} : result'[d] = result[d]
  BY DEF CallTypeOK, ResultOf

\* Every step of the gateway keeps rows, promises and invocations well typed.
LEMMA GatewayTypePreserved == TypeOK /\ [Next]_vars => TypeOK'
<1> SUFFICES ASSUME Queue!TypeOK, CallTypeOK, PostureTypeOK, ProcTypeOK, ProviderTypeOK, [Next]_vars
             PROVE  TypeOK'
  BY DEF TypeOK
<1>0. Queue!TypeOK'
  BY QueueTypes
<1>1. ASSUME UNCHANGED <<decision, result, effect>> PROVE CallTypeOK'
  BY <1>1 DEF CallTypeOK
<1>2. ASSUME UNCHANGED <<dial, suspended>> PROVE PostureTypeOK'
  BY <1>2 DEF PostureTypeOK
<1>3. ASSUME UNCHANGED <<inflight, inv>> PROVE ProcTypeOK'
  BY <1>3 DEF ProcTypeOK
<1>4. ASSUME UNCHANGED <<executed, returned>> PROVE ProviderTypeOK'
  BY <1>4 DEF ProviderTypeOK
<1>5. ASSUME NEW p \in Procs, NEW c \in Calls, Answer(p, c)
      PROVE  TypeOK'
  <2>1. CallTypeOK'
    <3>1. CASE SubmitBlocked(p, c)
      BY <3>1 DEF SubmitBlocked, Block, ResultOf, CallTypeOK
    <3>2. CASE SubmitForApproval(p, c)
      BY <3>2 DEF SubmitForApproval, CallTypeOK
    <3>3. CASE RetryRejected(p, c)
      BY <3>3, ResultRowOK DEF RetryRejected, Block
    <3>4. CASE RetrySuspended(p, c)
      BY <3>4, ResultRowOK DEF RetrySuspended, Block
    <3> QED
      BY <1>5, <3>1, <3>2, <3>3, <3>4 DEF Answer
  <2>2. UNCHANGED <<postureVars, procVars, providerVars>>
    BY <1>5 DEF Answer, SubmitBlocked, SubmitForApproval, RetryRejected, RetrySuspended
  <2> QED
    BY <1>0, <1>2, <1>3, <1>4, <2>1, <2>2 DEF TypeOK, postureVars, procVars, providerVars
<1>6. ASSUME NEW i \in Invocations, NEW p \in Procs, NEW c \in Calls, Admit(i, p, c)
      PROVE  TypeOK'
  <2>1. CallTypeOK'
    BY <1>6 DEF Admit, SubmitAllowed, RetryPermitted, CallTypeOK, callVars
  <2>2. ProcTypeOK'
    BY <1>6, EnterTypeOK DEF Admit, SubmitAllowed, RetryPermitted
  <2>3. UNCHANGED <<postureVars, providerVars>>
    BY <1>6 DEF Admit, SubmitAllowed, RetryPermitted
  <2> QED
    BY <1>0, <1>2, <1>4, <2>1, <2>2, <2>3 DEF TypeOK, postureVars, providerVars
<1>7. ASSUME NEW i \in Invocations, Proceed(i)
      PROVE  TypeOK'
  <2> DEFINE c == inv[i].call
  <2>0. inv[i].pc # "idle" /\ c \in Calls /\ inv[i].proc \in Procs
    <3>1. inv[i].pc # "idle"
      BY <1>7 DEF Proceed, GuardRun, CheckResult, EnsureEffect, RefuseToReexecute, StartProvider,
                  ProviderAnswers, ProviderThrows, RecordOutcome, RecordRaises, RecordFailure,
                  FailureRaises, At
    <3> QED
      BY <3>1, ServedFields
  <2>1. UNCHANGED postureVars
    BY <1>7 DEF Proceed, GuardRun, CheckResult, EnsureEffect, RefuseToReexecute, StartProvider,
                ProviderAnswers, ProviderThrows, RecordOutcome, RecordRaises, RecordFailure,
                FailureRaises
  <2> USE DEF Steps, SyncSteps
  <2>2. CASE GuardRun(i)
    <3>1. ProcTypeOK'
      BY <2>0, <2>2, GotoTypeOK, LeaveTypeOK DEF GuardRun, ProcTypeOK
    <3> QED
      BY <1>0, <1>1, <1>2, <1>4, <2>1, <2>2, <3>1
         DEF GuardRun, TypeOK, callVars, postureVars, providerVars
  <2>3. CASE CheckResult(i)
    <3>1. ProcTypeOK'
      BY <2>0, <2>3, GotoTypeOK, LeaveTypeOK DEF CheckResult, ProcTypeOK
    <3>2. CallTypeOK'
      BY <1>1, <2>0, <2>3, ResultRowOK DEF CheckResult
    <3> QED
      BY <1>0, <1>2, <1>4, <2>1, <2>3, <3>1, <3>2
         DEF CheckResult, TypeOK, postureVars, providerVars
  <2>4. CASE EnsureEffect(i)
    <3>1. ProcTypeOK'
      BY <2>0, <2>4, GotoTypeOK DEF EnsureEffect, AfterEffect, ProcTypeOK
    <3>2. CallTypeOK'
      BY <2>0, <2>4 DEF EnsureEffect, CallTypeOK
    <3> QED
      BY <1>0, <1>2, <1>4, <2>1, <2>4, <3>1, <3>2
         DEF EnsureEffect, TypeOK, postureVars, providerVars
  <2>5. CASE RefuseToReexecute(i)
    <3>1. ProcTypeOK'
      BY <2>0, <2>5, LeaveTypeOK DEF RefuseToReexecute, ProcTypeOK
    <3>2. CallTypeOK'
      BY <1>1, <2>0, <2>5, ResultRowOK DEF RefuseToReexecute, Refusal
    <3> QED
      BY <1>0, <1>2, <1>4, <2>1, <2>5, <3>1, <3>2
         DEF RefuseToReexecute, TypeOK, postureVars, providerVars
  <2>6. CASE StartProvider(i)
    <3>1. ProcTypeOK'
      BY <2>0, <2>6, GotoTypeOK DEF StartProvider, ProcTypeOK
    <3>2. ProviderTypeOK'
      BY <2>0, <2>6 DEF StartProvider, ProviderTypeOK
    <3> QED
      BY <1>0, <1>1, <1>2, <2>1, <2>6, <3>1, <3>2
         DEF StartProvider, TypeOK, callVars, postureVars
  <2>7. CASE (\E status \in {"ok", "failed"} : ProviderAnswers(i, status)) \/ ProviderThrows(i)
    <3>1. PICK status \in {"ok", "failed"}, step \in {"record", "recordFailed"} :
              /\ returned' = [returned EXCEPT ![c] = status]
              /\ inv' = [inv EXCEPT ![i].pc = step, ![i].got = status]
              /\ UNCHANGED <<callVars, inflight, executed>>
      BY <2>7 DEF ProviderAnswers, ProviderThrows
    <3>2. [inv[i] EXCEPT !.pc = step, !.got = status] \in Served
      <4>1. inv[i] \in Served
        BY <2>0 DEF ProcTypeOK, Idle
      <4> QED
        BY <4>1 DEF Served
    <3>3. ProcTypeOK'
      BY <3>1, <3>2 DEF ProcTypeOK
    <3>4. ProviderTypeOK'
      BY <2>0, <3>1 DEF ProviderTypeOK
    <3> QED
      BY <1>0, <1>1, <1>2, <2>1, <3>1, <3>3, <3>4 DEF TypeOK, callVars, postureVars
  <2>8. CASE RecordRaises(i)
    <3>1. ProcTypeOK'
      BY <2>0, <2>8, GotoTypeOK DEF RecordRaises, ProcTypeOK
    <3> QED
      BY <1>0, <1>1, <1>2, <1>4, <2>1, <2>8, <3>1
         DEF RecordRaises, TypeOK, callVars, postureVars, providerVars
  <2>9. CASE RecordOutcome(i) \/ RecordFailure(i) \/ FailureRaises(i)
    <3>1. ProcTypeOK'
      BY <2>0, <2>9, SettleTypeOK DEF RecordOutcome, RecordFailure, FailureRaises
    <3>2. CallTypeOK'
      <4>1. CASE FailureRaises(i)
        BY <1>1, <4>1 DEF FailureRaises, callVars
      <4>2. CASE RecordOutcome(i) \/ RecordFailure(i)
        <5>1. inv[i].got \in {"none", "ok", "failed"}
          BY DEF ProcTypeOK, Idle, Served
        <5>2. ResultOf(inv[i].got, "provider") \in
                  [status : {"none", "ok", "failed", "blocked"},
                   why : {"none", "provider", "unavailable", "refused",
                          "policy", "rejected", "suspended"}]
          BY <5>1 DEF ResultOf
        <5> QED
          BY <2>0, <4>2, <5>2, ResultRowOK DEF RecordOutcome, RecordFailure, CallTypeOK
      <4> QED
        BY <2>9, <4>1, <4>2
    <3> QED
      BY <1>0, <1>2, <1>4, <2>1, <2>9, <3>1, <3>2
         DEF RecordOutcome, RecordFailure, FailureRaises, TypeOK, postureVars, providerVars
  <2> QED
    BY <1>7, <2>2, <2>3, <2>4, <2>5, <2>6, <2>7, <2>8, <2>9 DEF Proceed
<1>8. ASSUME NEW p \in Procs, Crash(p)
      PROVE  TypeOK'
  <2>1. ProcTypeOK'
    BY <1>8 DEF Crash, ProcTypeOK
  <2> QED
    BY <1>0, <1>1, <1>2, <1>4, <1>8, <2>1 DEF Crash, TypeOK, callVars, postureVars, providerVars
<1>9. CASE Surroundings
  <2>1. PostureTypeOK'
    BY <1>9, GatewayAssumption
       DEF Surroundings, Resolve, MoveRun, SuspendGrant, LiftGrant, TurnDial, PostureTypeOK, postureVars
  <2>2. UNCHANGED <<callVars, procVars, providerVars>>
    BY <1>9 DEF Surroundings, Resolve, MoveRun, SuspendGrant, LiftGrant, TurnDial
  <2> QED
    BY <1>0, <1>1, <1>3, <1>4, <2>1, <2>2 DEF TypeOK, callVars, procVars, providerVars
<1>10. CASE UNCHANGED vars
  BY <1>0, <1>1, <1>2, <1>3, <1>4, <1>10
     DEF vars, TypeOK, callVars, postureVars, procVars, providerVars
<1> QED
  BY <1>5, <1>6, <1>7, <1>8, <1>9, <1>10 DEF Next, Serve

\* The gateway starts well typed.
LEMMA GatewayInit == Init => TypeOK
<1>1. Init => Queue!TypeOK
  BY QueueTypes DEF Init
<1> QED
  BY <1>1, GatewayAssumption
     DEF Init, TypeOK, CallTypeOK, PostureTypeOK, ProcTypeOK, ProviderTypeOK, NoResult

\* Decisions, results, intents, promises and invocations keep their types in every
\* reachable state of the gateway, and so do the tables of the queue.
THEOREM GatewayTypeCorrect == Spec => []TypeOK
<1> QED
  BY GatewayInit, GatewayTypePreserved, PTL DEF Spec

-------------------------------------------------------------------------------
(* The invariant, and the steps that could break it.                       *)

\* The steps from the intent on, of which one invocation of a call can be at one.
Executing == {"start", "provider", "record", "recordFailed"}
Started == Executing \ {"start"}

CallInv(c) ==
    /\ decision[c] # "require_approval" => approvals[c].status = "absent"
    /\ ~Open(c) => decision[c] # "none"
    /\ effect[c] => MayExecute(c)
    /\ executed[c] <= 1
    /\ executed[c] = 1 => effect[c]
    /\ result[c].status = "ok" => executed[c] = 1 /\ returned[c] = "ok"

InvocationInv(i) ==
    LET c == inv[i].call IN
    /\ inv[i].pc # "idle" => MayExecute(c)
    /\ inv[i].pc = "start" => effect[c] /\ executed[c] = 0
    /\ inv[i].pc \in Started => executed[c] = 1 /\ result[c].status # "ok"
    /\ inv[i].pc = "record" => returned[c] = inv[i].got /\ inv[i].got \in {"ok", "failed"}

OneExecutor ==
    \A i, j \in Invocations :
        /\ inv[i].pc \in Executing /\ inv[j].pc \in Executing
        /\ inv[i].call = inv[j].call
        => i = j

GatewayInv ==
    /\ TypeOK
    /\ \A c \in Calls : CallInv(c)
    /\ \A i \in Invocations : InvocationInv(i)
    /\ OneExecutor

\* A resolved approval is never changed, and an approval of a call appears only in
\* the transaction that submits the call for approval (registry.ts: invoke).
LEMMA QueueStepsApprovals ==
  ASSUME Queue!TypeOK, [Next]_vars, NEW c \in Calls
  PROVE  /\ approvals[c].status \in {"approved", "rejected"} => approvals'[c] = approvals[c]
         /\ approvals[c].status = "absent" => approvals'[c].status \in {"absent", "pending"}
         /\ (approvals[c].status = "absent" /\ approvals'[c].status # "absent")
                => \E p \in Procs : SubmitForApproval(p, c)
<1>0. approvals \in [Calls -> Queue!ApprovalRow]
  BY DEF Queue!TypeOK, Queue!StoreTypeOK
<1>1. ASSUME NEW p \in Procs, NEW d \in Calls, SubmitForApproval(p, d)
      PROVE  /\ approvals[d].status = "absent" /\ approvals'[d].status = "pending"
             /\ \A e \in Calls \ {d} : approvals'[e] = approvals[e]
  BY <1>0, <1>1 DEF SubmitForApproval, Queue!RequestForRun, Queue!NewRequest
<1>2. ASSUME NEW d \in Calls, NEW q \in Principals, Resolve(d, q)
      PROVE  /\ approvals[d].status = "pending"
             /\ \A e \in Calls \ {d} : approvals'[e] = approvals[e]
  BY <1>0, <1>2 DEF Resolve, Queue!ApproveForRun, Queue!RejectForRun, Queue!ResolveApproval
<1>3. CASE UNCHANGED approvals
  BY <1>0, <1>3
<1>4. \/ \E p \in Procs, d \in Calls : SubmitForApproval(p, d)
      \/ \E d \in Calls, q \in Principals : Resolve(d, q)
      \/ UNCHANGED approvals
  <2>1. ASSUME NEW i \in Invocations, Proceed(i)
        PROVE  UNCHANGED approvals
    BY <2>1 DEF Proceed, GuardRun, CheckResult, EnsureEffect, RefuseToReexecute, StartProvider,
                ProviderAnswers, ProviderThrows, RecordOutcome, RecordRaises, RecordFailure,
                FailureRaises, queueVars
  <2>2. ASSUME NEW p \in Procs, NEW d \in Calls, Answer(p, d)
        PROVE  SubmitForApproval(p, d) \/ UNCHANGED approvals
    BY <2>2 DEF Answer, SubmitBlocked, RetryRejected, RetrySuspended, queueVars
  <2>3. ASSUME NEW i \in Invocations, NEW p \in Procs, NEW d \in Calls, Admit(i, p, d)
        PROVE  UNCHANGED approvals
    BY <2>3 DEF Admit, SubmitAllowed, RetryPermitted, queueVars
  <2>4. ASSUME NEW p \in Procs, Crash(p) PROVE UNCHANGED approvals
    BY <2>4 DEF Crash, queueVars
  <2>5. ASSUME NEW r \in Runs, MoveRun(r) PROVE UNCHANGED approvals
    BY <2>5 DEF MoveRun, Queue!StartRun, Queue!DriveRun, Queue!RecordWhileSuspended
  <2> QED
    BY <2>1, <2>2, <2>3, <2>4, <2>5
       DEF Next, Serve, Surroundings, SuspendGrant, LiftGrant, TurnDial, vars, queueVars
<1>5. CASE \E p \in Procs, d \in Calls : SubmitForApproval(p, d)
  BY <1>1, <1>5
<1>6. CASE \E d \in Calls, q \in Principals : Resolve(d, q)
  BY <1>2, <1>6
<1> QED
  BY <1>3, <1>4, <1>5, <1>6

\* The policy decision of a call is recorded once (registry.ts: invoke).
LEMMA DecisionStable ==
  ASSUME CallTypeOK, [Next]_vars, NEW c \in Calls, decision[c] # "none"
  PROVE  decision'[c] = decision[c]
<1>1. ASSUME NEW i \in Invocations, Proceed(i)
      PROVE  UNCHANGED decision
  BY <1>1 DEF Proceed, GuardRun, CheckResult, EnsureEffect, RefuseToReexecute, StartProvider,
              ProviderAnswers, ProviderThrows, RecordOutcome, RecordRaises, RecordFailure,
              FailureRaises, callVars
<1>2. ASSUME NEW p \in Procs, NEW d \in Calls, Answer(p, d)
      PROVE  decision'[c] = decision[c]
  BY <1>2 DEF Answer, SubmitBlocked, SubmitForApproval, RetryRejected, RetrySuspended, Fresh, CallTypeOK
<1>3. ASSUME NEW i \in Invocations, NEW p \in Procs, NEW d \in Calls, Admit(i, p, d)
      PROVE  decision'[c] = decision[c]
  BY <1>3 DEF Admit, SubmitAllowed, RetryPermitted, callVars, Fresh, CallTypeOK
<1>4. ASSUME NEW p \in Procs, Crash(p) PROVE UNCHANGED decision
  BY <1>4 DEF Crash, callVars
<1>5. CASE Surroundings
  BY <1>5 DEF Surroundings, Resolve, MoveRun, SuspendGrant, LiftGrant, TurnDial, callVars
<1> QED
  BY <1>1, <1>2, <1>3, <1>4, <1>5 DEF Next, Serve, vars, callVars

\* The authority to execute is never taken back: suspension blocks a call by giving
\* it a result, not by changing its decision or approval.
LEMMA AuthorityStable ==
  ASSUME TypeOK, [Next]_vars, NEW c \in Calls, MayExecute(c)
  PROVE  MayExecute(c)'
<1>1. decision'[c] = decision[c]
  BY DecisionStable DEF MayExecute, TypeOK
<1>2. approvals[c].status = "approved" => approvals'[c].status = "approved"
  BY QueueStepsApprovals DEF TypeOK
<1> QED
  BY <1>1, <1>2 DEF MayExecute

-------------------------------------------------------------------------------
(* Who changes what.                                                       *)

\* A step answers a client, admits a call, continues an invocation, loses a process,
\* or leaves calls, processes and providers alone.
LEMMA StepKinds ==
  ASSUME [Next]_vars
  PROVE  \/ \E p \in Procs, c \in Calls : Answer(p, c)
         \/ \E i \in Invocations, p \in Procs, c \in Calls : Admit(i, p, c)
         \/ \E i \in Invocations : Proceed(i)
         \/ \E p \in Procs : Crash(p)
         \/ UNCHANGED <<callVars, procVars, providerVars>>
  BY DEF Next, Serve, Surroundings, Resolve, MoveRun, SuspendGrant, LiftGrant, TurnDial, vars

\* Of the steps of executeProvider only one writes the intent, one starts the
\* provider, two take its answer and four record a result (registry.ts:537-706).
LEMMA ProceedFrame ==
  ASSUME NEW i \in Invocations, Proceed(i)
  PROVE  /\ inv[i].pc # "idle"
         /\ UNCHANGED decision
         /\ EnsureEffect(i) \/ UNCHANGED effect
         /\ StartProvider(i) \/ UNCHANGED executed
         /\ (\E status \in {"ok", "failed"} : ProviderAnswers(i, status)) \/ ProviderThrows(i)
                \/ UNCHANGED returned
         /\ CheckResult(i) \/ RefuseToReexecute(i) \/ RecordOutcome(i) \/ RecordFailure(i)
                \/ UNCHANGED result
  BY DEF Proceed, At, callVars, providerVars, GuardRun, CheckResult, EnsureEffect, RefuseToReexecute,
         StartProvider, ProviderAnswers, ProviderThrows, RecordOutcome, RecordRaises,
         RecordFailure, FailureRaises

\* An intent is written by an invocation that reached the effect step, and stays.
LEMMA EffectSteps ==
  ASSUME TypeOK, [Next]_vars, NEW c \in Calls
  PROVE  \/ effect'[c] = effect[c]
         \/ effect'[c] /\ \E i \in Invocations : inv[i].pc = "effect" /\ inv[i].call = c
<1>1. ASSUME NEW i \in Invocations, EnsureEffect(i), effect'[c] # effect[c]
      PROVE  effect'[c] /\ inv[i].pc = "effect" /\ inv[i].call = c
  BY <1>1 DEF EnsureEffect, At, TypeOK, CallTypeOK
<1>2. ASSUME NEW p \in Procs, NEW d \in Calls, Answer(p, d) PROVE UNCHANGED effect
  BY <1>2 DEF Answer, SubmitBlocked, SubmitForApproval, RetryRejected, RetrySuspended
<1>3. ASSUME NEW i \in Invocations, NEW p \in Procs, NEW d \in Calls, Admit(i, p, d)
      PROVE  UNCHANGED effect
  BY <1>3 DEF Admit, SubmitAllowed, RetryPermitted, callVars
<1>4. ASSUME NEW p \in Procs, Crash(p) PROVE UNCHANGED effect
  BY <1>4 DEF Crash, callVars
<1> QED
  BY <1>1, <1>2, <1>3, <1>4, StepKinds, ProceedFrame DEF callVars

\* A provider is started, and answers, only by an invocation at that very step.
LEMMA ProviderSteps ==
  ASSUME TypeOK, [Next]_vars, NEW c \in Calls
  PROVE  /\ \/ executed'[c] = executed[c]
            \/ /\ executed'[c] = executed[c] + 1
               /\ \E i \in Invocations : /\ inv[i].pc = "start" /\ inv[i].call = c
                                         /\ inv'[i].pc = "provider"
         /\ \/ returned'[c] = returned[c]
            \/ \E i \in Invocations : /\ inv[i].pc = "provider" /\ inv[i].call = c
                                      /\ inv'[i].pc # "provider"
<1>0. ProcTypeOK /\ ProviderTypeOK
  BY DEF TypeOK
<1>1. ASSUME NEW i \in Invocations, StartProvider(i), executed'[c] # executed[c]
      PROVE  /\ executed'[c] = executed[c] + 1
             /\ inv[i].pc = "start" /\ inv[i].call = c /\ inv'[i].pc = "provider"
  <2>1. inv[i].pc = "start" /\ inv[i].call = c /\ executed'[c] = executed[c] + 1
    BY <1>0, <1>1 DEF StartProvider, At, ProviderTypeOK
  <2>2. inv'[i].pc = "provider"
    BY <1>0, <1>1, <2>1, GotoTypeOK DEF StartProvider, Steps
  <2> QED
    BY <2>1, <2>2
<1>2. ASSUME NEW i \in Invocations, NEW status, returned'[c] # returned[c],
             ProviderAnswers(i, status) \/ ProviderThrows(i)
      PROVE  inv[i].pc = "provider" /\ inv[i].call = c /\ inv'[i].pc # "provider"
  <2>1. inv[i].pc = "provider" /\ inv[i].call = c
    BY <1>0, <1>2 DEF ProviderAnswers, ProviderThrows, At, ProviderTypeOK
  <2>2. inv[i] \in Served
    BY <1>0, <2>1 DEF ProcTypeOK, Idle
  <2>3. inv'[i].pc # "provider"
    BY <1>0, <1>2, <2>2 DEF ProviderAnswers, ProviderThrows, ProcTypeOK, Served
  <2> QED
    BY <2>1, <2>3
<1>3. ASSUME NEW p \in Procs, NEW d \in Calls, Answer(p, d) PROVE UNCHANGED providerVars
  BY <1>3 DEF Answer, SubmitBlocked, SubmitForApproval, RetryRejected, RetrySuspended
<1>4. ASSUME NEW i \in Invocations, NEW p \in Procs, NEW d \in Calls, Admit(i, p, d)
      PROVE  UNCHANGED providerVars
  BY <1>4 DEF Admit, SubmitAllowed, RetryPermitted
<1>5. ASSUME NEW p \in Procs, Crash(p) PROVE UNCHANGED providerVars
  BY <1>5 DEF Crash
<1>6. CASE \E i \in Invocations : Proceed(i)
  BY <1>1, <1>2, <1>6, ProceedFrame
<1>7. CASE UNCHANGED providerVars
  BY <1>7 DEF providerVars
<1> QED
  BY <1>3, <1>4, <1>5, <1>6, <1>7, StepKinds

\* A result is written only into an open call with a decision, and an ok result only
\* by the invocation that holds the ok answer (registry.ts: recordResultEvent).
LEMMA ResultSteps ==
  ASSUME GatewayInv, [Next]_vars, NEW c \in Calls
  PROVE  \/ result'[c] = result[c]
         \/ /\ Open(c) /\ decision'[c] # "none"
            /\ result'[c].status = "ok" =>
                   \E i \in Invocations : /\ inv[i].pc = "record" /\ inv[i].call = c
                                         /\ inv[i].got = "ok" /\ inv'[i].pc = "idle"
<1>0. CallTypeOK /\ ProcTypeOK
  BY DEF GatewayInv, TypeOK
<1>1. ASSUME NEW p \in Procs, NEW d \in Calls, Answer(p, d)
      PROVE  \/ result'[c] = result[c]
             \/ Open(c) /\ decision'[c] # "none" /\ result'[c].status = "blocked"
  <2>1. CASE SubmitBlocked(p, d)
    <3>1. decision[d] = "none" /\ Open(d)
      BY <2>1 DEF SubmitBlocked, Fresh, GatewayInv, CallInv
    <3> QED
      BY <1>0, <2>1, <3>1 DEF SubmitBlocked, Block, ResultOf, CallTypeOK
  <2>2. CASE SubmitForApproval(p, d)
    BY <2>2 DEF SubmitForApproval
  <2>3. CASE RetryRejected(p, d)
    BY <1>0, <2>3 DEF RetryRejected, Retried, Block, ResultOf, CallTypeOK
  <2>4. CASE RetrySuspended(p, d)
    BY <1>0, <2>4 DEF RetrySuspended, Retried, Block, ResultOf, CallTypeOK
  <2> QED
    BY <1>1, <2>1, <2>2, <2>3, <2>4 DEF Answer
<1>2. ASSUME NEW i \in Invocations, Proceed(i), result'[c] # result[c]
      PROVE  /\ Open(c) /\ decision'[c] # "none"
             /\ result'[c].status = "ok" => /\ inv[i].pc = "record" /\ inv[i].call = c
                                            /\ inv[i].got = "ok" /\ inv'[i].pc = "idle"
  <2>0. /\ inv[i].call \in Calls /\ inv[i].proc \in Procs /\ MayExecute(inv[i].call)
        /\ UNCHANGED decision
    BY <1>0, <1>2, ProceedFrame, ServedFields DEF GatewayInv, InvocationInv
  <2>1. inv[i].call = c /\ Open(c)
    BY <1>0, <1>2, ProceedFrame
       DEF CheckResult, RefuseToReexecute, RecordOutcome, RecordFailure, Recordable, CallTypeOK
  <2>2. decision'[c] # "none"
    BY <2>0, <2>1 DEF MayExecute
  <2>3. CASE RecordOutcome(i)
    <3>1. inv'[i].pc = "idle"
      BY <1>0, <2>0, <2>3, SettleTypeOK DEF RecordOutcome, Idle
    <3> QED
      BY <1>0, <2>1, <2>2, <2>3, <3>1 DEF RecordOutcome, ResultOf, At, CallTypeOK
  <2>4. CASE CheckResult(i) \/ RefuseToReexecute(i) \/ RecordFailure(i)
    <3>1. result'[c].status = "failed"
      BY <1>0, <1>2, <2>1, <2>4
         DEF CheckResult, RefuseToReexecute, RecordFailure, Refusal, ResultOf, CallTypeOK
    <3> QED
      BY <2>1, <2>2, <3>1
  <2> QED
    BY <1>2, <2>3, <2>4, ProceedFrame
<1>3. ASSUME NEW i \in Invocations, NEW p \in Procs, NEW d \in Calls, Admit(i, p, d)
      PROVE  UNCHANGED result
  BY <1>3 DEF Admit, SubmitAllowed, RetryPermitted, callVars
<1>4. ASSUME NEW p \in Procs, Crash(p) PROVE UNCHANGED result
  BY <1>4 DEF Crash, callVars
<1> QED
  BY <1>1, <1>2, <1>3, <1>4, StepKinds DEF callVars

\* How one invocation moves in a step, its own or another one's.
LEMMA InvocationSteps ==
  ASSUME GatewayInv, [Next]_vars, NEW i \in Invocations
  PROVE  LET c == inv[i].call IN
         \/ inv'[i] = inv[i]
         \/ inv'[i] = Idle
         \/ /\ inv[i].pc = "idle" /\ inv'[i].pc = "guard"
            /\ inv'[i].call \in Calls /\ MayExecute(inv[i].call)'
         \/ /\ inv[i].pc # "idle" /\ inv'[i].call = c
            /\ \/ inv'[i].pc \in {"check", "effect", "joined", "refuse"}
               \/ /\ inv[i].pc = "effect" /\ inv'[i].pc = "start"
                  /\ ~effect[c] /\ effect'[c] /\ UNCHANGED executed
                  /\ \A j \in Invocations \ {i} : inv'[j] = inv[j]
               \/ /\ inv[i].pc = "start" /\ inv'[i].pc = "provider"
                  /\ executed'[c] = executed[c] + 1 /\ UNCHANGED result
               \/ /\ inv[i].pc = "provider" /\ inv'[i].pc = "record"
                  /\ inv'[i].got \in {"ok", "failed"} /\ returned'[c] = inv'[i].got
                  /\ UNCHANGED <<executed, result>>
               \/ /\ inv[i].pc \in {"provider", "record"} /\ inv'[i].pc = "recordFailed"
                  /\ UNCHANGED <<executed, result>>
<1> DEFINE c == inv[i].call
<1>0. CallTypeOK /\ ProcTypeOK /\ ProviderTypeOK /\ TypeOK
  BY DEF GatewayInv, TypeOK
<1>1. ASSUME UNCHANGED inv PROVE inv'[i] = inv[i]
  BY <1>1
<1>2. ASSUME NEW k \in Invocations, NEW p \in Procs, NEW d \in Calls, Admit(k, p, d)
      PROVE  \/ inv'[i] = inv[i]
             \/ /\ inv[i].pc = "idle" /\ inv'[i].pc = "guard"
                /\ inv'[i].call \in Calls /\ MayExecute(inv[i].call)'
  <2>1. CASE SubmitAllowed(k, p, d)
    <3>1. MayExecute(d)'
      BY <1>0, <2>1 DEF SubmitAllowed, MayExecute, CallTypeOK
    <3> QED
      BY <1>0, <2>1, <3>1, EnterTypeOK DEF SubmitAllowed, MayExecute
  <2>2. CASE RetryPermitted(k, p, d)
    <3>1. MayExecute(d)'
      BY <1>0, <2>2, AuthorityStable DEF RetryPermitted
    <3> QED
      BY <1>0, <2>2, <3>1, EnterTypeOK DEF RetryPermitted, MayExecute
  <2> QED
    BY <1>2, <2>1, <2>2 DEF Admit
<1>3. ASSUME NEW k \in Invocations, Proceed(k), k # i
      PROVE  inv'[i] = inv[i] \/ inv'[i] = Idle
  <2>0. inv[k].pc # "idle" /\ inv[k].proc \in Procs
    BY <1>0, <1>3, ProceedFrame, ServedFields
  <2>1. ASSUME NEW step, Goto(k, step) PROVE inv'[i] = inv[i]
    BY <1>0, <1>3, <2>1 DEF Goto, ProcTypeOK
  <2>2. ASSUME Leave(k) PROVE inv'[i] = inv[i]
    BY <1>0, <1>3, <2>2 DEF Leave, ProcTypeOK
  <2>3. ASSUME Settle(k) PROVE inv'[i] = inv[i] \/ inv'[i] = Idle
    BY <1>0, <2>0, <2>3, SettleTypeOK
  <2>4. ASSUME NEW status, ProviderAnswers(k, status) \/ ProviderThrows(k)
        PROVE  inv'[i] = inv[i]
    BY <1>0, <1>3, <2>4 DEF ProviderAnswers, ProviderThrows, ProcTypeOK
  <2> QED
    BY <1>3, <2>1, <2>2, <2>3, <2>4
       DEF Proceed, GuardRun, CheckResult, EnsureEffect, RefuseToReexecute, StartProvider,
           RecordOutcome, RecordRaises, RecordFailure, FailureRaises
<1>4. ASSUME Proceed(i)
      PROVE  \/ inv'[i] = Idle
             \/ /\ inv'[i].call = c
                /\ \/ inv'[i].pc \in {"check", "effect", "joined", "refuse"}
                   \/ /\ inv[i].pc = "effect" /\ inv'[i].pc = "start"
                      /\ ~effect[c] /\ effect'[c] /\ UNCHANGED executed
                      /\ \A j \in Invocations \ {i} : inv'[j] = inv[j]
                   \/ /\ inv[i].pc = "start" /\ inv'[i].pc = "provider"
                      /\ executed'[c] = executed[c] + 1 /\ UNCHANGED result
                   \/ /\ inv[i].pc = "provider" /\ inv'[i].pc = "record"
                      /\ inv'[i].got \in {"ok", "failed"} /\ returned'[c] = inv'[i].got
                      /\ UNCHANGED <<executed, result>>
                   \/ /\ inv[i].pc \in {"provider", "record"} /\ inv'[i].pc = "recordFailed"
                      /\ UNCHANGED <<executed, result>>
  <2>0. inv[i].pc # "idle" /\ c \in Calls /\ inv[i].proc \in Procs /\ inv[i] \in Served
    BY <1>0, <1>4, ProceedFrame, ServedFields DEF ProcTypeOK, Idle
  <2>1. ASSUME NEW step \in Steps \ {"idle"}, Goto(i, step)
        PROVE  /\ inv'[i].pc = step /\ inv'[i].call = c
               /\ \A j \in Invocations \ {i} : inv'[j] = inv[j]
    BY <1>0, <2>0, <2>1, GotoTypeOK
  <2>2. ASSUME Leave(i) \/ Settle(i) PROVE inv'[i] = Idle
    BY <1>0, <2>0, <2>2, LeaveTypeOK, SettleTypeOK
  <2>3. CASE GuardRun(i) \/ CheckResult(i)
    BY <2>1, <2>2, <2>3 DEF GuardRun, CheckResult, Steps, SyncSteps
  <2>4. CASE EnsureEffect(i)
    <3>1. effect'[c] /\ UNCHANGED executed
      BY <1>0, <2>0, <2>4 DEF EnsureEffect, CallTypeOK, providerVars
    <3>2. inv[i].pc = "effect" /\ Goto(i, AfterEffect(inv[i].proc, c))
      BY <2>4 DEF EnsureEffect, At
    <3>3. CASE ~effect[c]
      BY <2>1, <3>1, <3>2, <3>3 DEF AfterEffect, Steps, SyncSteps
    <3>4. CASE effect[c]
      BY <2>1, <3>2, <3>4 DEF AfterEffect, Steps, SyncSteps
    <3> QED
      BY <3>3, <3>4
  <2>5. CASE RefuseToReexecute(i) \/ RecordOutcome(i) \/ RecordFailure(i) \/ FailureRaises(i)
    BY <2>2, <2>5 DEF RefuseToReexecute, RecordOutcome, RecordFailure, FailureRaises
  <2>6. CASE StartProvider(i)
    <3>1. executed'[c] = executed[c] + 1 /\ UNCHANGED result /\ inv[i].pc = "start"
      BY <1>0, <2>0, <2>6 DEF StartProvider, At, ProviderTypeOK, callVars
    <3> QED
      BY <2>1, <2>6, <3>1 DEF StartProvider, Steps
  <2>7. ASSUME NEW status \in {"ok", "failed"}, ProviderAnswers(i, status)
        PROVE  /\ inv[i].pc = "provider" /\ inv'[i].pc = "record" /\ inv'[i].call = c
               /\ inv'[i].got = status /\ returned'[c] = status
               /\ UNCHANGED <<executed, result>>
    BY <1>0, <2>0, <2>7
       DEF ProviderAnswers, At, ProcTypeOK, ProviderTypeOK, Served, callVars
  <2>8. CASE ProviderThrows(i)
    <3>1. /\ inv[i].pc = "provider" /\ inv'[i].pc = "recordFailed" /\ inv'[i].call = c
          /\ UNCHANGED <<executed, result>>
      BY <1>0, <2>0, <2>8 DEF ProviderThrows, At, ProcTypeOK, Served, callVars
    <3> QED
      BY <3>1
  <2>9. CASE RecordRaises(i)
    BY <2>1, <2>9 DEF RecordRaises, At, Steps, SyncSteps, callVars, providerVars
  <2> QED
    BY <1>4, <2>3, <2>4, <2>5, <2>6, <2>7, <2>8, <2>9 DEF Proceed
<1>5. ASSUME NEW p \in Procs, Crash(p) PROVE inv'[i] = inv[i] \/ inv'[i] = Idle
  BY <1>0, <1>5 DEF Crash
<1>6. ASSUME NEW p \in Procs, NEW d \in Calls, Answer(p, d) PROVE UNCHANGED inv
  BY <1>6 DEF Answer, SubmitBlocked, SubmitForApproval, RetryRejected, RetrySuspended, procVars
<1>7. CASE Proceed(i)
  BY <1>4, <1>7, ProceedFrame
<1> QED
  BY <1>1, <1>2, <1>3, <1>5, <1>6, <1>7, StepKinds DEF procVars

\* The invariant of executions is inductive.
LEMMA GatewayInvPreserved == GatewayInv /\ [Next]_vars => GatewayInv'
<1> SUFFICES ASSUME GatewayInv, [Next]_vars PROVE GatewayInv'
  OBVIOUS
<1>0. TypeOK /\ TypeOK'
  BY GatewayTypePreserved DEF GatewayInv
<1>1. \A c \in Calls : MayExecute(c) => MayExecute(c)'
  BY <1>0, AuthorityStable
<1>2. ASSUME NEW c \in Calls PROVE CallInv(c)'
  <2>0. CallInv(c)
    BY DEF GatewayInv
  <2>1. decision'[c] # "require_approval" => approvals'[c].status = "absent"
    <3> SUFFICES ASSUME decision'[c] # "require_approval", approvals'[c].status # "absent"
                 PROVE  FALSE
      OBVIOUS
    <3>1. approvals[c].status = "absent"
      BY <1>0, <2>0, DecisionStable DEF TypeOK, CallInv
    <3>2. PICK p \in Procs : SubmitForApproval(p, c)
      BY <1>0, <3>1, QueueStepsApprovals DEF TypeOK
    <3> QED
      BY <1>0, <3>2 DEF SubmitForApproval, TypeOK, CallTypeOK
  <2>2. ~Open(c)' => decision'[c] # "none"
    <3>1. CASE result'[c] = result[c]
      BY <1>0, <2>0, <3>1, DecisionStable DEF CallInv, Open, TypeOK
    <3>2. CASE result'[c] # result[c]
      BY <3>2, ResultSteps
    <3> QED
      BY <3>1, <3>2
  <2>3. effect[c] => effect'[c]
    BY <1>0, EffectSteps
  <2>4. effect'[c] => MayExecute(c)'
    <3>1. CASE effect[c]
      BY <1>1, <2>0, <3>1 DEF CallInv
    <3>2. ASSUME NEW i \in Invocations, inv[i].pc = "effect", inv[i].call = c
          PROVE  MayExecute(c)'
      BY <1>1, <3>2 DEF GatewayInv, InvocationInv
    <3> QED
      BY <1>0, <3>1, <3>2, EffectSteps
  <2>5. executed'[c] <= 1 /\ (executed'[c] = 1 => effect'[c])
    <3>1. CASE executed'[c] = executed[c]
      BY <2>0, <2>3, <3>1 DEF CallInv
    <3>2. ASSUME NEW i \in Invocations, inv[i].pc = "start", inv[i].call = c,
                 executed'[c] = executed[c] + 1
          PROVE  executed'[c] <= 1 /\ effect'[c]
      BY <2>3, <3>2 DEF GatewayInv, InvocationInv
    <3> QED
      BY <1>0, <3>1, <3>2, ProviderSteps
  <2>6. result'[c].status = "ok" => executed'[c] = 1 /\ returned'[c] = "ok"
    <3> SUFFICES ASSUME result'[c].status = "ok" PROVE executed'[c] = 1 /\ returned'[c] = "ok"
      OBVIOUS
    <3>1. CASE result'[c] = result[c]
      <4>1. executed[c] = 1 /\ returned[c] = "ok"
        BY <2>0, <3>1 DEF CallInv
      <4>2. \A i \in Invocations : inv[i].call = c => inv[i].pc \notin {"start", "provider"}
        BY <3>1, <4>1 DEF GatewayInv, InvocationInv, Started, Executing
      <4> QED
        BY <1>0, <4>1, <4>2, ProviderSteps
    <3>2. CASE result'[c] # result[c]
      <4>1. PICK i \in Invocations : /\ inv[i].pc = "record" /\ inv[i].call = c
                                     /\ inv[i].got = "ok" /\ inv'[i].pc = "idle"
        BY <3>2, ResultSteps
      <4>2. executed[c] = 1 /\ returned[c] = "ok"
        BY <4>1 DEF GatewayInv, InvocationInv, Started, Executing
      <4>3. ASSUME NEW j \in Invocations, inv[j].call = c, inv[j].pc \in {"start", "provider"}
            PROVE  FALSE
        BY <4>1, <4>3 DEF GatewayInv, OneExecutor, Executing
      <4> QED
        BY <1>0, <4>2, <4>3, ProviderSteps
    <3> QED
      BY <3>1, <3>2
  <2> QED
    BY <2>1, <2>2, <2>4, <2>5, <2>6 DEF CallInv
<1>3. ASSUME NEW i \in Invocations PROVE InvocationInv(i)'
  <2> DEFINE c == inv[i].call
  <2>0. InvocationInv(i)
    BY DEF GatewayInv
  <2>1. CASE inv'[i] = inv[i] /\ inv[i].pc # "idle"
    <3>0. c \in Calls
      BY <1>0, <2>1, ServedFields DEF TypeOK
    <3>1. MayExecute(inv[i].call)'
      BY <1>1, <2>0, <2>1, <3>0 DEF InvocationInv, MayExecute
    <3>2. ASSUME inv[i].pc \in Executing, NEW j \in Invocations,
                 inv[j].call = c, inv[j].pc \in Executing
          PROVE  j = i
      BY <3>2 DEF GatewayInv, OneExecutor
    <3>3. inv[i].pc = "start" => effect'[c] /\ executed'[c] = 0
      BY <1>0, <2>0, <2>1, <3>0, <3>2, EffectSteps, ProviderSteps DEF InvocationInv, Executing
    <3>4. inv[i].pc \in Started => executed'[c] = 1 /\ result'[c].status # "ok"
      BY <1>0, <2>0, <2>1, <3>0, <3>2, ResultSteps, ProviderSteps
         DEF InvocationInv, Started, Executing
    <3>5. inv[i].pc = "record" => returned'[c] = inv[i].got
      BY <1>0, <2>0, <2>1, <3>0, <3>2, ProviderSteps DEF InvocationInv, Executing
    <3> QED
      BY <2>0, <2>1, <3>1, <3>3, <3>4, <3>5 DEF InvocationInv
  <2>2. CASE inv'[i].pc = "idle"
    BY <2>2 DEF InvocationInv, Started, Executing
  <2>3. CASE inv'[i].pc = "guard" /\ MayExecute(inv[i].call)'
    BY <2>3 DEF InvocationInv, Started, Executing
  <2>4. CASE inv[i].pc # "idle" /\ inv'[i].call = c /\ inv'[i].pc # "idle"
    <3>0. c \in Calls /\ CallInv(c)
      BY <1>0, <2>4, ServedFields DEF TypeOK, GatewayInv
    <3>1. MayExecute(inv[i].call)'
      BY <1>1, <2>0, <2>4, <3>0 DEF InvocationInv, MayExecute
    <3>2. CASE inv'[i].pc \in {"check", "effect", "joined", "refuse"}
      BY <3>1, <3>2 DEF InvocationInv, Started, Executing
    <3>3. CASE inv'[i].pc = "start" /\ ~effect[c] /\ effect'[c] /\ UNCHANGED executed
      <4>1. executed[c] = 0
        BY <1>0, <3>0, <3>3 DEF CallInv, TypeOK, ProviderTypeOK
      <4> QED
        BY <2>4, <3>1, <3>3, <4>1 DEF InvocationInv, Started, Executing
    <3>4. CASE /\ inv[i].pc = "start" /\ inv'[i].pc = "provider"
               /\ executed'[c] = executed[c] + 1 /\ UNCHANGED result
      <4>1. executed[c] = 0 /\ result[c].status # "ok"
        BY <2>0, <3>0, <3>4 DEF InvocationInv, CallInv
      <4> QED
        BY <2>4, <3>1, <3>4, <4>1 DEF InvocationInv, Started, Executing
    <3>5. CASE /\ inv[i].pc = "provider" /\ inv'[i].pc = "record"
               /\ inv'[i].got \in {"ok", "failed"} /\ returned'[c] = inv'[i].got
               /\ UNCHANGED <<executed, result>>
      BY <2>0, <2>4, <3>1, <3>5 DEF InvocationInv, Started, Executing
    <3>6. CASE /\ inv[i].pc \in {"provider", "record"} /\ inv'[i].pc = "recordFailed"
               /\ UNCHANGED <<executed, result>>
      BY <2>0, <2>4, <3>1, <3>6 DEF InvocationInv, Started, Executing
    <3>7. CASE inv'[i] = inv[i] \/ inv'[i] = Idle
      BY <2>1, <2>4, <3>7 DEF Idle
    <3> QED
      BY <2>4, <3>2, <3>3, <3>4, <3>5, <3>6, <3>7, InvocationSteps
  <2> QED
    BY <2>1, <2>2, <2>3, <2>4, InvocationSteps DEF Idle
<1>4. OneExecutor'
  <2>1. ASSUME NEW i \in Invocations, inv'[i].pc \in Executing
        PROVE  /\ inv'[i].call = inv[i].call
               /\ \/ inv[i].pc \in Executing
                  \/ /\ inv[i].pc = "effect" /\ ~effect[inv[i].call]
                     /\ \A j \in Invocations \ {i} : inv'[j] = inv[j]
    BY <2>1, InvocationSteps DEF Executing, Idle
  <2>2. ASSUME NEW i \in Invocations, inv[i].pc \in Executing
        PROVE  effect[inv[i].call]
    <3>1. inv[i].call \in Calls
      BY <1>0, <2>2, ServedFields DEF TypeOK, Executing
    <3> QED
      BY <2>2, <3>1 DEF GatewayInv, InvocationInv, CallInv, Started
  <2> SUFFICES ASSUME NEW i \in Invocations, NEW j \in Invocations,
                      inv'[i].pc \in Executing, inv'[j].pc \in Executing,
                      inv'[i].call = inv'[j].call
               PROVE  i = j
    BY DEF OneExecutor, Executing
  <2>3. CASE inv[i].pc \in Executing /\ inv[j].pc \in Executing
    BY <2>1, <2>3 DEF GatewayInv, OneExecutor
  <2>4. CASE inv[i].pc \notin Executing
    BY <2>1, <2>2, <2>4 DEF Executing
  <2>5. CASE inv[j].pc \notin Executing
    BY <2>1, <2>2, <2>5 DEF Executing
  <2> QED
    BY <2>3, <2>4, <2>5
<1> QED
  BY <1>0, <1>2, <1>3, <1>4 DEF GatewayInv

\* The invariant of executions holds in every reachable state.
LEMMA GatewayInvHolds == Spec => []GatewayInv
<1>1. Init => GatewayInv
  <2> SUFFICES ASSUME Init PROVE GatewayInv
    OBVIOUS
  <2>1. TypeOK
    BY GatewayInit
  <2>2. \A c \in Calls : /\ decision[c] = "none" /\ result[c] = NoResult /\ ~effect[c]
                         /\ executed[c] = 0 /\ approvals[c].status = "absent"
    BY DEF Init, Queue!Init, Queue!StoreInit, Queue!AbsentApproval
  <2>3. \A i \in Invocations : inv[i].pc = "idle"
    BY DEF Init, Idle
  <2>4. \A c \in Calls : CallInv(c)
    BY <2>2 DEF CallInv, Open, NoResult
  <2>5. (\A i \in Invocations : InvocationInv(i)) /\ OneExecutor
    BY <2>3 DEF InvocationInv, OneExecutor, Started, Executing
  <2> QED
    BY <2>1, <2>4, <2>5 DEF GatewayInv
<1> QED
  BY <1>1, GatewayInvPreserved, PTL DEF Spec

\* A provider is started at most once per call, only with the authority of the policy
\* or of a human, and an ok result is only claimed for a provider that answered ok,
\* through retries, duplicates, crashes and several processes (registry.ts:557-624).
THEOREM GatewaySafety == Spec => [](AtMostOnce /\ OnlyAuthorisedExecute /\ OkMeansPerformed)
<1>1. GatewayInv => AtMostOnce /\ OkMeansPerformed
  BY DEF GatewayInv, CallInv, AtMostOnce, OkMeansPerformed
<1>2. GatewayInv => OnlyAuthorisedExecute
  <2> SUFFICES ASSUME GatewayInv, NEW c \in Calls, executed[c] > 0
               PROVE  PermissionOf(c) = "granted"
    BY DEF OnlyAuthorisedExecute
  <2>1. MayExecute(c) /\ CallInv(c)
    BY DEF GatewayInv, CallInv, TypeOK, ProviderTypeOK
  <2> QED
    BY <2>1 DEF MayExecute, CallInv, PermissionOf
<1> QED
  BY <1>1, <1>2, GatewayInvHolds, PTL

\* Once a call has a result no duplicate, late answer or crash changes it
\* (persistence/capabilities.ts: record).
THEOREM FinalResults == Spec => ResultIsFinal
<1>1. GatewayInv /\ [Next]_vars => \A c \in Calls : ~Open(c) => result'[c] = result[c]
  BY ResultSteps
<1> QED
  BY <1>1, GatewayInvHolds, PTL DEF Spec, ResultIsFinal

-------------------------------------------------------------------------------
(* The map of promises.                                                    *)

Holds(i, p, c) == inv[i].proc = p /\ inv[i].call = c /\ inv[i].pc \in Started
Shares(i, j) == inv[i].proc = inv[j].proc
Pending(i) == inv[i].call \in inflight[inv[i].proc]

\* An event loop runs one invocation at a time; a process holds the promise of a call
\* exactly while one of its invocations is between the start of the provider and the
\* recording; duplicates wait on such a promise, and a refusal is decided without one.
LoopsAreAlone ==
    \A i, j \in Invocations :
        inv[i].pc \in SyncSteps /\ inv[j].pc \in SyncSteps /\ Shares(i, j) => i = j
PromisesHeld ==
    \A p \in Procs, c \in Calls : c \in inflight[p] <=> \E i \in Invocations : Holds(i, p, c)
JoinedPending == \A i \in Invocations : inv[i].pc = "joined" => Pending(i)
RefusedPending == \A i \in Invocations : inv[i].pc = "refuse" => ~Pending(i)

PromiseInv == LoopsAreAlone /\ PromisesHeld /\ JoinedPending /\ RefusedPending

\* The steps before the provider starts and after which nothing is awaited.
Before == {"guard", "check", "effect", "refuse"}

\* A step of executeProvider before the provider starts keeps the map: a duplicate joins
\* what is in it, and refuses what is not (registry.ts: executeProvider).
LEMMA BeforeSteps ==
  ASSUME TypeOK, NEW i \in Invocations,
         GuardRun(i) \/ CheckResult(i) \/ EnsureEffect(i) \/ RefuseToReexecute(i)
  PROVE  /\ inv[i].pc \in Before /\ UNCHANGED inflight
         /\ \A j \in Invocations \ {i} : inv'[j] = inv[j]
         /\ \/ inv'[i] = Idle
            \/ /\ inv'[i].call = inv[i].call /\ inv'[i].proc = inv[i].proc
               /\ \/ inv'[i].pc \in {"check", "effect", "start"}
                  \/ inv'[i].pc = "joined" /\ Pending(i)
                  \/ inv'[i].pc = "refuse" /\ ~Pending(i)
<1>0. ProcTypeOK /\ inv[i].pc # "idle"
  BY DEF TypeOK, GuardRun, CheckResult, EnsureEffect, RefuseToReexecute, At
<1>1. ASSUME NEW step \in Steps \ {"idle"}, Goto(i, step)
      PROVE  /\ inv'[i].pc = step /\ inv'[i].call = inv[i].call /\ inv'[i].proc = inv[i].proc
             /\ \A j \in Invocations \ {i} : inv'[j] = inv[j]
  BY <1>0, <1>1, GotoTypeOK
<1>2. ASSUME Leave(i) PROVE inv'[i] = Idle /\ \A j \in Invocations \ {i} : inv'[j] = inv[j]
  BY <1>0, <1>2, LeaveTypeOK
<1>3. CASE GuardRun(i)
  BY <1>1, <1>2, <1>3 DEF GuardRun, At, Before, Steps, SyncSteps
<1>4. CASE CheckResult(i)
  BY <1>1, <1>2, <1>4 DEF CheckResult, At, Before, Steps, SyncSteps
<1>5. CASE EnsureEffect(i)
  BY <1>1, <1>5 DEF EnsureEffect, AfterEffect, Pending, At, Before, Steps, SyncSteps
<1>6. CASE RefuseToReexecute(i)
  BY <1>2, <1>6 DEF RefuseToReexecute, At, Before
<1> QED
  BY <1>3, <1>4, <1>5, <1>6

\* An awaited answer, or a recording that raised, leads to a recording, without a change
\* to the map (registry.ts: the try and catch blocks around the provider).
LEMMA AnswerSteps ==
  ASSUME TypeOK, NEW i \in Invocations,
         \/ \E status \in {"ok", "failed"} : ProviderAnswers(i, status)
         \/ ProviderThrows(i)
         \/ RecordRaises(i)
  PROVE  /\ inv[i].pc \in {"provider", "record"} /\ inv'[i].pc \in {"record", "recordFailed"}
         /\ inv[i].pc = "provider" => Free(inv[i].proc)
         /\ inv'[i].call = inv[i].call /\ inv'[i].proc = inv[i].proc
         /\ \A j \in Invocations \ {i} : inv'[j] = inv[j]
         /\ UNCHANGED inflight
<1>0. ProcTypeOK /\ inv[i].pc # "idle" /\ inv[i] \in Served
  BY DEF TypeOK, ProcTypeOK, Idle, ProviderAnswers, ProviderThrows, RecordRaises, At
<1>1. CASE RecordRaises(i)
  BY <1>0, <1>1, GotoTypeOK DEF RecordRaises, At, Steps, SyncSteps
<1>2. ASSUME NEW status \in {"ok", "failed"}, ProviderAnswers(i, status)
      PROVE  /\ inv[i].pc = "provider" /\ inv'[i].pc = "record" /\ Free(inv[i].proc)
             /\ inv'[i].call = inv[i].call /\ inv'[i].proc = inv[i].proc
             /\ \A j \in Invocations \ {i} : inv'[j] = inv[j]
             /\ UNCHANGED inflight
  BY <1>0, <1>2 DEF ProviderAnswers, At, ProcTypeOK, Served
<1>3. CASE ProviderThrows(i)
  BY <1>0, <1>3 DEF ProviderThrows, At, ProcTypeOK, Served
<1> QED
  BY <1>1, <1>2, <1>3

\* A settled promise leaves the map with its invocation and everybody who waits on it.
LEMMA SettleSteps ==
  ASSUME TypeOK, NEW i \in Invocations,
         RecordOutcome(i) \/ RecordFailure(i) \/ FailureRaises(i)
  PROVE  /\ inv[i].pc \in {"record", "recordFailed"} /\ Settle(i)
         /\ inv[i].proc \in Procs /\ inv[i].call \in Calls
         /\ inflight' = [inflight EXCEPT ![inv[i].proc] = @ \ {inv[i].call}]
         /\ \A j \in Invocations :
               IF j = i \/ (inv[j].pc = "joined" /\ inv[j].call = inv[i].call /\ Shares(i, j))
               THEN inv'[j] = Idle
               ELSE inv'[j] = inv[j]
<1>1. inv[i].pc \in {"record", "recordFailed"} /\ Settle(i)
  BY DEF RecordOutcome, RecordFailure, FailureRaises, At
<1> QED
  BY <1>1, ServedFields DEF TypeOK, Settle, Forget, Joined, Shares

\* Every way the promises and the invocations of a step can move.
LEMMA PromiseSteps ==
  ASSUME [Next]_vars
  PROVE  \/ UNCHANGED <<inflight, inv>>
         \/ \E i \in Invocations, p \in Procs, c \in Calls : Enter(i, p, c)
         \/ \E i \in Invocations :
               GuardRun(i) \/ CheckResult(i) \/ EnsureEffect(i) \/ RefuseToReexecute(i)
         \/ \E i \in Invocations : StartProvider(i)
         \/ \E i \in Invocations :
               \/ \E status \in {"ok", "failed"} : ProviderAnswers(i, status)
               \/ ProviderThrows(i)
               \/ RecordRaises(i)
         \/ \E i \in Invocations : RecordOutcome(i) \/ RecordFailure(i) \/ FailureRaises(i)
         \/ \E p \in Procs : Crash(p)
<1>1. ASSUME NEW p \in Procs, NEW c \in Calls, Answer(p, c) PROVE UNCHANGED <<inflight, inv>>
  BY <1>1 DEF Answer, SubmitBlocked, SubmitForApproval, RetryRejected, RetrySuspended, procVars
<1>2. ASSUME NEW i \in Invocations, NEW p \in Procs, NEW c \in Calls, Admit(i, p, c)
      PROVE  Enter(i, p, c)
  BY <1>2 DEF Admit, SubmitAllowed, RetryPermitted
<1> QED
  BY <1>1, <1>2, StepKinds DEF Proceed, procVars

\* The map of promises and those who wait on it stay in agreement.
LEMMA PromiseInvPreserved == GatewayInv /\ PromiseInv /\ [Next]_vars => PromiseInv'
<1> SUFFICES ASSUME GatewayInv, PromiseInv, [Next]_vars PROVE PromiseInv'
  OBVIOUS
<1>0. TypeOK /\ ProcTypeOK /\ OneExecutor
  BY DEF GatewayInv, TypeOK
<1>1. CASE UNCHANGED <<inflight, inv>>
  BY <1>1 DEF PromiseInv, LoopsAreAlone, PromisesHeld, JoinedPending, RefusedPending, Pending,
              Holds, Shares
<1>2. ASSUME NEW i \in Invocations, NEW p \in Procs, NEW c \in Calls, Enter(i, p, c)
      PROVE  PromiseInv'
  <2>1. /\ inv[i].pc = "idle" /\ inv'[i].pc = "guard" /\ inv'[i].proc = p
        /\ \A j \in Invocations \ {i} : inv'[j] = inv[j]
        /\ UNCHANGED inflight /\ Free(p)
    BY <1>0, <1>2 DEF Enter, ProcTypeOK
  <2>2. LoopsAreAlone'
    BY <2>1 DEF PromiseInv, LoopsAreAlone, Shares, Free
  <2>3. \A j \in Invocations, q \in Procs, d \in Calls : Holds(j, q, d)' <=> Holds(j, q, d)
    BY <2>1 DEF Holds, Started, Executing
  <2>4. PromisesHeld'
    BY <2>1, <2>3 DEF PromiseInv, PromisesHeld
  <2>5. JoinedPending' /\ RefusedPending'
    BY <2>1 DEF PromiseInv, JoinedPending, RefusedPending, Pending
  <2> QED
    BY <2>2, <2>4, <2>5 DEF PromiseInv
<1>3. ASSUME NEW i \in Invocations,
             GuardRun(i) \/ CheckResult(i) \/ EnsureEffect(i) \/ RefuseToReexecute(i)
      PROVE  PromiseInv'
  <2>1. /\ inv[i].pc \in Before /\ UNCHANGED inflight
        /\ \A j \in Invocations \ {i} : inv'[j] = inv[j]
        /\ \/ inv'[i] = Idle
           \/ /\ inv'[i].call = inv[i].call /\ inv'[i].proc = inv[i].proc
              /\ \/ inv'[i].pc \in {"check", "effect", "start"}
                 \/ inv'[i].pc = "joined" /\ Pending(i)
                 \/ inv'[i].pc = "refuse" /\ ~Pending(i)
    BY <1>0, <1>3, BeforeSteps
  <2>2. LoopsAreAlone'
    BY <2>1 DEF PromiseInv, LoopsAreAlone, Shares, SyncSteps, Before, Idle
  <2>3. \A j \in Invocations, q \in Procs, d \in Calls : Holds(j, q, d)' <=> Holds(j, q, d)
    BY <2>1 DEF Holds, Started, Executing, Before, Idle
  <2>4. PromisesHeld'
    BY <2>1, <2>3 DEF PromiseInv, PromisesHeld
  <2>5. JoinedPending' /\ RefusedPending'
    BY <2>1 DEF PromiseInv, JoinedPending, RefusedPending, Pending, Idle
  <2> QED
    BY <2>2, <2>4, <2>5 DEF PromiseInv
<1>4. ASSUME NEW i \in Invocations, StartProvider(i)
      PROVE  PromiseInv'
  <2> DEFINE p == inv[i].proc
             c == inv[i].call
  <2>0. inv[i].pc = "start" /\ p \in Procs /\ c \in Calls
    BY <1>0, <1>4, ServedFields DEF StartProvider, At
  <2>1. /\ inv'[i].pc = "provider" /\ inv'[i].call = c /\ inv'[i].proc = p
        /\ \A j \in Invocations \ {i} : inv'[j] = inv[j]
        /\ inflight' = [inflight EXCEPT ![p] = @ \cup {c}]
    BY <1>0, <1>4, <2>0, GotoTypeOK DEF StartProvider, Steps
  <2>2. LoopsAreAlone'
    BY <2>1 DEF PromiseInv, LoopsAreAlone, Shares, SyncSteps
  <2>3. \A q \in Procs, d \in Calls : d \in inflight'[q] <=> d \in inflight[q] \/ (q = p /\ d = c)
    BY <1>0, <2>0, <2>1 DEF ProcTypeOK
  <2>4. \A j \in Invocations, q \in Procs, d \in Calls :
            Holds(j, q, d)' <=> Holds(j, q, d) \/ (j = i /\ q = p /\ d = c)
    BY <2>0, <2>1 DEF Holds, Started, Executing
  <2>5. PromisesHeld'
    BY <2>3, <2>4 DEF PromiseInv, PromisesHeld
  <2>6. JoinedPending'
    <3>1. ASSUME NEW j \in Invocations, inv'[j].pc = "joined" PROVE Pending(j)'
      <4>1. inv'[j] = inv[j] /\ j # i
        BY <2>1, <3>1
      <4>2. inv[j].proc \in Procs /\ inv[j].call \in Calls
        BY <1>0, <3>1, <4>1, ServedFields
      <4> QED
        BY <2>3, <3>1, <4>1, <4>2 DEF PromiseInv, JoinedPending, Pending
    <3> QED
      BY <3>1 DEF JoinedPending
  <2>7. RefusedPending'
    <3>1. ASSUME NEW j \in Invocations, inv'[j].pc = "refuse" PROVE ~Pending(j)'
      <4>1. inv'[j] = inv[j] /\ j # i
        BY <2>1, <3>1
      <4>2. inv[j].proc \in Procs /\ inv[j].call \in Calls /\ inv[j].proc # p
        BY <1>0, <2>0, <3>1, <4>1, ServedFields DEF PromiseInv, LoopsAreAlone, Shares, SyncSteps
      <4> QED
        BY <2>3, <3>1, <4>1, <4>2 DEF PromiseInv, RefusedPending, Pending
    <3> QED
      BY <3>1 DEF RefusedPending
  <2> QED
    BY <2>2, <2>5, <2>6, <2>7 DEF PromiseInv
<1>5. ASSUME NEW i \in Invocations,
             \/ \E status \in {"ok", "failed"} : ProviderAnswers(i, status)
             \/ ProviderThrows(i)
             \/ RecordRaises(i)
      PROVE  PromiseInv'
  <2>1. /\ inv[i].pc \in {"provider", "record"} /\ inv'[i].pc \in {"record", "recordFailed"}
        /\ inv[i].pc = "provider" => Free(inv[i].proc)
        /\ inv'[i].call = inv[i].call /\ inv'[i].proc = inv[i].proc
        /\ \A j \in Invocations \ {i} : inv'[j] = inv[j]
        /\ UNCHANGED inflight
    BY <1>0, <1>5, AnswerSteps
  <2>2. LoopsAreAlone'
    BY <2>1 DEF PromiseInv, LoopsAreAlone, Shares, SyncSteps, Free
  <2>3. \A j \in Invocations, q \in Procs, d \in Calls : Holds(j, q, d)' <=> Holds(j, q, d)
    BY <2>1 DEF Holds, Started, Executing
  <2>4. PromisesHeld'
    BY <2>1, <2>3 DEF PromiseInv, PromisesHeld
  <2>5. JoinedPending' /\ RefusedPending'
    BY <2>1 DEF PromiseInv, JoinedPending, RefusedPending, Pending
  <2> QED
    BY <2>2, <2>4, <2>5 DEF PromiseInv
<1>6. ASSUME NEW i \in Invocations, RecordOutcome(i) \/ RecordFailure(i) \/ FailureRaises(i)
      PROVE  PromiseInv'
  <2> DEFINE p == inv[i].proc
             c == inv[i].call
  <2>1. /\ inv[i].pc \in {"record", "recordFailed"} /\ p \in Procs /\ c \in Calls
        /\ inflight' = [inflight EXCEPT ![p] = @ \ {c}]
        /\ \A j \in Invocations :
              IF j = i \/ (inv[j].pc = "joined" /\ inv[j].call = c /\ Shares(i, j))
              THEN inv'[j] = Idle
              ELSE inv'[j] = inv[j]
    BY <1>0, <1>6, SettleSteps
  <2>2. LoopsAreAlone'
    BY <2>1 DEF PromiseInv, LoopsAreAlone, Shares, SyncSteps, Idle
  <2>3. \A q \in Procs, d \in Calls : d \in inflight'[q] <=> d \in inflight[q] /\ ~(q = p /\ d = c)
    BY <1>0, <2>1 DEF ProcTypeOK
  <2>4. \A j \in Invocations, q \in Procs, d \in Calls :
            Holds(j, q, d)' <=> Holds(j, q, d) /\ ~(q = p /\ d = c)
    <3>1. ASSUME NEW j \in Invocations, Holds(j, p, c) PROVE j = i
      BY <1>0, <2>1, <3>1 DEF OneExecutor, Holds, Started, Executing
    <3> QED
      BY <2>1, <3>1 DEF Holds, Started, Executing, Idle
  <2>5. PromisesHeld'
    BY <2>3, <2>4 DEF PromiseInv, PromisesHeld
  <2>6. JoinedPending'
    <3>1. ASSUME NEW j \in Invocations, inv'[j].pc = "joined" PROVE Pending(j)'
      <4>1. inv'[j] = inv[j] /\ ~(inv[j].call = c /\ inv[j].proc = p)
        BY <2>1, <3>1 DEF Idle, Shares
      <4>2. inv[j].proc \in Procs /\ inv[j].call \in Calls
        BY <1>0, <3>1, <4>1, ServedFields
      <4> QED
        BY <2>3, <3>1, <4>1, <4>2 DEF PromiseInv, JoinedPending, Pending
    <3> QED
      BY <3>1 DEF JoinedPending
  <2>7. RefusedPending'
    <3>1. ASSUME NEW j \in Invocations, inv'[j].pc = "refuse" PROVE ~Pending(j)'
      <4>1. inv'[j] = inv[j]
        BY <2>1, <3>1 DEF Idle
      <4>2. inv[j].proc \in Procs /\ inv[j].call \in Calls
        BY <1>0, <3>1, <4>1, ServedFields
      <4> QED
        BY <2>3, <3>1, <4>1, <4>2 DEF PromiseInv, RefusedPending, Pending
    <3> QED
      BY <3>1 DEF RefusedPending
  <2> QED
    BY <2>2, <2>5, <2>6, <2>7 DEF PromiseInv
<1>7. ASSUME NEW p \in Procs, Crash(p)
      PROVE  PromiseInv'
  <2>1. /\ \A j \in Invocations : inv'[j] = IF inv[j].proc = p THEN Idle ELSE inv[j]
        /\ \A q \in Procs : inflight'[q] = IF q = p THEN {} ELSE inflight[q]
    BY <1>0, <1>7 DEF Crash, ProcTypeOK
  <2>2. LoopsAreAlone'
    BY <2>1 DEF PromiseInv, LoopsAreAlone, Shares, SyncSteps, Idle
  <2>3. \A j \in Invocations, q \in Procs, d \in Calls :
            Holds(j, q, d)' <=> Holds(j, q, d) /\ q # p
    BY <2>1 DEF Holds, Started, Executing, Idle
  <2>4. PromisesHeld'
    BY <2>1, <2>3 DEF PromiseInv, PromisesHeld
  <2>5. ASSUME NEW j \in Invocations, inv'[j].pc # "idle"
        PROVE  inv'[j] = inv[j] /\ (Pending(j)' <=> Pending(j))
    <3>1. inv'[j] = inv[j] /\ inv[j].proc # p
      BY <2>1, <2>5 DEF Idle
    <3>2. inv[j].proc \in Procs
      BY <1>0, <2>5, <3>1, ServedFields
    <3> QED
      BY <2>1, <3>1, <3>2 DEF Pending
  <2>6. JoinedPending' /\ RefusedPending'
    BY <2>5 DEF PromiseInv, JoinedPending, RefusedPending
  <2> QED
    BY <2>2, <2>4, <2>6 DEF PromiseInv
<1> QED
  BY <1>1, <1>2, <1>3, <1>4, <1>5, <1>6, <1>7, PromiseSteps

\* The map of promises agrees with the invocations in every reachable state.
LEMMA PromiseInvHolds == Spec => []PromiseInv
<1>1. Init => PromiseInv
  <2> SUFFICES ASSUME Init PROVE PromiseInv
    OBVIOUS
  <2>1. /\ \A i \in Invocations : inv[i].pc = "idle"
        /\ \A p \in Procs : inflight[p] = {}
    BY DEF Init, Idle
  <2> QED
    BY <2>1 DEF PromiseInv, LoopsAreAlone, PromisesHeld, JoinedPending, RefusedPending, Holds,
                Started, Executing, SyncSteps
<1> QED
  BY <1>1, GatewayInvHolds, PromiseInvPreserved, PTL DEF Spec

\* Every promise in the in-flight map belongs to the one invocation that awaits or records
\* its execution, and nobody waits on a promise that is gone (registry.ts:563-624).
THEOREM PromisesOwned == Spec => []PromisesHaveOwners
<1>1. GatewayInv /\ PromiseInv => PromisesHaveOwners
  <2> SUFFICES ASSUME GatewayInv, PromiseInv PROVE PromisesHaveOwners
    OBVIOUS
  <2>1. ASSUME NEW p \in Procs, NEW c \in Calls
        PROVE  c \in inflight[p] <=>
                   Cardinality({i \in Invocations :
                       /\ inv[i].proc = p /\ inv[i].call = c
                       /\ inv[i].pc \in {"provider", "record", "recordFailed"}}) = 1
    <3> DEFINE holders == {i \in Invocations :
                              /\ inv[i].proc = p /\ inv[i].call = c
                              /\ inv[i].pc \in {"provider", "record", "recordFailed"}}
    <3>1. \A i \in Invocations : i \in holders <=> Holds(i, p, c)
      BY DEF Holds, Started, Executing
    <3>2. CASE c \in inflight[p]
      <4>1. PICK i \in Invocations : Holds(i, p, c)
        BY <3>2 DEF PromiseInv, PromisesHeld
      <4>2. \A j \in holders : j = i
        BY <3>1, <4>1 DEF GatewayInv, OneExecutor, Holds, Started
      <4>3. holders = {i}
        BY <3>1, <4>1, <4>2
      <4>4. Cardinality(holders) = 1
        BY <4>3, FS_Singleton
      <4> QED
        BY <3>2, <4>4
    <3>3. CASE c \notin inflight[p]
      <4>1. holders = {}
        BY <3>1, <3>3 DEF PromiseInv, PromisesHeld
      <4>2. Cardinality(holders) = 0
        BY <4>1, FS_EmptySet
      <4> QED
        BY <3>3, <4>2
    <3> QED
      BY <3>2, <3>3
  <2> QED
    BY <2>1 DEF PromisesHaveOwners, PromiseInv, JoinedPending, Pending
<1> QED
  BY <1>1, GatewayInvHolds, PromiseInvHolds, PTL

\* A call is refused re-execution only by a process that neither starts nor awaits its
\* provider: the execution was lost with another process or an earlier life (registry.ts:576).
THEOREM RefusalsAreLosses == Spec => RefusedMeansLost
<1>1. ASSUME GatewayInv, PromiseInv, [Next]_vars, NEW c \in Calls,
             result'[c] # result[c], result'[c].why = "refused"
      PROVE  \E i \in Invocations :
                /\ inv[i].call = c /\ inv'[i].pc = "idle" /\ inv[i].pc # "idle"
                /\ \A j \in Invocations :
                      (inv[j].call = c /\ inv[j].proc = inv[i].proc)
                          => inv[j].pc \notin {"start", "provider"}
  <2>0. TypeOK /\ CallTypeOK /\ ProcTypeOK
    BY <1>1 DEF GatewayInv, TypeOK
  <2>1. PICK i \in Invocations : RefuseToReexecute(i) /\ inv[i].call = c
    <3>1. ASSUME NEW p \in Procs, NEW d \in Calls, Answer(p, d) PROVE FALSE
      BY <1>1, <2>0, <3>1
         DEF Answer, SubmitBlocked, SubmitForApproval, RetryRejected, RetrySuspended, Block,
             ResultOf, CallTypeOK
    <3>2. ASSUME NEW i \in Invocations, NEW p \in Procs, NEW d \in Calls, Admit(i, p, d)
          PROVE  FALSE
      BY <1>1, <3>2 DEF Admit, SubmitAllowed, RetryPermitted, callVars
    <3>3. ASSUME NEW i \in Invocations, Proceed(i), inv[i].call # c \/ ~RefuseToReexecute(i)
          PROVE  FALSE
      <4>1. inv[i].call \in Calls
        BY <2>0, <3>3, ProceedFrame, ServedFields
      <4>2. CASE CheckResult(i)
        BY <1>1, <2>0, <4>1, <4>2 DEF CheckResult, ResultOf, CallTypeOK
      <4>3. CASE RecordOutcome(i) \/ RecordFailure(i)
        BY <1>1, <2>0, <4>1, <4>3 DEF RecordOutcome, RecordFailure, ResultOf, CallTypeOK
      <4>4. CASE RefuseToReexecute(i)
        BY <1>1, <2>0, <3>3, <4>1, <4>4 DEF RefuseToReexecute, CallTypeOK
      <4> QED
        BY <1>1, <3>3, <4>2, <4>3, <4>4, ProceedFrame
    <3>4. ASSUME NEW p \in Procs, Crash(p) PROVE FALSE
      BY <1>1, <3>4 DEF Crash, callVars
    <3> QED
      BY <1>1, <3>1, <3>2, <3>3, <3>4, StepKinds DEF callVars
  <2>2. inv[i].pc = "refuse" /\ inv[i].proc \in Procs /\ inv'[i] = Idle
    BY <2>0, <2>1, ServedFields, LeaveTypeOK DEF RefuseToReexecute, At
  <2>3. c \notin inflight[inv[i].proc]
    BY <1>1, <2>1, <2>2 DEF PromiseInv, RefusedPending, Pending
  <2>4. ASSUME NEW j \in Invocations, inv[j].call = c, inv[j].proc = inv[i].proc
        PROVE  inv[j].pc \notin {"start", "provider"}
    <3>1. inv[j].pc # "start"
      BY <1>1, <2>2, <2>4 DEF PromiseInv, LoopsAreAlone, Shares, SyncSteps
    <3>2. inv[j].pc # "provider"
      BY <1>1, <2>2, <2>3, <2>4 DEF PromiseInv, PromisesHeld, Holds, Started, Executing
    <3> QED
      BY <3>1, <3>2
  <2> QED
    BY <2>1, <2>2, <2>4 DEF Idle
<1>2. GatewayInv /\ PromiseInv /\ [Next]_vars =>
        \A c \in Calls :
          (result'[c] # result[c] /\ result'[c].why = "refused") =>
              \E i \in Invocations :
                  /\ inv[i].call = c /\ inv'[i].pc = "idle" /\ inv[i].pc # "idle"
                  /\ \A j \in Invocations :
                        (inv[j].call = c /\ inv[j].proc = inv[i].proc)
                            => inv[j].pc \notin {"start", "provider"}
  BY <1>1
<1> QED
  BY <1>2, GatewayInvHolds, PromiseInvHolds, PTL DEF Spec, RefusedMeansLost

\* The in-flight map can be believed in both directions: what it holds is being executed
\* by exactly one invocation, and a process that refuses to re-execute a call is not
\* executing it itself (registry.ts: executeProvider).
THEOREM PromisesKept == Spec => PromisesAreKept
  BY PromisesOwned, RefusalsAreLosses DEF PromisesAreKept

-------------------------------------------------------------------------------
(* The abstract life of a governed call.                                   *)

Permission == [c \in Calls |-> PermissionOf(c)]
Outcome == [c \in Calls |-> result[c].status]

\* A step that touches the decision or the approval of one call moves the permission
\* of that call only.
LEMMA PermissionMoves ==
  ASSUME NEW c \in Calls,
         \A d \in Calls \ {c} : /\ decision'[d] = decision[d]
                                /\ approvals'[d].status = approvals[d].status
  PROVE  Permission' = [Permission EXCEPT ![c] = PermissionOf(c)']
<1>1. ASSUME NEW d \in Calls \ {c} PROVE PermissionOf(d)' = PermissionOf(d)
  BY <1>1 DEF PermissionOf
<1> QED
  BY <1>1 DEF Permission

\* A step that touches no decision and no approval moves no permission.
LEMMA PermissionKept ==
  ASSUME \A d \in Calls : /\ decision'[d] = decision[d]
                          /\ approvals'[d].status = approvals[d].status
  PROVE  Permission' = Permission
<1>1. ASSUME NEW d \in Calls PROVE PermissionOf(d)' = PermissionOf(d)
  BY <1>1 DEF PermissionOf
<1> QED
  BY <1>1 DEF Permission

\* Recording a result moves the outcome of its call only.
LEMMA OutcomeMoves ==
  ASSUME CallTypeOK, NEW c \in Calls, NEW status \in {"ok", "failed", "blocked"}, NEW why,
         result' = [result EXCEPT ![c] = ResultOf(status, why)]
  PROVE  Outcome' = [Outcome EXCEPT ![c] = status]
  BY DEF CallTypeOK, Outcome, ResultOf

\* A call that may execute is a granted one.
LEMMA Authorised ==
  ASSUME GatewayInv, NEW c \in Calls, MayExecute(c)
  PROVE  PermissionOf(c) = "granted"
  BY DEF GatewayInv, CallInv, MayExecute, PermissionOf

\* Recording a result that its permission and execution justify concludes the call.
LEMMA Concluded ==
  ASSUME GatewayInv, [Next]_vars, NEW c \in Calls, NEW status \in {"ok", "failed", "blocked"}, NEW why,
         result' = [result EXCEPT ![c] = ResultOf(status, why)], Open(c),
         PermissionOf(c) # "undecided",
         status # "blocked" => PermissionOf(c) = "granted",
         status = "ok" => executed[c] = 1,
         UNCHANGED <<decision, approvals, effect, executed>>
  PROVE  Governed!Next
<1>1. Outcome' = [Outcome EXCEPT ![c] = status] /\ Permission' = Permission
  BY OutcomeMoves, PermissionKept DEF GatewayInv, TypeOK
<1>2. Governed!Conclude(c, status)
  BY <1>1 DEF Governed!Conclude, Permission, Outcome, Open
<1> QED
  BY <1>2 DEF Governed!Next

\* Every step of the gateway is a step in the life of one governed call, or none.
LEMMA GatewayRefines == GatewayInv /\ [Next]_vars => [Governed!Next]_(Governed!vars)
<1> SUFFICES ASSUME GatewayInv, [Next]_vars PROVE Governed!Next \/ UNCHANGED Governed!vars
  OBVIOUS
<1>0. TypeOK /\ CallTypeOK /\ ProcTypeOK /\ ProviderTypeOK /\ Queue!TypeOK
  BY DEF GatewayInv, TypeOK
<1>a. approvals \in [Calls -> Queue!ApprovalRow]
  BY <1>0 DEF Queue!TypeOK, Queue!StoreTypeOK
<1>s. ASSUME Permission' = Permission, UNCHANGED <<result, effect, executed>>
      PROVE  UNCHANGED Governed!vars
  BY <1>s DEF Governed!vars, Permission
<1>k. ASSUME UNCHANGED <<decision, approvals>> PROVE Permission' = Permission
  BY <1>k, PermissionKept
<1>1. ASSUME NEW p \in Procs, NEW c \in Calls, SubmitBlocked(p, c)
      PROVE  Governed!Next
  <2>1. PICK why : result' = [result EXCEPT ![c] = ResultOf("blocked", why)]
    BY <1>1 DEF SubmitBlocked, Block
  <2>2. /\ decision' = [decision EXCEPT ![c] = "block"] /\ decision[c] = "none"
        /\ UNCHANGED <<approvals, effect, executed>>
    BY <1>1 DEF SubmitBlocked, Fresh, queueVars, providerVars
  <2>3. Outcome' = [Outcome EXCEPT ![c] = "blocked"]
    BY <1>0, <2>1, OutcomeMoves
  <2>4. PermissionOf(c) = "undecided" /\ PermissionOf(c)' = "denied"
    BY <1>0, <2>2 DEF PermissionOf, GatewayInv, CallInv, CallTypeOK
  <2>5. Permission' = [Permission EXCEPT ![c] = "denied"]
    BY <1>0, <2>2, <2>4, PermissionMoves DEF CallTypeOK
  <2>6. Governed!Deny(c)
    BY <2>2, <2>3, <2>4, <2>5 DEF Governed!Deny, Permission, Outcome
  <2> QED
    BY <2>6 DEF Governed!Next
<1>2. ASSUME NEW p \in Procs, NEW c \in Calls, SubmitForApproval(p, c)
      PROVE  UNCHANGED Governed!vars
  <2>1. /\ decision' = [decision EXCEPT ![c] = "require_approval"] /\ decision[c] = "none"
        /\ UNCHANGED <<result, effect, executed>>
    BY <1>2 DEF SubmitForApproval, Fresh, providerVars
  <2>2. /\ approvals[c].status = "absent" /\ approvals'[c].status = "pending"
        /\ \A d \in Calls \ {c} : approvals'[d] = approvals[d]
    BY <1>a, <1>2 DEF SubmitForApproval, Queue!RequestForRun, Queue!NewRequest
  <2>3. PermissionOf(c)' = PermissionOf(c)
    BY <1>0, <2>1, <2>2 DEF PermissionOf, CallTypeOK
  <2>4. Permission' = Permission
    BY <1>0, <2>1, <2>2, <2>3, PermissionMoves DEF CallTypeOK, Permission
  <2> QED
    BY <1>s, <2>1, <2>4
<1>3. ASSUME NEW p \in Procs, NEW c \in Calls, RetryRejected(p, c)
      PROVE  Governed!Next
  <2>1. PermissionOf(c) = "denied"
    BY <1>3 DEF RetryRejected, PermissionOf
  <2> QED
    BY <1>3, <2>1, Concluded DEF RetryRejected, Retried, Block, queueVars, providerVars
<1>4. ASSUME NEW p \in Procs, NEW c \in Calls, RetrySuspended(p, c)
      PROVE  Governed!Next
  <2>1. PermissionOf(c) = "granted"
    BY <1>4, Authorised DEF RetrySuspended
  <2> QED
    BY <1>4, <2>1, Concluded DEF RetrySuspended, Retried, Block, queueVars, providerVars
<1>5. ASSUME NEW i \in Invocations, NEW p \in Procs, NEW c \in Calls, SubmitAllowed(i, p, c)
      PROVE  Governed!Next
  <2>1. /\ decision' = [decision EXCEPT ![c] = "allow"] /\ decision[c] = "none"
        /\ UNCHANGED <<approvals, result, effect, executed>>
    BY <1>5 DEF SubmitAllowed, Fresh, queueVars, providerVars
  <2>2. PermissionOf(c) = "undecided" /\ PermissionOf(c)' = "granted"
    BY <1>0, <2>1 DEF PermissionOf, GatewayInv, CallInv, CallTypeOK
  <2>3. Permission' = [Permission EXCEPT ![c] = "granted"]
    BY <1>0, <2>1, <2>2, PermissionMoves DEF CallTypeOK
  <2>4. Governed!Permit(c)
    BY <2>1, <2>2, <2>3 DEF Governed!Permit, Permission
  <2> QED
    BY <2>4 DEF Governed!Next
<1>6. ASSUME NEW i \in Invocations, NEW p \in Procs, NEW c \in Calls, RetryPermitted(i, p, c)
      PROVE  UNCHANGED Governed!vars
  BY <1>6, <1>s, <1>k DEF RetryPermitted, queueVars, callVars, providerVars
<1>7. ASSUME NEW i \in Invocations, Proceed(i)
      PROVE  Governed!Next \/ UNCHANGED Governed!vars
  <2> DEFINE c == inv[i].call
  <2>0. /\ inv[i].pc # "idle" /\ c \in Calls /\ MayExecute(c) /\ CallInv(c)
        /\ PermissionOf(c) = "granted" /\ InvocationInv(i)
    BY <1>0, <1>7, ProceedFrame, ServedFields, Authorised DEF GatewayInv, InvocationInv
  <2>1. UNCHANGED <<decision, approvals>>
    BY <1>7, ProceedFrame
       DEF Proceed, GuardRun, CheckResult, EnsureEffect, RefuseToReexecute, StartProvider,
           ProviderAnswers, ProviderThrows, RecordOutcome, RecordRaises, RecordFailure,
           FailureRaises, queueVars
  <2>2. Permission' = Permission
    BY <1>k, <2>1
  <2>3. CASE EnsureEffect(i)
    <3>1. effect' = [effect EXCEPT ![c] = TRUE] /\ UNCHANGED <<result, executed>>
      BY <2>3 DEF EnsureEffect, providerVars
    <3>2. CASE effect[c]
      <4>1. UNCHANGED effect
        BY <1>0, <2>0, <3>1, <3>2 DEF CallTypeOK
      <4> QED
        BY <1>s, <2>2, <3>1, <4>1
    <3>3. CASE ~effect[c]
      <4>1. Governed!Intend(c)
        BY <2>0, <2>2, <3>1, <3>3 DEF Governed!Intend, Permission
      <4> QED
        BY <2>0, <4>1 DEF Governed!Next
    <3> QED
      BY <3>2, <3>3
  <2>4. CASE StartProvider(i)
    <3>1. effect[c] /\ executed[c] = 0
      BY <2>0, <2>4 DEF InvocationInv, StartProvider, At
    <3>2. executed' = [executed EXCEPT ![c] = 1] /\ UNCHANGED <<result, effect>>
      BY <2>4, <3>1 DEF StartProvider, callVars
    <3>3. Governed!Perform(c)
      BY <2>2, <3>1, <3>2 DEF Governed!Perform, Permission
    <3> QED
      BY <2>0, <3>3 DEF Governed!Next
  <2>5. CASE RecordOutcome(i)
    <3>1. /\ result' = [result EXCEPT ![c] = ResultOf(inv[i].got, "provider")] /\ Open(c)
          /\ inv[i].got \in {"ok", "failed"} /\ executed[c] = 1
          /\ UNCHANGED <<effect, executed>>
      BY <2>0, <2>5 DEF RecordOutcome, Recordable, InvocationInv, Started, Executing, At, providerVars
    <3> QED
      BY <2>0, <2>1, <3>1, Concluded
  <2>6. CASE CheckResult(i) \/ RefuseToReexecute(i) \/ RecordFailure(i)
    <3>1. UNCHANGED <<effect, executed>>
      BY <2>6 DEF CheckResult, RefuseToReexecute, RecordFailure, providerVars
    <3>2. \/ UNCHANGED result
          \/ Open(c) /\ \E why : result' = [result EXCEPT ![c] = ResultOf("failed", why)]
      BY <2>6 DEF CheckResult, RefuseToReexecute, RecordFailure, Recordable, Refusal
    <3>3. CASE UNCHANGED result
      BY <1>s, <2>2, <3>1, <3>3
    <3>4. CASE Open(c) /\ \E why : result' = [result EXCEPT ![c] = ResultOf("failed", why)]
      BY <2>0, <2>1, <3>1, <3>4, Concluded
    <3> QED
      BY <3>2, <3>3, <3>4
  <2>7. CASE UNCHANGED <<result, effect, executed>>
    BY <1>s, <2>2, <2>7
  <2> QED
    BY <1>7, <2>3, <2>4, <2>5, <2>6, <2>7, ProceedFrame
<1>8. ASSUME NEW c \in Calls, NEW q \in Principals, Resolve(c, q)
      PROVE  Governed!Next
  <2>1. PICK v \in {"approved", "rejected"} : Queue!ResolveApproval(c, v)
    BY <1>8 DEF Resolve, Queue!ApproveForRun, Queue!RejectForRun
  <2>2. UNCHANGED <<decision, result, effect, executed>>
    BY <1>8 DEF Resolve, callVars, providerVars
  <2>3. /\ approvals[c].status = "pending" /\ approvals'[c].status = v
        /\ \A d \in Calls \ {c} : approvals'[d] = approvals[d]
    BY <1>a, <2>1 DEF Queue!ResolveApproval, Queue!ApprovalRow
  <2>4. decision[c] = "require_approval"
    BY <2>3 DEF GatewayInv, CallInv
  <2>5. PermissionOf(c) = "undecided"
    BY <2>3, <2>4 DEF PermissionOf
  <2>6. CASE v = "approved"
    <3>1. PermissionOf(c)' = "granted"
      BY <2>2, <2>3, <2>4, <2>6 DEF PermissionOf
    <3>2. Permission' = [Permission EXCEPT ![c] = "granted"]
      BY <2>2, <2>3, <3>1, PermissionMoves
    <3>3. Governed!Permit(c)
      BY <2>2, <2>5, <3>2 DEF Governed!Permit, Permission
    <3> QED
      BY <3>3 DEF Governed!Next
  <2>7. CASE v = "rejected"
    <3>1. PermissionOf(c)' = "denied"
      BY <2>3, <2>7 DEF PermissionOf
    <3>2. Permission' = [Permission EXCEPT ![c] = "denied"]
      BY <2>2, <2>3, <3>1, PermissionMoves
    <3>3. Governed!Deny(c)
      BY <2>2, <2>5, <3>2 DEF Governed!Deny, Permission
    <3> QED
      BY <3>3 DEF Governed!Next
  <2> QED
    BY <2>6, <2>7
<1>9. ASSUME NEW p \in Procs, Crash(p)
      PROVE  UNCHANGED Governed!vars
  BY <1>9, <1>s, <1>k DEF Crash, queueVars, callVars, providerVars
<1>10. ASSUME NEW r \in Runs, MoveRun(r)
       PROVE  UNCHANGED Governed!vars
  <2>1. UNCHANGED approvals
    BY <1>10 DEF MoveRun, Queue!StartRun, Queue!DriveRun, Queue!RecordWhileSuspended
  <2> QED
    BY <1>10, <1>s, <1>k, <2>1 DEF MoveRun, callVars, providerVars
<1>11. CASE \/ \E g \in Grants : SuspendGrant(g) \/ LiftGrant(g)
            \/ \E level \in Dials : TurnDial(level)
            \/ UNCHANGED vars
  BY <1>11, <1>s, <1>k
     DEF SuspendGrant, LiftGrant, TurnDial, vars, queueVars, callVars, providerVars
<1> QED
  BY <1>1, <1>2, <1>3, <1>4, <1>5, <1>6, <1>7, <1>8, <1>9, <1>10, <1>11
     DEF Next, Serve, Answer, Admit, Surroundings

\* The gateway implements the abstract life of a governed call: permitted before
\* intended, intended before performed, performed once, concluded once
\* (registry.ts: invoke, executeProvider).
THEOREM GatewayImplementsGovernedCall == Spec => ImplementsGovernedCall
<1>1. Init => Governed!Init
  <2> SUFFICES ASSUME Init PROVE Governed!Init
    OBVIOUS
  <2>1. \A c \in Calls : PermissionOf(c) = "undecided" /\ result[c].status = "none"
    BY DEF Init, Queue!Init, Queue!StoreInit, Queue!AbsentApproval, NoResult, PermissionOf
  <2> QED
    BY <2>1 DEF Init, Governed!Init
<1> QED
  BY <1>1, GatewayRefines, GatewayInvHolds, PTL DEF Spec, ImplementsGovernedCall, Governed!Spec

\* The gateway is one more client of the approval queue: all that holds of the queue
\* holds under calls, retries and crashes (registry.ts: invoke calls approvals.request).
THEOREM GatewayImplementsQueue == Spec => Queue!Spec
<1>1. Init => Queue!Init
  BY DEF Init
<1>2. [Next]_vars => [Queue!Next]_(Queue!vars)
  BY GatewayStepsQueue DEF queueVars, Queue!vars
<1> QED
  BY <1>1, <1>2, PTL DEF Spec, Queue!Spec

\* A capability call waiting for its human holds its run, and the run waits for an
\* approval that can still be decided, in every state of the gateway.
COROLLARY GatewayQueueSafety ==
  Spec => [](Queue!PendingApprovalHoldsRun /\ Queue!SuspendedOnPendingApproval)
<1>1. Queue!Init => QueueFacts!Init
  BY SameInit
<1>2. [Queue!Next]_(Queue!vars) => [QueueFacts!Next]_(QueueFacts!vars)
  BY SameNext DEF Queue!vars, QueueFacts!vars
<1>3. QueueFacts!QueueInv => Queue!PendingApprovalHoldsRun /\ Queue!SuspendedOnPendingApproval
  BY DEF QueueFacts!QueueInv, QueueFacts!PendingApprovalHoldsRun,
         QueueFacts!SuspendedOnPendingApproval, Queue!PendingApprovalHoldsRun,
         Queue!SuspendedOnPendingApproval
<1>4. Queue!Spec => QueueFacts!Spec
  BY <1>1, <1>2, PTL DEF Queue!Spec, QueueFacts!Spec
<1>5. QueueFacts!Spec => []QueueFacts!QueueInv
  BY QueueAssumption, QueueFacts!QueueInvHolds
<1> QED
  BY <1>3, <1>4, <1>5, GatewayImplementsQueue, PTL
===============================================================================
