--------------------------------- MODULE Spine ---------------------------------
(***************************************************************************)
(* The durable spine: spine/service.ts over the approval queue.            *)
(*                                                                         *)
(* The demo run passes a fixed script of steps, each a transaction (or a   *)
(* file) of its own.  Several processes may drive the one run: each reads  *)
(* the run, then writes from what it read, and dies where the code throws. *)
(* Nothing tells them apart but what is durable: the run row, the          *)
(* approvals, the events on record, the checkpoint and the products.       *)
(***************************************************************************)
EXTENDS ApprovalService, Sequences

CONSTANTS Drivers,               \* the processes that drive the run
          Run,                   \* the demo run
          Lookup, LookupApproval,         \* the capability call and its approval
          Candidate, PromotionApproval,   \* the promotion and its approval
          Researcher, Coordinator,        \* who asks for them
          Omitted,               \* bound: steps left out of the script
          MaxCrashes             \* bound: processes lost

ASSUME SpineAssumption ==
    /\ Run \in Runs
    /\ {Lookup, Candidate} \subseteq Targets /\ Lookup # Candidate
    /\ {LookupApproval, PromotionApproval} \subseteq Approvals
    /\ LookupApproval # PromotionApproval
    /\ {Researcher, Coordinator} \subseteq Principals
    /\ MaxCrashes \in Nat
    /\ None \notin Omitted

VARIABLES
    recorded,    \* the nodes whose event is on record
    products,    \* what the steps have made: files, rows, memories
    lookup,      \* the governed call: its decision, intent and outcome
    candidate,   \* status of the promotion candidate
    drivers,     \* where each process stands, and what it last read
    crashes      \* processes lost so far

durable == <<recorded, products, lookup, candidate>>
spineVars == <<vars, durable, drivers, crashes>>

-------------------------------------------------------------------------------
(* The script.                                                             *)

ApprovalsLast == <<"run_started", "work_created", "coordinator_invoked", "handoff_requested",
                   "handoff_to_researcher", "researcher_invoked", "capability_called",
                   "artifact_created", "coordinator_finalized", "individual_memory_written",
                   "approval_requested", "approval_resolved",
                   "collective_memory_written", "work_completed", "run_completed">>
NodeOrder == <<"run_started", "work_created", "coordinator_invoked", "handoff_requested",
               "handoff_to_researcher", "researcher_invoked", "approval_requested",
               "approval_resolved", "capability_called", "artifact_created",
               "coordinator_finalized", "individual_memory_written",
               "collective_memory_written", "work_completed", "run_completed">>

\* A step below the floor of a resume is passed over; the floor None, and a node
\* the order does not know, are below and above nothing.
BeforeFloor(floor, node) ==
    \E i, j \in DOMAIN NodeOrder : NodeOrder[i] = node /\ NodeOrder[j] = floor /\ i < j

ASSUME NodesAssumption == \A i \in DOMAIN NodeOrder : NodeOrder[i] # None

Record(node) == [do |-> "record", what |-> node]     \* event, run row, checkpoint
Mark(node) == [do |-> "mark", what |-> node]         \* run row, checkpoint
Make(product) == [do |-> "make", what |-> product]   \* an idempotent file or row
Do(step) == [do |-> step, what |-> None]

Script ==
    <<Record("run_started"), Record("work_created"), Record("coordinator_invoked"),
      Record("handoff_requested"), Make("task"), Record("handoff_to_researcher"),
      Record("researcher_invoked"), Do("invoke"), Mark("capability_called"),
      Make("file"), Make("effect"), Make("artifact"), Record("artifact_created"),
      Record("coordinator_finalized"), Make("researcher_memory"),
      Make("coordinator_memory"), Mark("individual_memory_written"),
      Do("propose"), Do("trace"),
      \* once the promotion is approved
      Mark("approval_resolved"), Do("ratify"), Mark("collective_memory_written"),
      Do("finish"), Do("complete")>>

Kept == {i \in DOMAIN Script : Script[i].what \notin Omitted}

After(i) == CHOOSE j \in Kept : i < j /\ \A k \in Kept : i < k => j <= k
Position(do) == CHOOSE i \in DOMAIN Script : Script[i].do = do
AfterRatification == After(Position("ratify"))
ResumeDemo == After(Position("trace"))

RecordedNodes == {Script[i].what : i \in {j \in Kept : Script[j].do = "record"}}
Products == {Script[i].what : i \in {j \in Kept : Script[j].do = "make"}}

-------------------------------------------------------------------------------

Places == {"idle", "begin", "dispatch", "floor", "script", "awaiting"}
Idle == [at |-> "idle", pos |-> 0, floor |-> None, view |-> None]
Views == [status : RunStatus, ptr : Approvals \cup {None}]
Call == [decided : BOOLEAN, intended : BOOLEAN, outcome : {"none", "ok", "failed", "blocked"}]

\* Every row, product and driver has its type.
SpineTypeOK ==
    /\ TypeOK
    /\ recorded \subseteq RecordedNodes
    /\ products \subseteq Products \cup {"collective", "work_done"}
    /\ lookup \in Call
    /\ candidate \in {"absent", "pending", "ratified", "rejected"}
    /\ drivers \in [Drivers -> [at : Places, pos : {0} \cup DOMAIN Script, floor : Nodes,
                                view : Views \cup {None}]]
    /\ crashes \in 0 .. MaxCrashes

SpineInit ==
    /\ Init
    /\ recorded = {}
    /\ products = {}
    /\ lookup = [decided |-> FALSE, intended |-> FALSE, outcome |-> "none"]
    /\ candidate = "absent"
    /\ drivers = [d \in Drivers |-> Idle]
    /\ crashes = 0

-------------------------------------------------------------------------------
(* Writing the run from what was read of it.                               *)

Status == runs[Run].status
View == [status |-> Status, ptr |-> runs[Run].ptr]
Running == [status |-> "running", ptr |-> None]

\* setStatus without a pointer keeps a suspended run's and clears any other's.
KeptPtr(status) == IF status = "suspended_approval" THEN runs[Run].ptr ELSE None

WriteNode(status, node) ==
    /\ SetRunStatus(approvals, Run, status, node, KeptPtr(status))
    /\ Checkpoint(Run, node, KeptPtr(status))

MayWrite(status, node) ==
    \/ TerminalReplay(Run, status, node, KeptPtr(status))
    \/ MaySetStatus(approvals, Run, status, KeptPtr(status))

QueueUnchanged == UNCHANGED <<approvals, signed, applied>>
RunUnchanged == UNCHANGED <<runs, locks, checkpoint>>

GoTo(d, at, pos, floor, view) ==
    drivers' = [drivers EXCEPT ![d] = [at |-> at, pos |-> pos, floor |-> floor, view |-> view]]
Leave(d) == drivers' = [drivers EXCEPT ![d] = Idle]

\* Step 0 is the invocation of a call whose approval is being resumed.
Step(d) == IF drivers[d].pos = 0 THEN Do("invoke") ELSE Script[drivers[d].pos]

\* The next step that writes the run reads it again, but for the completion of the
\* work item, which goes by what the step before it read.
Advance(d) ==
    drivers' = [drivers EXCEPT ![d].at = "script", ![d].pos = After(@),
        ![d].view = IF Step(d).what = "collective_memory_written" THEN @ ELSE None]

\* failRun: whatever the run is, unless it is over.
FailAnyRun(node) ==
    /\ runs' = [runs EXCEPT ![Run] = [status |-> "failed", node |-> node, ptr |-> None]]
    /\ locks' = [locks EXCEPT ![WorkspaceOf[Run]] = LockAfter(Run, "failed")]
    /\ Checkpoint(Run, node, None)
FailRun(node) ==
    IF MayWrite("failed", node) THEN WriteNode("failed", node) ELSE RunUnchanged

-------------------------------------------------------------------------------
(* Entering the run.                                                       *)

\* startDemo creates the run, or joins it without a floor.
Start(d) ==
    /\ drivers[d] = Idle
    /\ \/ StartRun(Run) /\ GoTo(d, "begin", 0, None, None)
       \/ /\ \/ Status = "queued" /\ GoTo(d, "begin", 0, None, None)
             \/ Status = "running" /\ GoTo(d, "script", After(0), None, Running)
          /\ UNCHANGED vars
    /\ UNCHANGED <<durable, crashes>>

Begin(d) ==
    /\ drivers[d].at = "begin"
    /\ IF MayWrite("running", "run_started")
       THEN /\ SetRunStatus(approvals, Run, "running", "run_started", None)
            /\ GoTo(d, "script", After(0), None, Running)
       ELSE UNCHANGED <<runs, locks>> /\ Leave(d)
    /\ UNCHANGED checkpoint
    /\ QueueUnchanged
    /\ UNCHANGED <<durable, crashes>>

\* resumeRun reads the run, then decides from it and from the approvals.
Resume(d) ==
    /\ drivers[d] = Idle
    /\ \/ Status = "queued" /\ GoTo(d, "begin", 0, None, None)
       \/ /\ Status \in {"running", "suspended_approval"}
          /\ GoTo(d, "dispatch", 0, None, View)
    /\ UNCHANGED <<vars, durable, crashes>>

DispatchPromotion(d) ==
    LET view == drivers[d].view
        verdict == approvals[PromotionApproval].status IN
    \/ /\ verdict = "approved"
       /\ IF Status \in Terminal THEN Leave(d) ELSE GoTo(d, "script", ResumeDemo, None, View)
       /\ RunUnchanged
    \/ /\ verdict = "rejected"
       /\ FailRun("approval_rejected")
       /\ Leave(d)
    \/ /\ verdict = "pending"
       /\ IF view.status = "running"
          THEN IF MaySetStatus(approvals, Run, "suspended_approval", PromotionApproval)
               THEN /\ SetRunStatus(approvals, Run, "suspended_approval",
                                    "approval_requested", PromotionApproval)
                    /\ Checkpoint(Run, "approval_requested", PromotionApproval)
               ELSE RunUnchanged
          ELSE /\ Checkpoint(Run, "approval_requested", view.ptr)
               /\ UNCHANGED <<runs, locks>>
       /\ Leave(d)

DispatchLookup(d) ==
    LET view == drivers[d].view
        verdict == approvals[LookupApproval].status
        floor == checkpoint[Run].node IN
    \/ /\ view.status = "running"
       /\ IF floor = None THEN GoTo(d, "script", After(0), None, Running)
          ELSE GoTo(d, "floor", 0, floor, None)
       /\ RunUnchanged
    \/ /\ view.status = "suspended_approval" /\ verdict = "approved"
       /\ GoTo(d, "script", 0, "capability_called", None)
       /\ RunUnchanged
    \/ /\ view.status = "suspended_approval" /\ verdict = "rejected"
       /\ FailRun("approval_rejected")
       /\ Leave(d)
    \/ /\ view.status = "suspended_approval" /\ verdict = "pending"
       /\ Checkpoint(Run, "approval_requested", view.ptr)
       /\ UNCHANGED <<runs, locks>>
       /\ Leave(d)

Dispatch(d) ==
    /\ drivers[d].at = "dispatch"
    /\ IF approvals[PromotionApproval].status # "absent"
       THEN DispatchPromotion(d)
       ELSE DispatchLookup(d)
    /\ QueueUnchanged
    /\ UNCHANGED <<durable, crashes>>

\* resumeRunningRun sets the run back to its checkpoint.
SetFloor(d) ==
    LET floor == drivers[d].floor IN
    /\ drivers[d].at = "floor"
    /\ IF MayWrite("running", floor)
       THEN /\ SetRunStatus(approvals, Run, "running", floor, None)
            /\ GoTo(d, "script", After(0), floor, Running)
       ELSE UNCHANGED <<runs, locks>> /\ Leave(d)
    /\ UNCHANGED checkpoint
    /\ QueueUnchanged
    /\ UNCHANGED <<durable, crashes>>

\* resumeApprovedCapability, asked for by an operator.
ResumeLookup(d) ==
    /\ drivers[d] = Idle
    /\ approvals[LookupApproval].status = "approved"
    /\ Status # "completed"
    /\ Status = "suspended_approval" => runs[Run].ptr = LookupApproval
    /\ GoTo(d, "script", 0, "capability_called", None)
    /\ UNCHANGED <<vars, durable, crashes>>

-------------------------------------------------------------------------------
(* The steps of the script.                                                *)

WritesRun == {"record", "mark", "trace", "finish"}
At(d, do) ==
    /\ drivers[d].at = "script"
    /\ Step(d).do = do
    /\ do \in WritesRun => drivers[d].view # None
Floored(d) == BeforeFloor(drivers[d].floor, Step(d).what)

ReadRun(d) ==
    /\ drivers[d].at = "script"
    /\ Step(d).do \in WritesRun
    /\ drivers[d].view = None
    /\ drivers' = [drivers EXCEPT ![d].view = View]
    /\ UNCHANGED <<vars, durable, crashes>>

RecordNode(d) ==
    LET node == Step(d).what
        status == drivers[d].view.status IN
    /\ At(d, "record")
    /\ \/ /\ Floored(d) /\ node \in recorded
          /\ Advance(d)
          /\ RunUnchanged /\ UNCHANGED recorded
       \/ /\ ~Floored(d) /\ MayWrite(status, node)
          /\ WriteNode(status, node)
          /\ recorded' = recorded \cup {node}
          /\ Advance(d)
       \/ /\ IF Floored(d) THEN node \notin recorded ELSE ~MayWrite(status, node)
          /\ Leave(d)
          /\ RunUnchanged /\ UNCHANGED recorded
    /\ QueueUnchanged
    /\ UNCHANGED <<products, lookup, candidate, crashes>>

CheckpointNode(d) ==
    LET node == Step(d).what
        status == drivers[d].view.status IN
    /\ At(d, "mark")
    /\ \/ Floored(d) /\ Advance(d) /\ RunUnchanged
       \/ ~Floored(d) /\ MayWrite(status, node) /\ WriteNode(status, node) /\ Advance(d)
       \/ ~Floored(d) /\ ~MayWrite(status, node) /\ Leave(d) /\ RunUnchanged
    /\ QueueUnchanged
    /\ UNCHANGED <<durable, crashes>>

MakeProduct(d) ==
    /\ At(d, "make")
    /\ products' = products \cup {Step(d).what}
    /\ Advance(d)
    /\ UNCHANGED <<vars, recorded, lookup, candidate, crashes>>

\* An outcome is recorded once; ok goes on, anything else fails the run.
Conclude(d, outcome) ==
    /\ lookup' = [lookup EXCEPT !.outcome = outcome]
    /\ IF outcome = "ok"
       THEN Advance(d) /\ RunUnchanged
       ELSE Leave(d) /\ FailRun("capability_failed")
    /\ QueueUnchanged

\* What the gateway answers, by the contract of GovernedCall: the recorded
\* outcome; a block for a rejected call and nothing for a pending one;
InvokeDecided(d) ==
    LET verdict == approvals[LookupApproval].status IN
    \/ lookup.outcome # "none" /\ Conclude(d, lookup.outcome)
    \/ lookup.outcome = "none" /\ verdict = "rejected" /\ Conclude(d, "blocked")
    \/ /\ lookup.outcome = "none" /\ verdict = "pending"
       /\ Leave(d)
       /\ UNCHANGED <<vars, lookup>>

\* an execution of a permitted call, refused where an earlier one was intended
\* and left no outcome;
InvokeAgain(d) ==
    /\ lookup.decided
    /\ approvals[LookupApproval].status \in {"approved", "absent"}
    /\ \/ /\ Status # "running"
          /\ Leave(d)
          /\ UNCHANGED <<vars, lookup>>
       \/ Status = "running" /\ lookup.intended /\ Conclude(d, "failed")
       \/ /\ Status = "running" /\ ~lookup.intended
          /\ lookup' = [lookup EXCEPT !.intended = TRUE]
          /\ drivers' = [drivers EXCEPT ![d].at = "awaiting"]
          /\ UNCHANGED vars
InvokeLost(d) ==
    /\ lookup.outcome = "none"
    /\ lookup.decided
    /\ approvals[LookupApproval].status \in {"approved", "absent"}
    /\ \/ /\ Status # "running"
          /\ Leave(d)
          /\ UNCHANGED <<vars, lookup>>
       \/ Status = "running" /\ lookup.intended /\ Leave(d) /\ UNCHANGED <<vars, lookup>>
       \/ /\ Status = "running" /\ ~lookup.intended
          /\ lookup' = [lookup EXCEPT !.intended = TRUE]
          /\ drivers' = [drivers EXCEPT ![d].at = "awaiting"]
          /\ UNCHANGED vars
InvokePermitted(d) ==
    /\ lookup.outcome = "none"
    /\ lookup.decided
    /\ approvals[LookupApproval].status \in {"approved", "absent"}
    /\ \/ /\ Status # "running"
          /\ Leave(d)
          /\ UNCHANGED <<vars, lookup>>
       \/ Status = "running" /\ lookup.intended /\ Conclude(d, "failed")
       \/ /\ Status = "running" /\ ~lookup.intended
          /\ lookup' = [lookup EXCEPT !.intended = TRUE]
          /\ drivers' = [drivers EXCEPT ![d].at = "awaiting"]
          /\ UNCHANGED vars

\* or a first decision, which allows the call or asks for approval.
InvokeFresh(d) ==
    /\ ~lookup.decided
    /\ \/ /\ Status = "running"
          /\ lookup' = [lookup EXCEPT !.decided = TRUE]
          /\ \/ UNCHANGED <<vars, drivers>>
             \/ /\ RequestForRun(LookupApproval, Run, Lookup, Researcher, "fail_run")
                /\ Leave(d)
       \/ /\ Status # "running"
          /\ Leave(d)
          /\ UNCHANGED <<vars, lookup>>

Invoke(d) ==
    /\ At(d, "invoke")
    /\ InvokeDecided(d) \/ InvokePermitted(d) \/ InvokeFresh(d)
    /\ UNCHANGED <<recorded, products, candidate, crashes>>

\* The provider's answer conflicts with an outcome recorded meanwhile.
Answer(d) ==
    /\ drivers[d].at = "awaiting"
    /\ \/ lookup.outcome = "none" /\ Conclude(d, "ok")
       \/ lookup.outcome # "none" /\ Leave(d) /\ UNCHANGED <<vars, lookup>>
    /\ UNCHANGED <<recorded, products, candidate, crashes>>

\* The candidate and its approval are made together, and proposed again as they
\* are; a candidate that is settled is not.
Propose(d) ==
    /\ At(d, "propose")
    /\ \/ /\ candidate = "absent" /\ Status = "running"
          /\ candidate' = "pending"
          /\ RequestForRun(PromotionApproval, Run, Candidate, Coordinator, "fail_run")
          /\ Advance(d)
       \/ /\ UNCHANGED <<vars, candidate>>
          /\ IF candidate = "pending" THEN Advance(d)
             ELSE ~(candidate = "absent" /\ Status = "running") /\ Leave(d)
    /\ UNCHANGED <<recorded, products, lookup, crashes>>

EnsureTrace(d) ==
    /\ At(d, "trace")
    /\ Checkpoint(Run, "approval_requested", drivers[d].view.ptr)
    /\ Leave(d)
    /\ UNCHANGED <<runs, locks, durable, crashes>>
    /\ QueueUnchanged

\* Ratifying again finds the memory as it wrote it.
Approved == approvals[PromotionApproval].status = "approved"

RatifyAndWriteCollective(d) ==
    /\ At(d, "ratify")
    /\ IF Approved /\ candidate \in {"pending", "ratified"}
       THEN /\ candidate' = "ratified"
            /\ products' = products \cup {"collective"}
            /\ Advance(d)
       ELSE UNCHANGED <<candidate, products>> /\ Leave(d)
    /\ UNCHANGED <<vars, recorded, lookup, crashes>>

CompleteWorkItem(d) ==
    /\ At(d, "finish")
    /\ IF MayWrite(drivers[d].view.status, "work_completed")
       THEN /\ WriteNode(drivers[d].view.status, "work_completed")
            /\ products' = products \cup {"work_done"}
            /\ Advance(d)
       ELSE RunUnchanged /\ UNCHANGED products /\ Leave(d)
    /\ QueueUnchanged
    /\ UNCHANGED <<recorded, lookup, candidate, crashes>>

CompleteDemoRun(d) ==
    /\ At(d, "complete")
    /\ IF MayWrite("completed", "run_completed")
       THEN WriteNode("completed", "run_completed")
       ELSE RunUnchanged
    /\ Leave(d)
    /\ QueueUnchanged
    /\ UNCHANGED <<durable, crashes>>

-------------------------------------------------------------------------------

\* A process dies where it stands; what it wrote stays.
Crash(d) ==
    /\ crashes < MaxCrashes
    /\ drivers[d] # Idle
    /\ Leave(d)
    /\ crashes' = crashes + 1
    /\ UNCHANGED <<vars, durable>>

Approve(a, p) ==
    /\ ApproveForRun(a, p)
    /\ UNCHANGED <<durable, drivers, crashes>>

\* Rejecting a promotion rejects its candidate with it.
Reject(a, p) ==
    /\ RejectForRun(a, p)
    /\ IF a = PromotionApproval
       THEN candidate = "pending" /\ candidate' = "rejected"
       ELSE UNCHANGED candidate
    /\ UNCHANGED <<recorded, products, lookup, drivers, crashes>>

Decide(a) == \E p \in Principals : Approve(a, p) \/ Reject(a, p)

Drive(d) ==
    \/ Begin(d) \/ Dispatch(d) \/ SetFloor(d) \/ ReadRun(d)
    \/ RecordNode(d) \/ CheckpointNode(d) \/ MakeProduct(d)
    \/ Invoke(d) \/ Answer(d) \/ Propose(d) \/ EnsureTrace(d)
    \/ RatifyAndWriteCollective(d) \/ CompleteWorkItem(d) \/ CompleteDemoRun(d)

SpineNext ==
    \/ \E d \in Drivers : Start(d) \/ Resume(d) \/ ResumeLookup(d) \/ Drive(d) \/ Crash(d)
    \/ \E a \in Approvals : Decide(a)

SpineSpec == SpineInit /\ [][SpineNext]_spineVars

\* A process that is alive goes on; an operator resumes a run that is not over,
\* again and again; somebody decides what is pending.
SpineFairness ==
    /\ \A d \in Drivers : WF_spineVars(Drive(d)) /\ SF_spineVars(Resume(d))
    /\ \A a \in Approvals : WF_spineVars(Decide(a))

FairSpine == SpineSpec /\ SpineFairness
-------------------------------------------------------------------------------
(* What the spine guarantees.                                              *)

\* A completed run did everything its script says, on the way every crash,
\* resume and second process left it: each event is on record, each product was
\* made, the lookup succeeded, and a human approved the memory it wrote.
CompletedMeansDone ==
    Status = "completed" =>
        /\ recorded = RecordedNodes
        /\ products = Products \cup {"collective", "work_done"}
        /\ lookup.outcome = "ok"
        /\ candidate = "ratified"
        /\ approvals[PromotionApproval].status = "approved"

\* A resume that starts at the latest checkpoint passes over nothing that was
\* not done: every event below the checkpoint, and below the floor of any
\* process, is on record, and past the approval's nodes the lookup has succeeded.
ResumeFloorIsRecorded ==
    /\ \A floor \in {checkpoint[Run].node} \cup {drivers[d].floor : d \in Drivers},
          node \in RecordedNodes : BeforeFloor(floor, node) => node \in recorded
    /\ BeforeFloor(checkpoint[Run].node, "approval_resolved") => lookup.outcome = "ok"

\* A run that failed leaves no guidance behind and its work undone: whatever a
\* second process was doing, nothing is ratified once a human said no.
FailedLeavesNoMemory ==
    Status = "failed" => /\ candidate # "ratified"
                         /\ products \cap {"collective", "work_done"} = {}

\* Every demo run that was started ends, whichever processes die on the way.
DemoEnds == Status # "absent" ~> Status \in Terminal
===============================================================================
