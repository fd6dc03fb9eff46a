--------------------------- MODULE CapabilityGateway ---------------------------
(***************************************************************************)
(* capabilities/registry.ts: how one capability call reaches its provider. *)
(*                                                                         *)
(* Several server processes share one database.  A process is one event    *)
(* loop: between two awaits an invocation runs without any other           *)
(* invocation of its own process, while transactions of other processes -  *)
(* a second server, the command line approving, rejecting, scanning for    *)
(* grants to suspend - commit between any two of its database accesses.    *)
(* The only await of an invocation is the provider's answer.               *)
(*                                                                         *)
(* invoke() runs one transaction that either answers the caller or lets    *)
(* the call execute (the Submit and Retry actions), then executeProvider   *)
(* goes step by step:                                                      *)
(*   guard -> check -> effect -> start -> provider -> record               *)
(* with joined for a duplicate waiting on the in-flight promise.           *)
(***************************************************************************)
EXTENDS CapabilityPolicy, FiniteSets

CONSTANTS Runs, Workspaces, Principals, None, WorkspaceOf,
          Calls,         \* the ids of the calls that may be submitted
          CallOf,        \* what each call carries
          CapabilityOf,  \* the capability each call names, as registered
          BaseWorld,     \* the part of the posture that does not move here
          Dials,         \* the autonomy levels the workspace moves between
          Invocations,   \* client requests being served at once
          Procs,         \* server processes over the one database
          ProvidersOf    \* the providers each of them is configured with

ASSUME GatewayAssumption ==
    /\ WorkspaceOf \in [Runs -> Workspaces]
    /\ None \notin Runs \cup Calls \cup Principals \cup Procs
    /\ \A c \in Calls : CallOf[c].run \in Runs /\ CallOf[c].requester \in Principals
    /\ Dials \subseteq Levels

VARIABLES
    runs, locks, approvals, signed, applied, checkpoint,   \* the approval queue
    decision,    \* the recorded policy decision of each call
    result,      \* its one durable result row
    effect,      \* whether its node-effect row (the durable intent) exists
    dial,        \* the workspace's autonomy level
    suspended,   \* the grants under an active suspension
    inflight,    \* per process: the calls whose provider promise it holds
    inv,         \* the invocations being served
    executed,    \* how often the provider of a call was started
    returned     \* what the provider of a call answered

queueVars == <<runs, locks, approvals, signed, applied, checkpoint>>
callVars == <<decision, result, effect>>
postureVars == <<dial, suspended>>
procVars == <<inflight, inv>>
providerVars == <<executed, returned>>
vars == <<queueVars, callVars, postureVars, procVars, providerVars>>

\* The approval of a call has an id derived from the call's and targets it.
Queue == INSTANCE ApprovalService WITH Approvals <- Calls, Targets <- Calls

Run(c) == CallOf[c].run
Grant(c) == <<CallOf[c].requester, CallOf[c].capability>>
Grants == {Grant(c) : c \in Calls}

SyncSteps == {"guard", "check", "effect", "refuse", "start", "record", "recordFailed"}
Steps == {"idle", "provider", "joined"} \cup SyncSteps
Idle == [pc |-> "idle", call |-> None, proc |-> None, got |-> "none"]
Served == [pc : Steps \ {"idle"}, call : Calls, proc : Procs, got : {"none", "ok", "failed"}]

NoResult == [status |-> "none", why |-> "none"]
SwappedResult(status, why) == [status |-> why, why |-> status]
ResultOf(status, why) == [status |-> status, why |-> why]

CallTypeOK ==
    /\ decision \in [Calls -> {"none", "allow", "block", "require_approval"}]
    /\ result \in [Calls -> [status : {"none", "ok", "failed", "blocked"},
                             why : {"none", "provider", "unavailable", "refused",
                                    "policy", "rejected", "suspended"}]]
    /\ effect \in [Calls -> BOOLEAN]
PostureTypeOK == dial \in Levels /\ suspended \subseteq Grants
ProcTypeOK ==
    /\ inflight \in [Procs -> SUBSET Calls]
    /\ inv \in [Invocations -> {Idle} \cup Served]
ProviderTypeOK ==
    /\ executed \in [Calls -> Nat]
    /\ returned \in [Calls -> {"none", "ok", "failed"}]

\* Every row, set and counter has its type, and an invocation that is not idle
\* serves a call in a process.
TypeOK == Queue!TypeOK /\ CallTypeOK /\ PostureTypeOK /\ ProcTypeOK /\ ProviderTypeOK

Init ==
    /\ Queue!Init
    /\ decision = [c \in Calls |-> "none"]
    /\ result = [c \in Calls |-> NoResult]
    /\ effect = [c \in Calls |-> FALSE]
    /\ dial \in Dials
    /\ suspended = {}
    /\ inflight = [p \in Procs |-> {}]
    /\ inv = [i \in Invocations |-> Idle]
    /\ executed = [c \in Calls |-> 0]
    /\ returned = [c \in Calls |-> "none"]

-------------------------------------------------------------------------------
(* The first transaction of invoke().                                      *)

\* The event loop of p has nothing to run: every invocation it serves awaits.
Free(p) == \A i \in Invocations : inv[i].proc = p => inv[i].pc \notin SyncSteps

FreshVerdict(p, c) ==
    Decide(CapabilityOf[c], CallOf[c],
           [BaseWorld EXCEPT !.available = ProvidersOf[p],
                             !.suspended = suspended,
                             !.orgs = [o \in {NoOrg} |-> dial]])

Open(c) == result[c].status = "none"
RunRunning(c) == runs[Run(c)].status = "running"

\* A call seen for the first time is recorded, and decided, only for a running run.
Fresh(c) == decision[c] = "none" /\ RunRunning(c)

\* What lets a recorded call execute on a retry: its approval, or the allow
\* recorded before the process was lost.
MayExecuteUnresolved(c) == decision[c] \in {"allow", "require_approval"}
MayExecute(c) ==
    \/ decision[c] = "allow"
    \/ decision[c] = "require_approval" /\ approvals[c].status = "approved"

Retried(c) == decision[c] # "none" /\ Open(c)

Enter(i, p, c) ==
    /\ inv[i].pc = "idle"
    /\ Free(p)
    /\ inv' = [inv EXCEPT ![i] = [pc |-> "guard", call |-> c, proc |-> p, got |-> "none"]]
    /\ UNCHANGED inflight

Block(c, why) == result' = [result EXCEPT ![c] = ResultOf("blocked", why)]

SubmitBlocked(p, c) ==
    /\ Free(p) /\ Fresh(c)
    /\ FreshVerdict(p, c).outcome = "block"
    /\ decision' = [decision EXCEPT ![c] = "block"]
    /\ Block(c, IF FreshVerdict(p, c).reason = "suspended" THEN "suspended" ELSE "policy")
    /\ UNCHANGED <<queueVars, effect, postureVars, procVars, providerVars>>

SubmitForApproval(p, c) ==
    /\ Free(p) /\ Fresh(c)
    /\ FreshVerdict(p, c).outcome = "require_approval"
    /\ decision' = [decision EXCEPT ![c] = "require_approval"]
    /\ Queue!RequestForRun(c, Run(c), c, CallOf[c].requester, "fail_run")
    /\ UNCHANGED <<result, effect, postureVars, procVars, providerVars>>

SubmitAllowed(i, p, c) ==
    /\ Fresh(c)
    /\ FreshVerdict(p, c).outcome = "allow"
    /\ decision' = [decision EXCEPT ![c] = "allow"]
    /\ Enter(i, p, c)
    /\ UNCHANGED <<queueVars, result, effect, postureVars, providerVars>>

\* A retry with a stored result, or while its approval is pending, changes
\* nothing; a recorded block always has its result already.
RetryRejected(p, c) ==
    /\ Free(p) /\ Retried(c)
    /\ approvals[c].status = "rejected"
    /\ Block(c, "rejected")
    /\ UNCHANGED <<queueVars, decision, effect, postureVars, procVars, providerVars>>

RetrySuspended(p, c) ==
    /\ Free(p) /\ Retried(c)
    /\ MayExecute(c)
    /\ Grant(c) \in suspended
    /\ Block(c, "suspended")
    /\ UNCHANGED <<queueVars, decision, effect, postureVars, procVars, providerVars>>

RetryPermitted(i, p, c) ==
    /\ Retried(c)
    /\ MayExecute(c)
    /\ Grant(c) \notin suspended
    /\ Enter(i, p, c)
    /\ UNCHANGED <<queueVars, callVars, postureVars, providerVars>>

-------------------------------------------------------------------------------
(* executeProvider.                                                        *)

At(i, step) == inv[i].pc = step
Goto(i, step) == inv' = [inv EXCEPT ![i].pc = step]
Leave(i) == inv' = [inv EXCEPT ![i] = Idle]

GuardRun(i) ==
    /\ At(i, "guard")
    /\ IF RunRunning(inv[i].call) THEN Goto(i, "check") ELSE Leave(i)
    /\ UNCHANGED <<queueVars, callVars, postureVars, inflight, providerVars>>

\* A stored result is returned; a provider that is gone fails the call without
\* leaving an intent.
CheckResult(i) ==
    LET c == inv[i].call
        p == inv[i].proc
    IN
    /\ At(i, "check")
    /\ \/ ~Open(c) /\ Leave(i) /\ UNCHANGED result
       \/ /\ Open(c) /\ CallOf[c].provider \notin ProvidersOf[p]
          /\ result' = [result EXCEPT ![c] = ResultOf("failed", "unavailable")]
          /\ Leave(i)
       \/ /\ Open(c) /\ CallOf[c].provider \in ProvidersOf[p]
          /\ Goto(i, "effect")
          /\ UNCHANGED result
    /\ UNCHANGED <<queueVars, decision, effect, postureVars, inflight, providerVars>>

\* Whoever creates the intent starts the provider.  Whoever finds it there joins
\* the promise of its own process, or refuses to execute again.
NeverJoins(p, c) == IF ~effect[c] THEN "start" ELSE "refuse"
IgnoresIntent(p, c) == IF c \in inflight[p] THEN "joined" ELSE "start"
AlwaysJoins(p, c) == IF ~effect[c] THEN "start" ELSE "joined"
AfterEffect(p, c) ==
    IF ~effect[c] THEN "start"
    ELSE IF c \in inflight[p] THEN "joined"
    ELSE "refuse"

EnsureEffect(i) ==
    LET c == inv[i].call IN
    /\ At(i, "effect")
    /\ effect' = [effect EXCEPT ![c] = TRUE]
    /\ Goto(i, AfterEffect(inv[i].proc, c))
    /\ UNCHANGED <<queueVars, decision, result, postureVars, inflight, providerVars>>

PresumedDone == ResultOf("ok", "refused")
Refusal == ResultOf("failed", "refused")

RefuseToReexecute(i) ==
    LET c == inv[i].call IN
    /\ At(i, "refuse")
    /\ result' = IF Open(c) THEN [result EXCEPT ![c] = Refusal] ELSE result
    /\ Leave(i)
    /\ UNCHANGED <<queueVars, decision, effect, postureVars, inflight, providerVars>>

StartProvider(i) ==
    LET c == inv[i].call IN
    /\ At(i, "start")
    /\ executed' = [executed EXCEPT ![c] = @ + 1]
    /\ inflight' = [inflight EXCEPT ![inv[i].proc] = @ \cup {c}]
    /\ Goto(i, "provider")
    /\ UNCHANGED <<queueVars, callVars, postureVars, returned>>

\* The awaited answer resumes the invocation when its event loop is free.
ProviderAnswers(i, status) ==
    /\ At(i, "provider")
    /\ Free(inv[i].proc)
    /\ returned' = [returned EXCEPT ![inv[i].call] = status]
    /\ inv' = [inv EXCEPT ![i].pc = "record", ![i].got = status]
    /\ UNCHANGED <<queueVars, callVars, postureVars, inflight, executed>>

\* The provider throws, or its answer fails validation: the catch block records.
ProviderThrows(i) ==
    /\ At(i, "provider")
    /\ Free(inv[i].proc)
    /\ returned' = [returned EXCEPT ![inv[i].call] = "failed"]
    /\ inv' = [inv EXCEPT ![i].pc = "recordFailed", ![i].got = "failed"]
    /\ UNCHANGED <<queueVars, callVars, postureVars, inflight, executed>>

Joined(i) == {j \in Invocations : /\ inv[j].pc = "joined"
                                  /\ inv[j].call = inv[i].call
                                  /\ inv[j].proc = inv[i].proc}

Forget(i) == [inflight EXCEPT ![inv[i].proc] = @ \ {inv[i].call}]

\* The promise settles: its entry is deleted and every joined duplicate returns.
SettleKeepingEntry(i) ==
    /\ UNCHANGED inflight
    /\ inv' = [j \in Invocations |-> IF j \in Joined(i) \cup {i} THEN Idle ELSE inv[j]]
SettleAlone(i) == inflight' = Forget(i) /\ Leave(i)
Settle(i) ==
    /\ inflight' = Forget(i)
    /\ inv' = [j \in Invocations |-> IF j \in Joined(i) \cup {i} THEN Idle ELSE inv[j]]

\* A call has one result row; a second one is a conflict.
Overwritable(c) == TRUE
Recordable(c) == Open(c)

RecordOutcome(i) ==
    LET c == inv[i].call IN
    /\ At(i, "record")
    /\ Recordable(c)
    /\ result' = [result EXCEPT ![c] = ResultOf(inv[i].got, "provider")]
    /\ Settle(i)
    /\ UNCHANGED <<queueVars, decision, effect, postureVars, providerVars>>

\* Recording raises when the call has a result already, and may raise whenever
\* another process commits inside the transaction (SQLITE_BUSY_SNAPSHOT): the
\* catch block then records the call as failed.
RecordRaises(i) ==
    /\ At(i, "record")
    /\ Goto(i, "recordFailed")
    /\ UNCHANGED <<queueVars, callVars, postureVars, inflight, providerVars>>

RecordFailure(i) ==
    LET c == inv[i].call IN
    /\ At(i, "recordFailed")
    /\ Recordable(c)
    /\ result' = [result EXCEPT ![c] = ResultOf("failed", "provider")]
    /\ Settle(i)
    /\ UNCHANGED <<queueVars, decision, effect, postureVars, providerVars>>

FailureRaises(i) ==
    /\ At(i, "recordFailed")
    /\ Settle(i)
    /\ UNCHANGED <<queueVars, callVars, postureVars, providerVars>>

-------------------------------------------------------------------------------
(* Everybody else.                                                         *)

Crash(p) ==
    /\ \E i \in Invocations : inv[i].proc = p
    /\ inflight' = [inflight EXCEPT ![p] = {}]
    /\ inv' = [i \in Invocations |-> IF inv[i].proc = p THEN Idle ELSE inv[i]]
    /\ UNCHANGED <<queueVars, callVars, postureVars, providerVars>>

\* The queue's own transactions: a human resolves an approval, a service starts
\* or ends a run.
Resolve(c, q) ==
    /\ Queue!ApproveForRun(c, q) \/ Queue!RejectForRun(c, q)
    /\ UNCHANGED <<callVars, postureVars, procVars, providerVars>>

MoveRun(r) ==
    /\ \/ Queue!StartRun(r)
       \/ Queue!RecordWhileSuspended(r, "run_started")
       \/ \E status \in {"running", "completed", "failed"} :
              Queue!DriveRun(r, status, IF status = "running" THEN "run_started" ELSE "run_ended")
    /\ UNCHANGED <<callVars, postureVars, procVars, providerVars>>

SuspendGrant(g) ==
    /\ suspended' = suspended \cup {g}
    /\ UNCHANGED <<queueVars, callVars, dial, procVars, providerVars>>

LiftGrant(g) ==
    /\ suspended' = suspended \ {g}
    /\ UNCHANGED <<queueVars, callVars, dial, procVars, providerVars>>

TurnDial(level) ==
    /\ dial' = level
    /\ UNCHANGED <<queueVars, callVars, suspended, procVars, providerVars>>

-------------------------------------------------------------------------------

Answer(p, c) ==
    \/ SubmitBlocked(p, c) \/ SubmitForApproval(p, c)
    \/ RetryRejected(p, c) \/ RetrySuspended(p, c)

Admit(i, p, c) == SubmitAllowed(i, p, c) \/ RetryPermitted(i, p, c)

\* The steps an admitted invocation takes by itself.
Proceed(i) ==
    \/ GuardRun(i) \/ CheckResult(i) \/ EnsureEffect(i) \/ RefuseToReexecute(i)
    \/ StartProvider(i)
    \/ \E status \in {"ok", "failed"} : ProviderAnswers(i, status)
    \/ ProviderThrows(i)
    \/ RecordOutcome(i) \/ RecordRaises(i) \/ RecordFailure(i) \/ FailureRaises(i)

Serve ==
    \/ \E p \in Procs, c \in Calls : Answer(p, c)
    \/ \E i \in Invocations, p \in Procs, c \in Calls : Admit(i, p, c)
    \/ \E i \in Invocations : Proceed(i)

Surroundings ==
    \/ \E c \in Calls, q \in Principals : Resolve(c, q)
    \/ \E r \in Runs : MoveRun(r)
    \/ \E g \in Grants : SuspendGrant(g) \/ LiftGrant(g)
    \/ \E level \in Dials : TurnDial(level)

Next == Serve \/ Surroundings \/ \E p \in Procs : Crash(p)

Spec == Init /\ [][Next]_vars

\* An event loop serves every continuation that becomes ready, and a provider
\* call ends: it answers, throws or times out.
EventLoopFairness == \A i \in Invocations : SF_vars(Proceed(i))

\* A client keeps retrying a call that has no result.
Retry(c) ==
    \E p \in Procs : \/ RetryRejected(p, c) \/ RetrySuspended(p, c)
                     \/ \E i \in Invocations : RetryPermitted(i, p, c)
ClientsRetry == \A c \in Calls : SF_vars(Retry(c))

FairSpec == Spec /\ EventLoopFairness

-------------------------------------------------------------------------------
(* What the gateway guarantees.                                            *)

PermissionOf(c) ==
    IF decision[c] = "block" \/ approvals[c].status = "rejected" THEN "denied"
    ELSE IF decision[c] = "allow" \/ approvals[c].status = "approved" THEN "granted"
    ELSE "undecided"

\* A provider is started at most once per call, through retries, duplicates,
\* several processes and crashes: the intent is durable before it (registry.ts:557).
AtMostOnce == \A c \in Calls : executed[c] <= 1

\* A provider was started only for a call the policy allowed or a human approved;
\* a blocked, pending or rejected call never reached one.
OnlyAuthorisedExecute == \A c \in Calls : executed[c] > 0 => PermissionOf(c) = "granted"

\* An ok result is never claimed for a call whose provider did not answer ok:
\* neither a retry nor a failed write turns into a success.
OkMeansPerformed ==
    \A c \in Calls : result[c].status = "ok" => executed[c] = 1 /\ returned[c] = "ok"

\* Once a call has its result, no duplicate, late answer or crash changes it.
ResultIsFinal == [][\A c \in Calls : ~Open(c) => result'[c] = result[c]]_vars

\* A process refuses to re-execute a call only when it lost the execution: never
\* while one of its own invocations is starting the provider or awaits it.
RefusedMeansLost ==
    [][\A c \in Calls :
          (result'[c] # result[c] /\ result'[c].why = "refused") =>
              \E i \in Invocations :
                  /\ inv[i].call = c /\ inv'[i].pc = "idle" /\ inv[i].pc # "idle"
                  /\ \A j \in Invocations :
                        (inv[j].call = c /\ inv[j].proc = inv[i].proc)
                            => inv[j].pc \notin {"start", "provider"}]_vars

\* Every promise a process holds belongs to exactly one invocation that awaits its
\* provider or records its answer, and every joined duplicate waits on such a
\* promise: no entry of the map outlives its execution.
PromisesHaveOwners ==
    /\ \A p \in Procs, c \in Calls :
          c \in inflight[p] <=>
              Cardinality({i \in Invocations :
                  /\ inv[i].proc = p /\ inv[i].call = c
                  /\ inv[i].pc \in {"provider", "record", "recordFailed"}}) = 1
    /\ \A i \in Invocations : inv[i].pc = "joined" => inv[i].call \in inflight[inv[i].proc]

\* The in-flight map can be believed in both directions: what it holds is being
\* executed, and a process that refuses a call because the map does not hold it is
\* not executing it (registry.ts: executeProvider).
PromisesAreKept == []PromisesHaveOwners /\ RefusedMeansLost

\* An invocation never hangs: it leaves executeProvider, or its process is lost.
NoInvocationHangs == \A i \in Invocations : inv[i].pc # "idle" ~> inv[i].pc = "idle"

\* A durable intent never stays without a conclusion while its run lives, if its
\* clients retry and processes stop crashing: it is performed or refused.
IntentIsConcluded ==
    \A c \in Calls : effect[c] ~> (~Open(c) \/ runs[Run(c)].status \in Queue!Terminal)

-------------------------------------------------------------------------------
(* The gateway implements the abstract life of a governed call.            *)

Governed == INSTANCE GovernedCall WITH
    permission <- [c \in Calls |-> PermissionOf(c)],
    intent <- effect,
    performed <- executed,
    outcome <- [c \in Calls |-> result[c].status]

\* Every step of the gateway is a step of that life or leaves it alone.
ImplementsGovernedCall == Governed!Spec
===============================================================================
