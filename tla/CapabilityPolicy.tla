--------------------------- MODULE CapabilityPolicy ---------------------------
(***************************************************************************)
(* The decision every fresh capability call gets: the gates of             *)
(* capabilities/registry.ts (decideCall) in their order, and the autonomy  *)
(* dial of governance/service.ts.  Everything here is a function of        *)
(*   cap    the registered capability,                                     *)
(*   call   what the caller submits, its self-reported risk included,      *)
(*   world  what the database and the process hold at that moment.         *)
(***************************************************************************)
EXTENDS Naturals

CONSTANTS NoTask, NoCredential, NoOrg

Risks == {"low", "medium", "high"}
Levels == {"advisory", "supervised", "bounded"}
Permissions == {"enabled", "approval_required", "disabled"}

RiskOrder == [low |-> 0, medium |-> 1, high |-> 2]
Strictness == [advisory |-> 0, supervised |-> 1, bounded |-> 2]

\* The declared risk is a floor: a call raises it, never lowers it.
ReportedRisk(cap, call) == call.risk
EffectiveRisk(cap, call) ==
    IF RiskOrder[cap.risk] >= RiskOrder[call.risk] THEN cap.risk ELSE call.risk

Consequential(cap, call) == cap.sideEffecting \/ call.sideEffecting

\* Whether a granted, enabled call needs a human at this level.
NeedsApprovalOnlySupervised(cap, call, level) ==
    \/ cap.permission = "approval_required"
    \/ EffectiveRisk(cap, call) = "high"
    \/ level = "supervised" /\ Consequential(cap, call)
    \/ level = "advisory" /\ EffectiveRisk(cap, call) # "low"
NeedsApproval(cap, call, level) ==
    \/ cap.permission = "approval_required"
    \/ EffectiveRisk(cap, call) = "high"
    \/ /\ level # "bounded"
       /\ \/ Consequential(cap, call)
          \/ level = "advisory" /\ EffectiveRisk(cap, call) # "low"

\* The tightest of a nonempty set of levels.
LoosestOf(levels) ==
    CHOOSE l \in levels : \A m \in levels : Strictness[m] <= Strictness[l]
TightestOf(levels) ==
    CHOOSE l \in levels : \A m \in levels : Strictness[l] <= Strictness[m]

\* The workspace's dial: its only organization's level, its default's when it
\* has several, the tightest of all when the default does not resolve.
AutonomyLevel(orgs, default) ==
    LET levels == {orgs[o] : o \in DOMAIN orgs} IN
    IF levels = {} THEN "advisory"
    ELSE IF \E o \in DOMAIN orgs : DOMAIN orgs = {o} THEN CHOOSE l \in levels : TRUE
    ELSE IF default \in DOMAIN orgs THEN orgs[default]
    ELSE TightestOf(levels)

-------------------------------------------------------------------------------
(* The gates, in the order the registry asks them.                         *)

\* The call stays inside the envelope of the task it names.
WithinTask(call, task) ==
    /\ task # NoTask
    /\ task.workspace = call.workspace
    /\ task.run = call.run
    /\ task.assignee = call.requester
    /\ call.capability \in task.capabilities

\* A credential is bound to the capability, never chosen by the caller.
CredentialBound(cap, call) ==
    /\ cap.needsCredential => call.credential # NoCredential /\ cap.credential # NoCredential
    /\ call.credential # NoCredential => call.credential = cap.credential

\* Neither the capability nor an effectful provider can be called as if it had
\* no side effect.
EffectTrusted(cap, call, world) == cap.sideEffecting => call.sideEffecting
EffectDeclared(cap, call, world) ==
    /\ cap.sideEffecting => call.sideEffecting
    /\ call.provider \in world.effectful => cap.sideEffecting /\ call.sideEffecting

PassesGateway(cap, call, world) ==
    /\ call.provider \in cap.providers
    /\ call.provider \in world.available
    /\ CredentialBound(cap, call)
    /\ EffectDeclared(cap, call, world)

\* Default deny: every declared resource field is granted by the envelope with
\* the very value the call carries.
AnyResources(cap, call, task) == TRUE
WithinResources(cap, call, task) ==
    \A f \in cap.fields : call.resource[f] \in task.grants[f]

\* Who asks: a worker is checked against its own identity row, an agent against
\* the grants of its roles.
HoldsGrant(cap, call, world) ==
    /\ cap.permission # "disabled"
    /\ IF call.byWorker
       THEN /\ call.actor = call.requester
            /\ call.requester \in world.enabledWorkers
            /\ call.capability \in world.workerGrants[call.requester]
       ELSE call.capability \in world.roleGrants[call.requester]

Suspended(call, world) == <<call.requester, call.capability>> \in world.suspended

Verdict(outcome, reason) == [outcome |-> outcome, reason |-> reason]

\* The reason matters to the narrowing scan, which does not count the blocks a
\* suspension causes; among other refusals it is one value.
Decide(cap, call, world) ==
    LET level == AutonomyLevel(world.orgs, world.defaultOrg) IN
    IF ~WithinTask(call, world.task) THEN Verdict("block", "boundary")
    ELSE IF ~PassesGateway(cap, call, world) THEN Verdict("block", "gateway")
    ELSE IF ~WithinResources(cap, call, world.task) THEN Verdict("block", "resource")
    ELSE IF ~HoldsGrant(cap, call, world) THEN Verdict("block", "grant")
    ELSE IF Suspended(call, world) THEN Verdict("block", "suspended")
    ELSE IF NeedsApproval(cap, call, level) THEN Verdict("require_approval", "dial")
    ELSE Verdict("allow", "dial")

===============================================================================
