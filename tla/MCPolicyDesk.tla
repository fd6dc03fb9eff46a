----------------------------- MODULE MCPolicyDesk -----------------------------
(* Three bounded slices of the inputs of decisions: one varies what the dial  *)
(* weighs, one what the gates check, each from a call that passes; the third  *)
(* sees several calls of one grant, refused by a gate or sent to a human.     *)
EXTENDS PolicyDesk

BaseCap == [permission |-> "enabled", risk |-> "low", sideEffecting |-> FALSE,
            providers |-> {"p"}, needsCredential |-> FALSE,
            credential |-> NoCredential, fields |-> {}]

BaseCall == [workspace |-> "w", run |-> "r", capability |-> "k", provider |-> "p",
             requester |-> "agent", byWorker |-> FALSE, actor |-> "agent",
             risk |-> "low", sideEffecting |-> FALSE,
             credential |-> NoCredential, resource |-> [f \in {"repo"} |-> "mine"]]

BaseTask == [workspace |-> "w", run |-> "r", assignee |-> "agent",
             capabilities |-> {"k"}, grants |-> [f \in {"repo"} |-> {"mine"}]]

BaseWorld == [task |-> BaseTask, available |-> {"p"}, effectful |-> {},
              roleGrants |-> [q \in {"agent"} |-> {"k"}],
              workerGrants |-> [q \in {"agent"} |-> {"k"}],
              enabledWorkers |-> {"agent"}, suspended |-> {},
              orgs |-> [o \in {"o1"} |-> "bounded"], defaultOrg |-> NoOrg]

OrgSettings ==
    UNION {[os -> Levels] : os \in SUBSET {"o1", "o2"}}

DialCapabilities ==
    {[BaseCap EXCEPT !.permission = p, !.risk = x, !.sideEffecting = s] :
        p \in Permissions, x \in Risks, s \in BOOLEAN}
DialCalls ==
    {[BaseCall EXCEPT !.risk = x, !.sideEffecting = s] : x \in Risks, s \in BOOLEAN}
DialWorlds ==
    {[BaseWorld EXCEPT !.orgs = os, !.defaultOrg = d, !.effectful = e] :
        os \in OrgSettings, d \in {"o1", NoOrg}, e \in SUBSET {"p"}}

GateCapabilities ==
    {[BaseCap EXCEPT !.needsCredential = n, !.credential = c, !.fields = fs,
                     !.providers = ps] :
        n \in BOOLEAN, c \in {"cred", NoCredential}, fs \in SUBSET {"repo"},
        ps \in {{}, {"p"}}}
GateCalls ==
    {[BaseCall EXCEPT !.byWorker = b, !.actor = a, !.credential = c,
                      !.resource = [f \in {"repo"} |-> v]] :
        b \in BOOLEAN, a \in {"agent", "other"},
        c \in {"cred", "stolen", NoCredential}, v \in {"mine", "theirs"}}
GateTasks ==
    {NoTask, BaseTask}
        \cup {[BaseTask EXCEPT !.workspace = "x"], [BaseTask EXCEPT !.run = "x"],
              [BaseTask EXCEPT !.assignee = "other"], [BaseTask EXCEPT !.capabilities = {}],
              [BaseTask EXCEPT !.grants = [f \in {"repo"} |-> {}]]}
GateWorlds ==
    {[BaseWorld EXCEPT !.task = t, !.available = av] :
        t \in GateTasks, av \in {{}, {"p"}}}
      \cup {[BaseWorld EXCEPT !.roleGrants = [q \in {"agent"} |-> {}]],
            [BaseWorld EXCEPT !.workerGrants = [q \in {"agent"} |-> {}]],
            [BaseWorld EXCEPT !.enabledWorkers = {}]}

DialDesk == [capabilities |-> DialCapabilities, calls |-> DialCalls, worlds |-> DialWorlds,
             turns |-> 0]
GateDesk == [capabilities |-> GateCapabilities, calls |-> GateCalls, worlds |-> GateWorlds,
             turns |-> 0]

\* A capability of its own keeps this desk apart from the other two.
TimeDesk == [capabilities |-> {[BaseCap EXCEPT !.permission = "approval_required",
                                               !.fields = {"repo"}, !.risk = "medium"]},
             calls |-> {BaseCall, [BaseCall EXCEPT !.resource = [f \in {"repo"} |-> "theirs"]],
                        [BaseCall EXCEPT !.byWorker = TRUE]},
             worlds |-> {BaseWorld},
             turns |-> 3]

AllDesks == {DialDesk, GateDesk, TimeDesk}
OneDesk == {TimeDesk}
OneGrant == {<<"agent", "k">>}
TwoOfEach == [window |-> 2, cooldown |-> 1, threshold |-> [t \in Triggers |-> 2]]
OneRejection == [window |-> 1, cooldown |-> 0,
                 threshold |-> [repeated_rejections |-> 1, policy_violations |-> 2]]
TwoPolicies == {TwoOfEach, OneRejection}
OnePolicy == {TwoOfEach}
===============================================================================
