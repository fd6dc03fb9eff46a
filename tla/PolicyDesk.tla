------------------------------ MODULE PolicyDesk ------------------------------
(***************************************************************************)
(* Policy decisions over time.  A call lies on the desk; the posture of    *)
(* the workspace may still move; the call is judged, against the posture   *)
(* of that moment.  What the decisions and the humans refuse goes on       *)
(* record, where the narrowing scan finds it, and what the scan suspends   *)
(* the next decision refuses.                                              *)
(***************************************************************************)
EXTENDS CapabilityPolicy, Narrowing

CONSTANTS Desks,      \* the inputs a decision may get: each desk has its
                      \* capabilities, its calls, its worlds and a bound on
                      \* the calls that follow the first
          Pending     \* no verdict yet

Carries(row, fields) == row = [f \in DOMAIN row |-> row[f]] /\ fields \subseteq DOMAIN row

ASSUME DeskAssumption ==
    \A desk \in Desks :
        /\ \A cap \in desk.capabilities :
              cap.permission \in Permissions /\ cap.risk \in Risks /\ cap.sideEffecting \in BOOLEAN
        /\ \A call \in desk.calls :
              /\ Carries(call, {"risk", "sideEffecting"})
              /\ call.risk \in Risks /\ call.sideEffecting \in BOOLEAN
              /\ <<call.requester, call.capability>> \in Grants
        /\ \A w \in desk.worlds : /\ Carries(w, {"orgs", "suspended"})
                                  /\ \A o \in DOMAIN w.orgs : w.orgs[o] \in Levels
        /\ desk.turns \in Nat

VARIABLES
    capability, submitted, world,   \* the call on the desk, and the posture
    verdict,
    turns,                          \* calls that may still follow
    awaiting                        \* calls of each grant that wait for a human

deskVars == <<capability, submitted, world, verdict, turns, awaiting>>
vars == <<deskVars, narrowingVars>>

Verdicts == [outcome : {"allow", "require_approval", "block"},
             reason : {"boundary", "gateway", "resource", "grant", "suspended", "dial"}]

OnDesk(desk) ==
    capability \in desk.capabilities /\ submitted \in desk.calls /\ world \in desk.worlds

Grant == <<submitted.requester, submitted.capability>>
Posture == [world EXCEPT !.suspended = SuspendedGrants]

\* What lies on the desk is one of the inputs of some desk, the verdict is a verdict,
\* and the records of the narrowing have their types.
TypeOK ==
    /\ \E desk \in Desks : OnDesk(desk)
    /\ verdict \in Verdicts \cup {Pending}
    /\ awaiting \in [Grants -> Nat]
    /\ NarrowingTypeOK

Init ==
    /\ \E desk \in Desks : OnDesk(desk) /\ turns = desk.turns
    /\ verdict = Pending
    /\ awaiting = [grant \in Grants |-> 0]
    /\ NarrowingInit

\* The dial, the grants, the envelope, the suspensions: all are read afresh when
\* the call is judged, so any of them may differ from what the caller saw.
MovePosture ==
    /\ verdict = Pending
    /\ \E desk \in Desks : OnDesk(desk) /\ world' \in desk.worlds
    /\ UNCHANGED <<capability, submitted, verdict, turns, awaiting, narrowingVars>>

\* The decision is recorded with its reason; one that asks for approval leaves the
\* call with the humans.
Judge ==
    /\ verdict = Pending
    /\ verdict' = Decide(capability, submitted, Posture)
    /\ \/ /\ verdict'.outcome = "block"
          /\ Logged(IF verdict'.reason = "suspended" THEN "suspension_block"
                    ELSE "policy_violations", Grant)
          /\ UNCHANGED awaiting
       \/ /\ verdict'.outcome = "require_approval"
          /\ awaiting' = [awaiting EXCEPT ![Grant] = @ + 1]
          /\ UNCHANGED log
       \/ /\ verdict'.outcome = "allow"
          /\ UNCHANGED <<awaiting, log>>
    /\ UNCHANGED <<capability, submitted, world, turns, clock, policy, suspensions>>

\* A human decides a call, now or long after; a rejection names the call's grant.
Resolve(grant) ==
    /\ awaiting[grant] > 0
    /\ awaiting' = [awaiting EXCEPT ![grant] = @ - 1]
    /\ UNCHANGED log \/ Logged("repeated_rejections", grant)
    /\ UNCHANGED <<capability, submitted, world, verdict, turns, clock, policy, suspensions>>

NextCall ==
    /\ verdict # Pending
    /\ turns > 0
    /\ turns' = turns - 1
    /\ verdict' = Pending
    /\ \E desk \in Desks : OnDesk(desk) /\ submitted' \in desk.calls
    /\ UNCHANGED <<capability, world, awaiting, narrowingVars>>

\* Narrowing goes on beside a desk that sees more than one call.
NarrowGrants ==
    /\ \E desk \in Desks : OnDesk(desk) /\ desk.turns > 0
    /\ Narrow
    /\ UNCHANGED deskVars

Next ==
    \/ MovePosture \/ Judge \/ NextCall \/ NarrowGrants
    \/ \E grant \in Grants : Resolve(grant)

Spec == Init /\ [][Next]_vars

-------------------------------------------------------------------------------

\* block is the strongest outcome, allow the weakest.
Weight == [allow |-> 0, require_approval |-> 1, block |-> 2]

OutcomeOf(call, w) == Decide(capability, call, w).outcome

AtLevel(level) == [Posture EXCEPT !.orgs = [o \in {NoOrg} |-> level]]

\* The dial is monotone: whatever a looser level gates, a tighter level gates at
\* least as strongly (the comment on approvalTrigger, governance/service.ts:28).
DialIsMonotone ==
    \A tight, loose \in Levels :
        Strictness[tight] <= Strictness[loose] =>
            Weight[OutcomeOf(submitted, AtLevel(loose))]
                <= Weight[OutcomeOf(submitted, AtLevel(tight))]

\* Under-reporting gains nothing: a call that states a lower risk or no side
\* effect is never treated more leniently than the same call repeating what its
\* capability declares (the declared values are a floor, service.ts:43).
UnderReportingGainsNothing ==
    LET honest == [submitted EXCEPT !.risk = capability.risk,
                                    !.sideEffecting = capability.sideEffecting]
    IN  Weight[OutcomeOf(honest, Posture)] <= Weight[OutcomeOf(submitted, Posture)]

\* Neither a tighter dial nor a milder report loosens a decision: the policy can only be
\* moved towards more human control, by the level or by what a call says of itself.
PolicyOnlyTightens == DialIsMonotone /\ UnderReportingGainsNothing

\* A provider that acts on the world is never allowed without a human below the
\* bounded level, even when the capability and the call both deny the effect
\* (registry.ts:396).
EffectfulNeedsHuman ==
    (/\ verdict # Pending
     /\ submitted.provider \in world.effectful
     /\ AutonomyLevel(world.orgs, world.defaultOrg) # "bounded")
        => verdict.outcome # "allow"

\* A call that is not blocked names only resources its own envelope granted,
\* carries no credential but its capability's, and its grant is not suspended at
\* that moment: no gate is skipped on the worker's path or on the agent's, and a
\* suspension stops the very next decision.
PermittedCallIsConfined ==
    [][(verdict = Pending /\ verdict' # Pending /\ verdict'.outcome # "block") =>
          /\ world.task # NoTask /\ world.task.assignee = submitted.requester
          /\ \A f \in capability.fields : submitted.resource[f] \in world.task.grants[f]
          /\ submitted.credential \in {NoCredential, capability.credential}
          /\ ~Active(Grant)]_vars

\* With several organizations and no default that resolves, the workspace is as
\* tight as the tightest of them, and with none it is advisory.
AmbiguityFailsClosed ==
    LET level == AutonomyLevel(world.orgs, world.defaultOrg) IN
    /\ world.defaultOrg \notin DOMAIN world.orgs =>
           \A o \in DOMAIN world.orgs : Strictness[level] <= Strictness[world.orgs[o]]
    /\ DOMAIN world.orgs = {} => level = "advisory"
===============================================================================
