---------------------------- MODULE PolicyDeskProofs ----------------------------
(***************************************************************************)
(* What holds of decisions and of narrowing for every set of grants, every *)
(* policy a human may ratify and every desk.                               *)
(*                                                                         *)
(* SuspensionsAreEarned is inductive with the types of its records: a new  *)
(* suspension rests on evidence less what lifted suspensions rest on, and  *)
(* is written only where none is active, so the earlier suspensions of its *)
(* grant are all lifted and share no event with it.                        *)
(***************************************************************************)
EXTENDS PolicyDesk, TLAPS

-------------------------------------------------------------------------------
(* The records of the narrowing.                                           *)

Event == [kind : Kinds, grant : Grants, at : Nat]
Suspension ==
    [grant : Grants, trigger : Triggers, evidence : SUBSET Nat, threshold : Nat \ {0},
     status : {"active", "lifted"}, created_at : Nat, cooldown_until : Nat,
     lifted_at : Nat \cup {Forever}]

\* What is written of a suspension, beyond the shape of its record.
RecordOK(s) ==
    /\ s.evidence \subseteq DOMAIN log
    /\ s.created_at \in 0 .. clock
    /\ \/ s.status = "active" /\ s.lifted_at = Forever
       \/ s.status = "lifted" /\ s.lifted_at \in s.cooldown_until .. clock

Records ==
    /\ clock \in Times
    /\ policy \in Policies \cup {NoPolicy}
    /\ log \in Seq(Event)
    /\ \A i \in DOMAIN log : log[i].at <= clock
    /\ suspensions \subseteq Suspension
    /\ \A s \in suspensions : RecordOK(s)

NarrowInv == Records /\ SuspensionsAreEarned

\* What is logged is an event, at a time of the clock.
LEMMA LoggedOK ==
  ASSUME Records PROVE \A i \in DOMAIN log : log[i] \in Event /\ log[i].at \in 0 .. clock
<1>1. \A i \in DOMAIN log : log[i] \in Event
  BY DEF Records
<1> QED
  BY <1>1, NarrowingAssumption DEF NarrowingAssumption, Records, Event, Times

\* What leaves grants, verdicts and suspensions alone keeps their records right.
LEMMA UntouchedRecords ==
  ASSUME NarrowInv, UNCHANGED narrowingVars PROVE NarrowInv'
  BY DEF narrowingVars, NarrowInv, Records, RecordOK, SuspensionsAreEarned

\* The evidence a scan counts is of the grant and trigger it weighs, and was not
\* judged before (narrowing.ts: scan).
LEMMA EvidenceOK ==
  ASSUME NEW trigger \in Triggers, NEW grant
  PROVE  /\ Evidence(trigger, grant) \subseteq DOMAIN log
         /\ \A i \in Evidence(trigger, grant) :
               log[i].grant = grant /\ log[i].kind # "suspension_block"
         /\ Evidence(trigger, grant) \cap Adjudicated(grant) = {}
  BY DEF Evidence, Windowed, IsEvidence, Triggers

\* A lifted suspension leaves nothing of its own to be counted again.
LEMMA LiftedIsAdjudicated ==
  ASSUME NEW s \in suspensions, s.status = "lifted"
  PROVE  s.evidence \subseteq Adjudicated(s.grant)
  BY DEF Adjudicated

\* A new suspension is one grant's, under one trigger the scan found earned, and
\* the scan writes one per grant (narrowing.ts: scan, suspend).
LEMMA NewIsEarned ==
  ASSUME NEW n \in NewSuspensions
  PROVE  /\ n.grant \in Grants /\ n.trigger \in Triggers
         /\ MaySuspend(n.trigger, n.grant)
         /\ n = [grant |-> n.grant, trigger |-> n.trigger,
                 evidence |-> Evidence(n.trigger, n.grant),
                 threshold |-> policy.threshold[n.trigger], status |-> "active",
                 created_at |-> clock, cooldown_until |-> clock + policy.cooldown,
                 lifted_at |-> Forever]
         /\ \A m \in NewSuspensions : n.grant = m.grant => n = m
<1> DEFINE New(t, g) == [grant |-> g, trigger |-> t, evidence |-> Evidence(t, g),
                         threshold |-> policy.threshold[t], status |-> "active",
                         created_at |-> clock, cooldown_until |-> clock + policy.cooldown,
                         lifted_at |-> Forever]
<1>1. \A m \in NewSuspensions :
         \E t \in Triggers, g \in Grants :
             /\ m = New(t, g) /\ MaySuspend(t, g)
             /\ t = "policy_violations" => ~MaySuspend("repeated_rejections", g)
  BY DEF NewSuspensions, Earned, Triggers
<1>2. \A m \in NewSuspensions :
         /\ m.grant \in Grants /\ m.trigger \in Triggers /\ m = New(m.trigger, m.grant)
         /\ MaySuspend(m.trigger, m.grant)
         /\ m.trigger = "policy_violations" => ~MaySuspend("repeated_rejections", m.grant)
  <2> SUFFICES ASSUME NEW m \in NewSuspensions
               PROVE  /\ m.grant \in Grants /\ m.trigger \in Triggers
                      /\ m = New(m.trigger, m.grant) /\ MaySuspend(m.trigger, m.grant)
                      /\ m.trigger = "policy_violations"
                            => ~MaySuspend("repeated_rejections", m.grant)
    OBVIOUS
  <2>1. PICK t \in Triggers, g \in Grants :
           /\ m = New(t, g) /\ MaySuspend(t, g)
           /\ t = "policy_violations" => ~MaySuspend("repeated_rejections", g)
    BY <1>1
  <2>2. m.trigger = t /\ m.grant = g
    BY <2>1
  <2> QED
    BY <2>1, <2>2
<1>3. ASSUME NEW m \in NewSuspensions, n.grant = m.grant PROVE n = m
  <2>1. n.trigger = m.trigger
    BY <1>2, <1>3 DEF Triggers
  <2> QED
    BY <1>2, <1>3, <2>1
<1> QED
  BY <1>2, <1>3

\* Where a suspension may be written none is active, so all earlier ones of its grant
\* are lifted and their evidence is adjudicated.
LEMMA NewIsDisjoint ==
  ASSUME Records, NEW n \in NewSuspensions, NEW s \in suspensions, n.grant = s.grant
  PROVE  n.evidence \cap s.evidence = {} /\ s.status # "active"
<1>1. s.status = "lifted"
  BY NewIsEarned DEF MaySuspend, Active, Records, Suspension
<1>2. n.trigger \in Triggers /\ n.evidence = Evidence(n.trigger, n.grant)
  BY NewIsEarned
<1> QED
  BY <1>1, <1>2, EvidenceOK, LiftedIsAdjudicated

\* The sentinel suspends only what its open verdicts name.
LEMMA ScanKeepsRecords == ASSUME NarrowInv, Scan PROVE NarrowInv'
<1>0. /\ policy \in Policies /\ clock \in Nat /\ clock' = clock /\ log' = log
      /\ policy' = policy /\ suspensions' = suspensions \cup NewSuspensions
  BY NarrowingAssumption DEF NarrowingAssumption, NarrowInv, Records, Scan, Times
<1>1. \A n \in NewSuspensions : n \in Suspension /\ RecordOK(n)
  <2> SUFFICES ASSUME NEW n \in NewSuspensions PROVE n \in Suspension /\ RecordOK(n)
    OBVIOUS
  <2>1. policy.threshold[n.trigger] \in Nat \ {0} /\ policy.cooldown \in Nat
    BY <1>0, NewIsEarned, NarrowingAssumption DEF NarrowingAssumption
  <2>2. DOMAIN log \subseteq Nat
    BY DEF NarrowInv, Records
  <2>3. n.evidence \subseteq DOMAIN log
    BY NewIsEarned, EvidenceOK
  <2>4. n \in Suspension
    BY <1>0, <2>1, <2>2, <2>3, NewIsEarned DEF Suspension
  <2> QED
    BY <1>0, <2>3, <2>4, NewIsEarned DEF RecordOK
<1>2. Records'
  BY <1>0, <1>1 DEF NarrowInv, Records, RecordOK
<1>3. \A n \in NewSuspensions :
         /\ Cardinality(n.evidence) >= n.threshold
         /\ \A i \in n.evidence : log[i].grant = n.grant /\ log[i].kind # "suspension_block"
  BY NewIsEarned, EvidenceOK DEF MaySuspend
<1>4. ASSUME NEW s \in suspensions', NEW other \in suspensions' \ {s}, s.grant = other.grant
      PROVE  /\ s.evidence \cap other.evidence = {}
             /\ ~(s.status = "active" /\ other.status = "active")
  <2>1. CASE s \in suspensions /\ other \in suspensions
    BY <2>1, <1>4 DEF NarrowInv, SuspensionsAreEarned
  <2>2. CASE s \in NewSuspensions /\ other \in suspensions
    BY <2>2, <1>4, NewIsDisjoint DEF NarrowInv
  <2>3. CASE s \in suspensions /\ other \in NewSuspensions
    BY <2>3, <1>4, NewIsDisjoint DEF NarrowInv
  <2>4. CASE s \in NewSuspensions /\ other \in NewSuspensions
    BY <2>4, <1>4, NewIsEarned
  <2> QED
    BY <1>0, <1>4, <2>1, <2>2, <2>3, <2>4
<1>5. SuspensionsAreEarned'
  BY <1>0, <1>3, <1>4 DEF NarrowInv, SuspensionsAreEarned
<1> QED
  BY <1>2, <1>5 DEF NarrowInv

\* A lift changes the status of a suspension, never what it rests on
\* (narrowing.ts: lift).
LEMMA LiftKeepsRecords == ASSUME NarrowInv, NEW s \in suspensions, Lift(s) PROVE NarrowInv'
<1> DEFINE l == [s EXCEPT !.status = "lifted", !.lifted_at = clock]
<1>0. /\ s \in Suspension /\ clock \in Nat /\ clock' = clock /\ log' = log /\ policy' = policy
      /\ clock >= s.cooldown_until /\ suspensions' = (suspensions \ {s}) \cup {l}
  BY NarrowingAssumption DEF NarrowingAssumption, NarrowInv, Records, Lift, Times
<1>1. /\ l \in Suspension /\ l.grant = s.grant /\ l.evidence = s.evidence
      /\ l.threshold = s.threshold /\ l.status = "lifted" /\ l.lifted_at = clock
      /\ l.created_at = s.created_at /\ l.cooldown_until = s.cooldown_until
  BY <1>0 DEF Suspension
<1> HIDE DEF l
<1>2. RecordOK(l)
  BY <1>0, <1>1 DEF NarrowInv, Records, RecordOK, Suspension
<1>3. Records'
  BY <1>0, <1>1, <1>2 DEF NarrowInv, Records, RecordOK
<1>4. SuspensionsAreEarned'
  BY <1>0, <1>1 DEF NarrowInv, SuspensionsAreEarned
<1> QED
  BY <1>3, <1>4 DEF NarrowInv

\* An event goes to the end of the log, where no suspension rests on it yet.
LEMMA LogKeepsRecords ==
  ASSUME NarrowInv, NEW kind \in Kinds, NEW grant \in Grants, Logged(kind, grant),
         UNCHANGED <<clock, policy, suspensions>>
  PROVE  NarrowInv'
<1>1. /\ log' \in Seq(Event) /\ DOMAIN log \subseteq DOMAIN log'
      /\ \A i \in DOMAIN log : log'[i] = log[i]
      /\ \A i \in DOMAIN log' : log'[i].at <= clock
  <2>1. [kind |-> kind, grant |-> grant, at |-> clock] \in Event /\ clock \in Nat
    BY NarrowingAssumption DEF NarrowingAssumption, Event, NarrowInv, Records, Times
  <2> QED
    BY <2>1 DEF Logged, NarrowInv, Records
<1>2. Records'
  BY <1>1 DEF NarrowInv, Records, RecordOK
<1>3. SuspensionsAreEarned'
  BY <1>1 DEF NarrowInv, Records, RecordOK, SuspensionsAreEarned
<1> QED
  BY <1>2, <1>3 DEF NarrowInv

\* A verdict against an organization narrows exactly its grants.
LEMMA NarrowKeepsRecords == NarrowInv /\ Narrow => NarrowInv'
<1> SUFFICES ASSUME NarrowInv, Narrow PROVE NarrowInv'
  OBVIOUS
<1>1. ASSUME NEW p \in Policies, RatifyPolicy(p) PROVE NarrowInv'
  BY <1>1 DEF RatifyPolicy, NarrowInv, Records, RecordOK, SuspensionsAreEarned
<1>2. CASE Tick
  <2>1. clock \in Nat /\ clock' = clock + 1 /\ clock' \in Times
    BY <1>2, NarrowingAssumption DEF NarrowingAssumption, Tick, NarrowInv, Records, Times
  <2>2. \A i \in DOMAIN log : log[i].at \in Nat
    BY LoggedOK, <2>1 DEF NarrowInv
  <2>3. ASSUME NEW s \in suspensions PROVE RecordOK(s)'
    <3>1. s.cooldown_until \in Nat /\ RecordOK(s) /\ log' = log
      BY <1>2 DEF Tick, NarrowInv, Records, Suspension
    <3> QED
      BY <2>1, <3>1 DEF RecordOK
  <2>4. \A i \in DOMAIN log : log[i].at <= clock'
    BY <2>1, <2>2 DEF NarrowInv, Records
  <2>5. Records'
    BY <1>2, <2>1, <2>3, <2>4 DEF Tick, NarrowInv, Records
  <2> QED
    BY <1>2, <2>5 DEF Tick, NarrowInv, SuspensionsAreEarned
<1> QED
  BY <1>1, <1>2, ScanKeepsRecords, LiftKeepsRecords DEF Narrow
-------------------------------------------------------------------------------
(* The desk.                                                               *)

DeskOK ==
    /\ \E desk \in Desks : OnDesk(desk)
    /\ verdict \in Verdicts \cup {Pending}
    /\ awaiting \in [Grants -> Nat]
    /\ turns \in Nat

DeskInv == DeskOK /\ NarrowInv

\* Whatever the inputs, a decision is a verdict (governance/service.ts:
\* decideCapability).
LEMMA DecisionIsVerdict ==
  ASSUME NEW cap, NEW call, NEW w PROVE Decide(cap, call, w) \in Verdicts
  BY DEF Decide, Verdict, Verdicts

\* A call on a desk is a call of one of the grants.
LEMMA CallHasGrant == DeskOK => Grant \in Grants
  BY DeskAssumption DEF DeskAssumption, DeskOK, OnDesk, Grant

\* Nothing is suspended at first.
LEMMA DeskInit == Init => DeskInv
<1> SUFFICES ASSUME Init PROVE DeskInv
  OBVIOUS
<1>1. DeskOK
  BY DeskAssumption DEF DeskAssumption, Init, DeskOK, OnDesk
<1>2. NarrowInv
  BY NarrowingAssumption
     DEF NarrowingAssumption, Init, NarrowingInit, NarrowInv, Records, Times, SuspensionsAreEarned
<1> QED
  BY <1>1, <1>2 DEF DeskInv

\* Every step of the desk keeps its records right.
LEMMA DeskKept == DeskInv /\ [Next]_vars => DeskInv'
<1> SUFFICES ASSUME DeskInv, [Next]_vars PROVE DeskInv'
  OBVIOUS
<1>1. CASE MovePosture
  BY <1>1, UntouchedRecords DEF MovePosture, DeskInv, DeskOK, OnDesk
<1>2. CASE Judge
  <2>1. verdict' \in Verdicts
    BY <1>2, DecisionIsVerdict DEF Judge
  <2>2. awaiting' \in [Grants -> Nat]
    BY <1>2 DEF Judge, DeskInv, DeskOK
  <2>3. DeskOK'
    BY <1>2, <2>1, <2>2 DEF Judge, DeskInv, DeskOK, OnDesk
  <2>4. CASE UNCHANGED log
    BY <1>2, <2>3, <2>4, UntouchedRecords DEF Judge, DeskInv, narrowingVars
  <2>5. ASSUME NEW kind \in {"suspension_block", "policy_violations"}, Logged(kind, Grant)
        PROVE  NarrowInv'
    BY <1>2, <2>5, LogKeepsRecords, CallHasGrant DEF Judge, DeskInv, Kinds, Triggers
  <2> QED
    BY <1>2, <2>3, <2>4, <2>5 DEF Judge, DeskInv, NarrowInv
<1>3. CASE NextCall
  BY <1>3, UntouchedRecords DEF NextCall, DeskInv, DeskOK, OnDesk
<1>4. CASE NarrowGrants
  BY <1>4, NarrowKeepsRecords DEF NarrowGrants, deskVars, DeskInv, DeskOK, OnDesk
<1>5. ASSUME NEW grant \in Grants, Resolve(grant) PROVE DeskInv'
  <2>1. DeskOK'
    BY <1>5 DEF Resolve, DeskInv, DeskOK, OnDesk
  <2>2. CASE UNCHANGED log
    BY <1>5, <2>1, <2>2, UntouchedRecords DEF Resolve, DeskInv, narrowingVars
  <2>3. CASE Logged("repeated_rejections", grant)
    <3>1. "repeated_rejections" \in Kinds
      BY DEF Kinds, Triggers
    <3> QED
      BY <1>5, <2>1, <2>3, <3>1, LogKeepsRecords DEF Resolve, DeskInv
  <2> QED
    BY <1>5, <2>1, <2>2, <2>3 DEF Resolve, DeskInv
<1>6. CASE UNCHANGED vars
  BY <1>6, UntouchedRecords DEF vars, deskVars, DeskInv, DeskOK, OnDesk
<1> QED
  BY <1>1, <1>2, <1>3, <1>4, <1>5, <1>6 DEF Next

\* The records are right in every reachable state.
LEMMA DeskInvHolds == Spec => []DeskInv
  BY DeskInit, DeskKept, PTL DEF Spec

\* Desk, verdict, log and suspensions have their types in every reachable state.
THEOREM DeskTypeCorrect == Spec => []TypeOK
<1>1. ASSUME DeskInv PROVE TypeOK
  <2>1. \A i \in DOMAIN log :
           log[i].grant \in Grants /\ log[i].kind \in Kinds /\ log[i].at \in 0 .. clock
    BY <1>1, LoggedOK DEF DeskInv, NarrowInv, Event
  <2> QED
    BY <1>1, <2>1 DEF DeskInv, DeskOK, TypeOK, NarrowInv, Records, RecordOK, Suspension,
       NarrowingTypeOK
<1> QED
  BY <1>1, DeskInvHolds, PTL

\* A grant is suspended once at a time, on as many events of its own as a human
\* ratified, and no event is spent twice (narrowing.ts: scan, adjudicatedEvidence).
THEOREM SuspensionsEarned == Spec => []SuspensionsAreEarned
<1>1. DeskInv => SuspensionsAreEarned
  BY DEF DeskInv, NarrowInv
<1> QED
  BY <1>1, DeskInvHolds, PTL

\* A scan repeated over the same events suspends nothing more (narrowing.ts:115).
THEOREM ScanReplays == Spec => ScanReplaysNothing
<1>1. ASSUME Scan PROVE NewSuspensions' = {}
  <2>1. /\ clock' = clock /\ policy' = policy /\ log' = log
        /\ suspensions' = suspensions \cup NewSuspensions
    BY <1>1 DEF Scan
  <2>2. \A n \in NewSuspensions : n.status = "active"
    BY NewIsEarned
  <2>3. ASSUME NEW t \in Triggers, NEW g \in Grants PROVE ~MaySuspend(t, g)'
    <3>1. Adjudicated(g)' = Adjudicated(g)
      BY <2>1, <2>2 DEF Adjudicated
    <3>2. Evidence(t, g)' = Evidence(t, g)
      BY <2>1, <3>1 DEF Evidence, Windowed
    <3>3. MaySuspend(t, g)' => MaySuspend(t, g)
      BY <2>1, <3>2 DEF MaySuspend, Active, IdOf
    <3>4. MaySuspend(t, g) => \E n \in NewSuspensions : n.grant = g
      <4>1. ASSUME MaySuspend(t, g) PROVE \E e \in Earned : e[2] = g
        <5>1. CASE MaySuspend("repeated_rejections", g)
          <6>1. <<"repeated_rejections", g>> \in Earned
            BY <5>1 DEF Earned
          <6> QED
            BY <6>1
        <5>2. CASE ~MaySuspend("repeated_rejections", g)
          <6>1. t = "policy_violations"
            BY <4>1, <5>2 DEF Triggers
          <6>2. <<"policy_violations", g>> \in Earned
            BY <4>1, <5>2, <6>1 DEF Earned
          <6> QED
            BY <6>2
        <5> QED
          BY <5>1, <5>2
      <4>2. ASSUME NEW e \in Earned PROVE \E n \in NewSuspensions : n.grant = e[2]
        <5> DEFINE n == [grant |-> e[2], trigger |-> e[1], evidence |-> Evidence(e[1], e[2]),
                         threshold |-> policy.threshold[e[1]], status |-> "active",
                         created_at |-> clock, cooldown_until |-> clock + policy.cooldown,
                         lifted_at |-> Forever]
        <5>1. n \in NewSuspensions
          BY Zenon DEF NewSuspensions
        <5>2. n.grant = e[2]
          OBVIOUS
        <5> QED
          BY <5>1, <5>2
      <4> QED
        BY <4>1, <4>2
    <3>5. MaySuspend(t, g)' => ~\E n \in NewSuspensions : n.grant = g
      BY <2>1, <2>2 DEF MaySuspend, Active
    <3> QED
      BY <3>3, <3>4, <3>5
  <2> QED
    BY <2>3 DEF NewSuspensions, Earned, Triggers
<1> QED
  BY <1>1, PTL DEF ScanReplaysNothing

-------------------------------------------------------------------------------
(* Decisions.                                                              *)

\* A call that is not blocked stays in its envelope, carries no foreign credential,
\* and its grant is not suspended at that moment (registry.ts: decideCall).
THEOREM DecisionsConfined == Spec => PermittedCallIsConfined
<1>1. ASSUME DeskInv, [Next]_vars, verdict = Pending, verdict' # Pending,
             verdict'.outcome # "block"
      PROVE  /\ world.task # NoTask /\ world.task.assignee = submitted.requester
             /\ \A f \in capability.fields : submitted.resource[f] \in world.task.grants[f]
             /\ submitted.credential \in {NoCredential, capability.credential}
             /\ ~Active(Grant)
  <2>1. Judge
    BY <1>1 DEF Next, MovePosture, NextCall, NarrowGrants, Resolve, vars, deskVars
  <2>2. verdict' = Decide(capability, submitted, Posture)
    BY <2>1 DEF Judge
  <2>3. /\ WithinTask(submitted, Posture.task) /\ PassesGateway(capability, submitted, Posture)
        /\ WithinResources(capability, submitted, Posture.task)
        /\ ~Suspended(submitted, Posture)
    BY <1>1, <2>2 DEF Decide, Verdict
  <2> QED
    BY <1>1, <2>3, CallHasGrant
       DEF DeskInv, Posture, WithinTask, PassesGateway, CredentialBound, WithinResources,
           Suspended, SuspendedGrants, Grant
<1> QED
  BY <1>1, DeskInvHolds, PTL DEF Spec, PermittedCallIsConfined
\* The gates, all of them, as one condition on a call.
Gated(cap, call, w) ==
    /\ WithinTask(call, w.task) /\ PassesGateway(cap, call, w)
    /\ WithinResources(cap, call, w.task) /\ HoldsGrant(cap, call, w)
    /\ ~Suspended(call, w)

LevelOf(w) == AutonomyLevel(w.orgs, w.defaultOrg)

\* A decision is the gates and then the dial (registry.ts: decideCall).
LEMMA DecisionWeighs ==
  ASSUME NEW cap, NEW call, NEW w
  PROVE  Weight[Decide(cap, call, w).outcome] =
             IF ~Gated(cap, call, w) THEN 2
             ELSE IF NeedsApproval(cap, call, LevelOf(w)) THEN 1 ELSE 0
<1>1. Decide(cap, call, w).outcome =
          IF ~Gated(cap, call, w) THEN "block"
          ELSE IF NeedsApproval(cap, call, LevelOf(w)) THEN "require_approval" ELSE "allow"
  BY DEF Decide, Verdict, Gated, LevelOf
<1> QED
  BY <1>1 DEF Weight

\* What the inputs on the desk are, so far as the dial weighs them.
Inputs ==
    /\ capability.risk \in Risks /\ capability.sideEffecting \in BOOLEAN
    /\ Carries(submitted, {"risk", "sideEffecting"})
    /\ submitted.risk \in Risks /\ submitted.sideEffecting \in BOOLEAN
    /\ Carries(world, {"orgs", "suspended"})
    /\ \A o \in DOMAIN world.orgs : world.orgs[o] \in Levels

\* What lies on the desk is input the policy engine is defined on.
LEMMA InputsOnDesk == DeskOK => Inputs
  BY DeskAssumption DEF DeskAssumption, DeskOK, OnDesk, Inputs

\* An organization alone gives its level to its workspace (service.ts: autonomyLevel).
LEMMA OneOrganization ==
  ASSUME NEW level, NEW default
  PROVE  AutonomyLevel([o \in {NoOrg} |-> level], default) = level
<1> DEFINE orgs == [o \in {NoOrg} |-> level]
<1>1. {orgs[o] : o \in DOMAIN orgs} = {level} /\ DOMAIN orgs = {NoOrg}
  OBVIOUS
<1>2. (CHOOSE l \in {level} : TRUE) = level
  OBVIOUS
<1> QED
  BY <1>1, <1>2 DEF AutonomyLevel

\* Whatever a looser level gates, a tighter one gates at least as strongly
\* (service.ts:28).
THEOREM DialMonotone == Spec => []DialIsMonotone
<1>1. ASSUME Inputs PROVE DialIsMonotone
  <2> SUFFICES ASSUME NEW tight \in Levels, NEW loose \in Levels,
                      Strictness[tight] <= Strictness[loose]
               PROVE  Weight[OutcomeOf(submitted, AtLevel(loose))]
                          <= Weight[OutcomeOf(submitted, AtLevel(tight))]
    BY DEF DialIsMonotone
  <2>1. ASSUME NEW l \in Levels
        PROVE  /\ Gated(capability, submitted, AtLevel(l)) <=> Gated(capability, submitted, Posture)
               /\ LevelOf(AtLevel(l)) = l
    <3>1. /\ AtLevel(l).task = Posture.task /\ AtLevel(l).available = Posture.available
          /\ AtLevel(l).effectful = Posture.effectful
          /\ AtLevel(l).roleGrants = Posture.roleGrants
          /\ AtLevel(l).workerGrants = Posture.workerGrants
          /\ AtLevel(l).enabledWorkers = Posture.enabledWorkers
          /\ AtLevel(l).suspended = Posture.suspended
      BY <1>1 DEF AtLevel, Posture, Inputs, Carries
    <3>2. AtLevel(l).orgs = [o \in {NoOrg} |-> l]
      BY <1>1 DEF AtLevel, Posture, Inputs, Carries
    <3>3. Gated(capability, submitted, AtLevel(l)) <=> Gated(capability, submitted, Posture)
      BY <3>1 DEF Gated, PassesGateway, EffectDeclared, HoldsGrant, Suspended
    <3>4. LevelOf(AtLevel(l)) = l
      BY <3>2, OneOrganization DEF LevelOf
    <3> QED
      BY <3>3, <3>4
  <2>2. NeedsApproval(capability, submitted, loose) => NeedsApproval(capability, submitted, tight)
    BY DEF NeedsApproval, Strictness, Levels
  <2> QED
    BY <2>1, <2>2, DecisionWeighs DEF OutcomeOf
<1> QED
  BY <1>1, InputsOnDesk, DeskInvHolds, PTL DEF DeskInv

\* Stating less than the capability declares never earns a milder decision
\* (service.ts:43).
THEOREM UnderReportingEarnsNothing == Spec => []UnderReportingGainsNothing
<1>1. ASSUME Inputs PROVE UnderReportingGainsNothing
  <2> DEFINE honest == [submitted EXCEPT !.risk = capability.risk,
                                         !.sideEffecting = capability.sideEffecting]
  <2>1. /\ honest.risk = capability.risk /\ honest.sideEffecting = capability.sideEffecting
        /\ honest.workspace = submitted.workspace /\ honest.run = submitted.run
        /\ honest.requester = submitted.requester /\ honest.capability = submitted.capability
        /\ honest.provider = submitted.provider /\ honest.credential = submitted.credential
        /\ honest.resource = submitted.resource /\ honest.byWorker = submitted.byWorker
        /\ honest.actor = submitted.actor
    BY <1>1 DEF Inputs, Carries
  <2> HIDE DEF honest
  <2>2. Gated(capability, submitted, Posture) => Gated(capability, honest, Posture)
    BY <2>1 DEF Gated, WithinTask, PassesGateway, CredentialBound, EffectDeclared,
                WithinResources, HoldsGrant, Suspended
  <2>3. NeedsApproval(capability, honest, LevelOf(Posture))
            => NeedsApproval(capability, submitted, LevelOf(Posture))
    BY <1>1, <2>1 DEF Inputs, NeedsApproval, EffectiveRisk, Consequential, RiskOrder, Risks
  <2>4. Weight[OutcomeOf(honest, Posture)] <= Weight[OutcomeOf(submitted, Posture)]
    BY <2>2, <2>3, DecisionWeighs DEF OutcomeOf
  <2> QED
    BY <2>4 DEF UnderReportingGainsNothing, honest
<1> QED
  BY <1>1, InputsOnDesk, DeskInvHolds, PTL DEF DeskInv

\* No decision is loosened by a tighter dial or by a milder report (service.ts:28, 43).
THEOREM PolicyTightens == Spec => []PolicyOnlyTightens
<1>1. DialIsMonotone /\ UnderReportingGainsNothing => PolicyOnlyTightens
  BY DEF PolicyOnlyTightens
<1> QED
  BY <1>1, DialMonotone, UnderReportingEarnsNothing, PTL

\* A workspace that no default settles is as tight as the tightest organization it
\* has, and advisory when it has none (service.ts:63, 174).
THEOREM AmbiguityClosed == Spec => []AmbiguityFailsClosed
<1>1. ASSUME Inputs PROVE AmbiguityFailsClosed
  <2> DEFINE orgs == world.orgs
             levels == {orgs[o] : o \in DOMAIN orgs}
             level == AutonomyLevel(orgs, world.defaultOrg)
  <2>1. levels \subseteq Levels
    BY <1>1 DEF Inputs
  <2>2. DOMAIN orgs = {} => level = "advisory"
    BY DEF AutonomyLevel
  <2>3. ASSUME world.defaultOrg \notin DOMAIN orgs, NEW o \in DOMAIN orgs
        PROVE  Strictness[level] <= Strictness[orgs[o]]
    <3>1. levels # {} /\ orgs[o] \in levels
      OBVIOUS
    <3>2. CASE \E oo \in DOMAIN orgs : DOMAIN orgs = {oo}
      <4>1. levels = {orgs[o]}
        BY <3>2
      <4>2. level = orgs[o]
        BY <3>2, <4>1 DEF AutonomyLevel
      <4> QED
        BY <2>1, <3>1, <4>2 DEF Levels, Strictness
    <3>3. CASE ~\E oo \in DOMAIN orgs : DOMAIN orgs = {oo}
      <4>1. level = TightestOf(levels)
        BY <2>3, <3>1, <3>3 DEF AutonomyLevel
      <4>2. \E l \in levels : \A m \in levels : Strictness[l] <= Strictness[m]
        BY <2>1, <3>1 DEF Levels, Strictness
      <4>3. \A m \in levels : Strictness[TightestOf(levels)] <= Strictness[m]
        BY <4>2 DEF TightestOf
      <4> QED
        BY <3>1, <4>1, <4>3
    <3> QED
      BY <3>2, <3>3
  <2> QED
    BY <2>2, <2>3 DEF AmbiguityFailsClosed
<1> QED
  BY <1>1, InputsOnDesk, DeskInvHolds, PTL DEF DeskInv

\* An allowed call was allowed by the level on the desk and declares its effect.
AllowedOpenly ==
    (verdict # Pending /\ verdict.outcome = "allow") =>
        /\ EffectDeclared(capability, submitted, world)
        /\ ~NeedsApproval(capability, submitted, LevelOf(world))

\* A provider that acts on the world is never allowed without a human below the
\* bounded level (registry.ts:396).
THEOREM EffectsNeedHumans == Spec => []EffectfulNeedsHuman
<1>1. Init => AllowedOpenly
  BY DEF Init, AllowedOpenly
<1>2. ASSUME DeskInv, AllowedOpenly, [Next]_vars PROVE AllowedOpenly'
  <2>1. CASE Judge
    <3>1. /\ Posture.orgs = world.orgs /\ Posture.defaultOrg = world.defaultOrg
          /\ Posture.effectful = world.effectful
      BY <1>2, InputsOnDesk DEF DeskInv, Inputs, Carries, Posture
    <3>2. verdict' = Decide(capability, submitted, Posture)
      BY <2>1 DEF Judge
    <3>3. verdict'.outcome = "allow" =>
              /\ PassesGateway(capability, submitted, Posture)
              /\ ~NeedsApproval(capability, submitted, LevelOf(Posture))
      BY <3>2 DEF Decide, Verdict, LevelOf
    <3> QED
      BY <2>1, <3>1, <3>3 DEF Judge, AllowedOpenly, PassesGateway, EffectDeclared, LevelOf
  <2>2. CASE MovePosture \/ NextCall
    BY <2>2 DEF MovePosture, NextCall, AllowedOpenly
  <2>3. CASE UNCHANGED <<capability, submitted, world, verdict>>
    BY <1>2, <2>3 DEF AllowedOpenly, EffectDeclared, LevelOf, NeedsApproval, EffectiveRisk,
                      Consequential
  <2> QED
    BY <1>2, <2>1, <2>2, <2>3 DEF Next, NarrowGrants, Resolve, vars, deskVars
<1>3. ASSUME AllowedOpenly, DeskInv PROVE EffectfulNeedsHuman
  BY <1>3 DEF AllowedOpenly, EffectfulNeedsHuman, EffectDeclared, NeedsApproval, Consequential,
              LevelOf
<1> QED
  BY <1>1, <1>2, <1>3, DeskInvHolds, PTL DEF Spec
===============================================================================
