------------------------------- MODULE Narrowing -------------------------------
(***************************************************************************)
(* Evidence-triggered narrowing of grants: governance/narrowing.ts.        *)
(*                                                                         *)
(* The event log holds what happened to each grant, a capability held by   *)
(* an actor: approvals rejected, calls blocked.  Under a policy a human    *)
(* ratified, a scan suspends a grant whose windowed evidence reaches a     *)
(* threshold; only a human lifts the suspension, after its cooldown.       *)
(***************************************************************************)
EXTENDS Naturals, Sequences, FiniteSets

CONSTANTS Grants,      \* <<actor, capability>>
          Policies,    \* the narrowing policies an operator may ratify
          NoPolicy,
          MaxTime      \* bound: the last second of the clock

Triggers == {"repeated_rejections", "policy_violations"}
Kinds == Triggers \cup {"suspension_block"}
Times == 0 .. MaxTime
Forever == 0 - 1

ASSUME NarrowingAssumption ==
    /\ MaxTime \in Nat
    /\ NoPolicy \notin Policies
    /\ \A p \in Policies :
          /\ p.window \in Nat \ {0} /\ p.cooldown \in Nat
          /\ p.threshold \in [Triggers -> Nat \ {0}]

VARIABLES
    clock,         \* seconds, the precision of every timestamp
    policy,        \* the ratified policy
    log,           \* rejections and blocks, in the order of the event chain
    suspensions    \* every suspension ever written, with what it rests on

narrowingVars == <<clock, policy, log, suspensions>>

-------------------------------------------------------------------------------

Active(grant) == \E s \in suspensions : s.grant = grant /\ s.status = "active"
SuspendedGrants == {grant \in Grants : Active(grant)}

AdjudicatedLast(grant) ==
    LET lifted == {x \in suspensions : x.grant = grant /\ x.status = "lifted"} IN
    UNION {s.evidence : s \in {x \in lifted : \A y \in lifted : y.lifted_at <= x.lifted_at}}

\* The events a lifted suspension of the grant rested on: a human has judged them.
Adjudicated(grant) ==
    UNION {s.evidence : s \in {x \in suspensions : x.grant = grant /\ x.status = "lifted"}}

IsEvidenceOrBlock(entry, trigger) ==
    entry.kind = trigger \/ (trigger = "policy_violations" /\ entry.kind = "suspension_block")
\* A block that a suspension caused is no evidence of anything.
IsEvidence(entry, trigger) == entry.kind = trigger

Windowed(trigger, grant) ==
    {i \in DOMAIN log : /\ log[i].grant = grant
                        /\ IsEvidence(log[i], trigger)
                        /\ clock <= log[i].at + policy.window}

Evidence(trigger, grant) == Windowed(trigger, grant) \ Adjudicated(grant)

\* The id of a suspension is made of its grant, its trigger and its evidence.
IdOf(s) == <<s.grant, s.trigger, s.evidence>>

MaySuspendAgain(trigger, grant) ==
    Cardinality(Evidence(trigger, grant)) >= policy.threshold[trigger]
MaySuspend(trigger, grant) ==
    /\ Cardinality(Evidence(trigger, grant)) >= policy.threshold[trigger]
    /\ ~Active(grant)
    /\ \A s \in suspensions : IdOf(s) # <<grant, trigger, Evidence(trigger, grant)>>

\* A scan weighs the rejections of every grant before the violations of any: the
\* second suspends nothing the first did.
Earned ==
    {<<"repeated_rejections", grant>> :
        grant \in {g \in Grants : MaySuspend("repeated_rejections", g)}}
      \cup {<<"policy_violations", grant>> :
        grant \in {g \in Grants : /\ MaySuspend("policy_violations", g)
                                  /\ ~MaySuspend("repeated_rejections", g)}}

NewSuspensions ==
    {[grant |-> e[2], trigger |-> e[1], evidence |-> Evidence(e[1], e[2]),
      threshold |-> policy.threshold[e[1]], status |-> "active",
      created_at |-> clock, cooldown_until |-> clock + policy.cooldown,
      lifted_at |-> Forever] : e \in Earned}

-------------------------------------------------------------------------------

NarrowingTypeOK ==
    /\ clock \in Times
    /\ policy \in Policies \cup {NoPolicy}
    /\ \A i \in DOMAIN log :
          log[i].grant \in Grants /\ log[i].kind \in Kinds /\ log[i].at \in 0 .. clock
    /\ \A s \in suspensions :
          /\ s.grant \in Grants /\ s.trigger \in Triggers
          /\ s.evidence \subseteq DOMAIN log
          /\ s.created_at \in 0 .. clock
          /\ \/ s.status = "active" /\ s.lifted_at = Forever
             \/ s.status = "lifted" /\ s.lifted_at \in s.cooldown_until .. clock

NarrowingInit ==
    /\ clock = 0
    /\ policy = NoPolicy
    /\ log = <<>>
    /\ suspensions = {}

Logged(kind, grant) == log' = Append(log, [kind |-> kind, grant |-> grant, at |-> clock])

RatifyPolicy(p) ==
    /\ policy' = p
    /\ UNCHANGED <<clock, log, suspensions>>

Scan ==
    /\ policy # NoPolicy
    /\ suspensions' = suspensions \cup NewSuspensions
    /\ UNCHANGED <<clock, policy, log>>

LiftAtOnce(s) ==
    /\ s.status = "active"
    /\ suspensions' = (suspensions \ {s})
                          \cup {[s EXCEPT !.status = "lifted", !.lifted_at = clock]}
    /\ UNCHANGED <<clock, policy, log>>
Lift(s) ==
    /\ s.status = "active"
    /\ clock >= s.cooldown_until
    /\ suspensions' = (suspensions \ {s})
                          \cup {[s EXCEPT !.status = "lifted", !.lifted_at = clock]}
    /\ UNCHANGED <<clock, policy, log>>

Tick ==
    /\ clock < MaxTime
    /\ clock' = clock + 1
    /\ UNCHANGED <<policy, log, suspensions>>

Narrow ==
    \/ \E p \in Policies : RatifyPolicy(p)
    \/ Scan
    \/ \E s \in suspensions : Lift(s)
    \/ Tick

-------------------------------------------------------------------------------

\* A grant is suspended once at a time, on as many events of its own as a human
\* ratified, and an event is spent once: no two suspensions of a grant rest on one
\* event, whichever trigger counted it and however often the grant was lifted, and
\* none rests on a block that a suspension itself caused.
SuspensionsAreEarned ==
    \A s \in suspensions :
        /\ Cardinality(s.evidence) >= s.threshold
        /\ \A i \in s.evidence : log[i].grant = s.grant /\ log[i].kind # "suspension_block"
        /\ \A other \in suspensions \ {s} :
              s.grant = other.grant =>
                  /\ s.evidence \cap other.evidence = {}
                  /\ ~(s.status = "active" /\ other.status = "active")

\* Replaying a scan over the same events creates nothing new
\* (the comment on scan, narrowing.ts:115).
ScanReplaysNothing ==
    [][Scan => NewSuspensions' = {}]_narrowingVars

\* A lift is not undone by less than a fresh threshold: a suspension written after
\* it rests on that many events recorded since (the comment on adjudicatedEvidence,
\* narrowing.ts:368, and the test of that name, narrowing.test.ts:706).
LiftHolds ==
    \A s, lifted \in suspensions :
        (s.grant = lifted.grant /\ lifted.status = "lifted" /\ lifted.lifted_at < s.created_at) =>
            Cardinality({i \in s.evidence : log[i].at >= lifted.lifted_at}) >= s.threshold
===============================================================================
