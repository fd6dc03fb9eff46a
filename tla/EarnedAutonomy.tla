----------------------------- MODULE EarnedAutonomy -----------------------------
(***************************************************************************)
(* The autonomy dial of one organization: org/autonomy.ts and              *)
(* OrganizationStore.setAutonomyLevel, earned against the applications of  *)
(* OrgChange.  Levels are their rank on the ladder, tightest first.        *)
(***************************************************************************)
EXTENDS OrgChange

CONSTANTS Cases,            \* ids of autonomy cases
          Widest,           \* the length of the ladder
          Ceiling,          \* the widest level that may be proposed
          MinTrackRecord,   \* verified applications a widening needs
          MaxSeconds        \* bound: seconds that pass

ASSUME AutonomyAssumption ==
    /\ Widest \in Nat \ {0} /\ Ceiling \in Nat
    /\ MinTrackRecord \in Nat /\ MaxSeconds \in Nat

VARIABLES
    level,      \* the dial
    cases,      \* the autonomy cases
    narrowed,   \* the autonomy.narrowed event of each second, None or its payload
    second,     \* the clock, in the seconds timestamps have
    drifted     \* history: the cases made before the dial last moved

dialVars == <<level, cases, narrowed, second, drifted>>
autonomyVars == <<orgVars, dialVars>>

Levels == 1 .. Widest
Case == [status : {"absent", "proposed", "ratified", "rejected"},
         to : Levels \cup {None}, by : Principals \cup {None}]
Move == [from : Levels, to : Levels]

\* Every row, dial and clock has its type.
AutonomyTypeOK ==
    /\ TypeOK
    /\ ChangeTypeOK
    /\ level \in Levels
    /\ cases \in [Cases -> Case]
    /\ narrowed \in [0 .. MaxSeconds -> Move \cup {None}]
    /\ second \in 0 .. MaxSeconds
    /\ drifted \subseteq Cases

AutonomyInit ==
    /\ Init
    /\ ChangeInit
    /\ level \in Levels
    /\ cases = [k \in Cases |-> [status |-> "absent", to |-> None, by |-> None]]
    /\ narrowed = [s \in 0 .. MaxSeconds |-> None]
    /\ second = 0
    /\ drifted = {}

-------------------------------------------------------------------------------

AppliedRecord == Cardinality({o \in Targets : applications[o].status # "absent"})
TrackRecord == Cardinality(Verified)

NextWider == level + 1
Widenable(record) ==
    /\ NextWider <= Widest
    /\ NextWider <= Ceiling
    /\ record >= MinTrackRecord

Proposed == {k \in Cases : cases[k].status = "proposed"}

MoveDialFromZero(to, keys) ==
    /\ level' = to - 1
    /\ drifted' = drifted \cup keys
MoveDial(to, keys) ==
    /\ level' = to
    /\ drifted' = drifted \cup keys

ProposeWidening(k, q) ==
    /\ cases[k].status = "absent"
    /\ Widenable(TrackRecord)
    /\ \A kk \in Proposed : cases[kk].to # NextWider
    /\ cases' = [cases EXCEPT ![k] = [status |-> "proposed", to |-> NextWider, by |-> q]]
    /\ UNCHANGED <<orgVars, level, narrowed, second, drifted>>

\* The case is held against the live dial and track record, not against those
\* it was made under.
CaseAgainstLiveDial(k) == Widenable(TrackRecord) /\ cases[k].to = NextWider

RatifyWidening(k, p) ==
    /\ cases[k].status = "proposed"
    /\ cases[k].by # p
    /\ CaseAgainstLiveDial(k)
    /\ cases' = [cases EXCEPT ![k].status = "ratified"]
    /\ MoveDial(cases[k].to, Proposed \ {k})
    /\ UNCHANGED <<orgVars, narrowed, second>>

RejectWidening(k) ==
    /\ cases[k].status = "proposed"
    /\ cases' = [cases EXCEPT ![k].status = "rejected"]
    /\ UNCHANGED <<orgVars, level, narrowed, second, drifted>>

\* The event's idempotency key is the second: a different narrowing in the same
\* second conflicts with it and rolls back.
Narrow(to) ==
    /\ to \in Levels
    /\ to < level
    /\ narrowed[second] \in {None, [from |-> level, to |-> to]}
    /\ narrowed' = [narrowed EXCEPT ![second] = [from |-> level, to |-> to]]
    /\ MoveDial(to, Proposed)
    /\ UNCHANGED <<orgVars, cases, second>>

SecondPasses ==
    /\ second < MaxSeconds
    /\ second' = second + 1
    /\ UNCHANGED <<orgVars, level, cases, narrowed, drifted>>

AutonomyNext ==
    \/ ChangeSteps /\ UNCHANGED dialVars
    \/ \E k \in Cases, p \in Principals : ProposeWidening(k, p) \/ RatifyWidening(k, p)
    \/ \E k \in Cases : RejectWidening(k)
    \/ \E to \in Levels : Narrow(to)
    \/ SecondPasses

AutonomySpec == AutonomyInit /\ [][AutonomyNext]_autonomyVars

-------------------------------------------------------------------------------
(* What the dial guarantees.                                               *)

\* Autonomy is earned: the dial widens one step, under the ceiling, in the very
\* step that ratifies a case somebody else proposed for that level, and only
\* while MinTrackRecord applications, each applied by somebody other than its
\* proposer, are in force.
WideningIsEarned ==
    [][level' > level =>
          /\ level' = level + 1 /\ level' <= Ceiling
          /\ \E k \in Cases : /\ cases[k].status = "proposed"
                              /\ cases'[k].status = "ratified"
                              /\ cases[k].to = level'
          /\ Cardinality({o \in Targets : /\ applications[o].status = "verified"
                                          /\ applications[o].by # ProposedBy[o]})
                 >= MinTrackRecord]_autonomyVars

\* A widening never lands on a case the dial has drifted from since it was made.
DriftedCaseNeverWidens ==
    [][\A k \in drifted : cases[k].status = "proposed" => cases'[k].status # "ratified"]_autonomyVars
===============================================================================
