------------------------------- MODULE Heartbeat -------------------------------
(***************************************************************************)
(* The Chief of Staff and the daemon that makes it beat:                    *)
(* heartbeat/service.ts, chief_of_staff/service.ts, learning/service.ts and *)
(* the stores of persistence/cadences.ts and notifications.ts.              *)
(*                                                                         *)
(* A beat senses what is due, records it and delivers one digest, inside    *)
(* one transaction: it holds the write lock when it delivers, so that a     *)
(* beat that loses the lock has delivered nothing, and only a process lost  *)
(* after the delivery delivers what is then rolled back.  Operators tick    *)
(* beside the daemon, at the time they give.                                *)
(*                                                                         *)
(* Time is relative: a cadence counts the seconds to its next firing, a     *)
(* request has an age, and an instant is the seconds from now.              *)
(***************************************************************************)
EXTENDS Naturals, FiniteSets

CONSTANTS
    Cadences,       \* standing obligations
    Defaults,       \* those that cos init seeds
    KindOf,         \* "learning_scan", "stale_approval_sweep" or "status_digest"
    Interval,       \* seconds between two firings
    Requests,       \* requests for approval
    Reviews,        \* those of them that ask to review a change of the organization
    Sources,        \* other signals: "repeated_blocker", "failed_handoff",
                    \* "missing_capability", "stale_memory"
    Incidents,      \* what they are made of
    StaleAfter,     \* the age at which a pending request is stale
    MaxShown,       \* how many notices a digest lists
    Instants,       \* a bound: the times an operator ticks at, from now on
    MaxLost,        \* a bound: how many deliveries outlive their transaction
    Never           \* the schedule of a cadence that does not stand

ASSUME HeartbeatAssumption ==
    /\ Defaults \subseteq Cadences
    /\ KindOf \in [Cadences -> {"learning_scan", "stale_approval_sweep", "status_digest"}]
    /\ Interval \in [Cadences -> Nat \ {0}]
    /\ Reviews \subseteq Requests
    /\ StaleAfter \in Nat \ {0}
    /\ MaxShown \in Nat \ {0}
    /\ Instants \subseteq Nat /\ 0 \in Instants
    /\ MaxLost \in Nat
    /\ Never \notin Nat

VARIABLES
    schedule,    \* the seconds to the next firing of each cadence
    requests,    \* the status of each request for approval
    ages,        \* how long each pending one has waited
    incidents,   \* what can be found, by source
    proposals,   \* the changes the scan has proposed
    inbox,       \* notifications, by what they are about
    statuses,    \* the instants that have a status digest
    byHand,      \* what the notices created by a tick outside a beat are about
    beaten,      \* whether this instant has its heartbeat.beat event
    reported,    \* what the heartbeat.beat events refer to
    claimed,     \* what the cos.digest.delivered events refer to
    told,        \* how often the human was told of it
    daemon,
    lost         \* how many deliveries have outlived their transaction

sensedVars == <<schedule, proposals, inbox, statuses>>
beatVars == <<schedule, requests, ages, incidents, proposals, inbox, statuses, byHand, beaten,
              reported, claimed, told, daemon, lost>>

-------------------------------------------------------------------------------
(* What there is to sense.                                                 *)

Pending == {r \in Requests : requests[r] = "pending"}

\* The signals of the organization: blockers and waiting requests count from two on, and
\* an item that is blocked and the event that said so are one blocker.
Enough(source) == IF source \in {"repeated_blocker", "approval_bottleneck"} THEN 2 ELSE 1
EvidenceOf(source) == IF source = "approval_bottleneck" THEN Pending \ Reviews
                      ELSE incidents[source]
Counted(source) == IF source = "repeated_blocker" THEN {e.item : e \in EvidenceOf(source)}
                   ELSE EvidenceOf(source)
Signals ==
    {[source |-> s, evidence |-> EvidenceOf(s)] :
        s \in {s \in Sources \cup {"approval_bottleneck"} :
                  Cardinality(Counted(s)) >= Enough(s)}}

AgedExactly(r, at) == ages[r] + at = StaleAfter
Aged(r, at) == ages[r] + at >= StaleAfter

\* Reviews have notices of another kind.
Stale(at) == {r \in Pending \ Reviews : Aged(r, at)}

Due(at) == {c \in Cadences : schedule[c] # Never /\ schedule[c] <= at}
DueKinds(at) == {KindOf[c] : c \in Due(at)}

Scanned(at) == IF "learning_scan" \in DueKinds(at) THEN Signals ELSE {}
Swept(at) == IF "stale_approval_sweep" \in DueKinds(at) THEN Stale(at) ELSE {}

\* A notice has a stable id: what has one is not noticed again.
NewNotices(at) == {n \in Scanned(at) \cup Swept(at) : n \notin DOMAIN inbox}
NewStatus(at) == IF "status_digest" \in DueKinds(at) THEN {at} \ statuses ELSE {}

Created(at, notices) ==
    [n \in DOMAIN inbox \cup notices |-> IF n \in DOMAIN inbox THEN inbox[n] ELSE "unread"]

-------------------------------------------------------------------------------

BeatInit ==
    /\ schedule = [c \in Cadences |-> Never]
    /\ requests = [r \in Requests |-> "absent"]
    /\ ages = [r \in Requests |-> 0]
    /\ incidents = [s \in Sources |-> {}]
    /\ proposals = {}
    /\ inbox = [n \in {} |-> "unread"]
    /\ statuses = {} /\ byHand = {}
    /\ beaten = FALSE
    /\ reported = {} /\ claimed = {}
    /\ told = [n \in {} |-> 0]
    /\ daemon = "down"
    /\ lost = 0

(* The world the sensors look at.                                          *)

\* A cadence is due as soon as it stands.  Seeding cadences that stand already throws,
\* unless they stand exactly as they would be seeded.
EnsureDefaultCadences ==
    /\ \A c \in Defaults : schedule[c] = Never
    /\ schedule' = [c \in Cadences |-> IF c \in Defaults THEN 0 ELSE schedule[c]]
    /\ UNCHANGED <<requests, ages, incidents, proposals, inbox, statuses, byHand, beaten,
                   reported, claimed, told, daemon, lost>>

AddCadence(c) ==
    /\ c \notin Defaults /\ schedule[c] = Never
    /\ schedule' = [schedule EXCEPT ![c] = 0]
    /\ UNCHANGED <<requests, ages, incidents, proposals, inbox, statuses, byHand, beaten,
                   reported, claimed, told, daemon, lost>>

Ask(r) ==
    /\ requests[r] = "absent"
    /\ requests' = [requests EXCEPT ![r] = "pending"]
    /\ UNCHANGED <<sensedVars, ages, incidents, byHand, beaten, reported, claimed, told, daemon,
                   lost>>

Answer(r) ==
    /\ r \in Pending
    /\ requests' = [requests EXCEPT ![r] = "resolved"]
    /\ ages' = [ages EXCEPT ![r] = 0]
    /\ UNCHANGED <<sensedVars, incidents, byHand, beaten, reported, claimed, told, daemon, lost>>

\* An item is blocked, with or without the event that says so; the event stays.
BlockedItem(i) == [type |-> "work_item", item |-> i]
BlockedEvent(i) == [type |-> "event", item |-> i]

Block(i) ==
    /\ \E evidence \in {{BlockedItem(i)}, {BlockedItem(i), BlockedEvent(i)}} :
          incidents' = [incidents EXCEPT !["repeated_blocker"] = @ \cup evidence]
    /\ incidents' # incidents
    /\ UNCHANGED <<sensedVars, requests, ages, byHand, beaten, reported, claimed, told, daemon,
                   lost>>

Unblock(i) ==
    /\ incidents' = [incidents EXCEPT !["repeated_blocker"] = @ \ {BlockedItem(i)}]
    /\ incidents' # incidents
    /\ UNCHANGED <<sensedVars, requests, ages, byHand, beaten, reported, claimed, told, daemon,
                   lost>>

Arise(s, i) ==
    /\ s # "repeated_blocker"
    /\ incidents' = [incidents EXCEPT ![s] = @ \cup {i}]
    /\ incidents' # incidents
    /\ UNCHANGED <<sensedVars, requests, ages, byHand, beaten, reported, claimed, told, daemon,
                   lost>>

\* Failed outcomes are events, which stay.
Clear(s, i) ==
    /\ s \notin {"repeated_blocker", "failed_handoff"}
    /\ i \in incidents[s]
    /\ incidents' = [incidents EXCEPT ![s] = @ \ {i}]
    /\ UNCHANGED <<sensedVars, requests, ages, byHand, beaten, reported, claimed, told, daemon,
                   lost>>

\* Ages beyond the threshold are one age, and a cadence overdue is due now.
TimePasses1 ==
    /\ schedule' = [c \in Cadences |-> IF schedule[c] = Never \/ schedule[c] = 0
                                       THEN schedule[c] ELSE schedule[c] - 1]
    /\ ages' = [r \in Requests |-> IF r \in Pending /\ ages[r] <= StaleAfter
                                    THEN ages[r] + 1 ELSE ages[r]]
    /\ statuses' = {at - 1 : at \in statuses \ {0}}
    /\ beaten' = FALSE
    /\ UNCHANGED <<requests, incidents, proposals, inbox, byHand, reported, claimed, told,
                   daemon, lost>>

-------------------------------------------------------------------------------
(* Sensing.                                                                *)

\* Every cadence due fires, senses and is due again an interval after this time.
Tick(at) ==
    /\ schedule' = [c \in Cadences |-> IF c \in Due(at) THEN at + Interval[c] ELSE schedule[c]]
    /\ proposals' = proposals \cup Scanned(at)
    /\ inbox' = Created(at, NewNotices(at))
    /\ statuses' = statuses \cup NewStatus(at)

\* An operator ticks: what this notices goes to the inbox and to no digest.
TickByHand(at) ==
    /\ Due(at) # {}
    /\ Tick(at)
    /\ byHand' = byHand \cup NewNotices(at)
    /\ UNCHANGED <<requests, ages, incidents, beaten, reported, claimed, told, daemon, lost>>

\* An operator scans without the Chief of Staff: proposals, and no notice.
ScanByHand ==
    /\ proposals' = proposals \cup Signals
    /\ proposals' # proposals
    /\ UNCHANGED <<schedule, requests, ages, incidents, inbox, statuses, byHand, beaten, reported,
                   claimed, told, daemon, lost>>

MarkRead(n) ==
    /\ n \in DOMAIN inbox /\ inbox[n] = "unread"
    /\ inbox' = [inbox EXCEPT ![n] = "read"]
    /\ UNCHANGED <<schedule, requests, ages, incidents, proposals, statuses, byHand, beaten,
                   reported, claimed, told, daemon, lost>>

-------------------------------------------------------------------------------
(* The daemon.                                                             *)

\* The notices a digest shows: all, or as many as it may list.
Shown(notices, status) ==
    {shown \in SUBSET notices :
        /\ Cardinality(shown) <= MaxShown
        /\ Cardinality(shown) + Cardinality(status) >= MaxShown \/ shown = notices}

Delivered(shown) ==
    [n \in DOMAIN told \cup shown |->
        (IF n \in DOMAIN told THEN told[n] ELSE 0) + (IF n \in shown THEN 1 ELSE 0)]

\* What the digest is composed of.
Unread(at) == {n \in DOMAIN Created(at, NewNotices(at)) : Created(at, NewNotices(at))[n] = "unread"}
ToReport(at) == NewNotices(at)

BeatCommits ==
    /\ daemon = "awake" /\ ~beaten
    /\ Tick(0)
    /\ beaten' = TRUE
    /\ reported' = reported \cup ToReport(0)
    /\ \E shown \in Shown(ToReport(0), NewStatus(0)) :
          claimed' = claimed \cup shown /\ told' = Delivered(shown)
    /\ daemon' = "asleep"
    /\ UNCHANGED <<requests, ages, incidents, byHand, lost>>

\* This instant was beaten already.
BeatAgain ==
    /\ daemon = "awake" /\ beaten
    /\ daemon' = "asleep"
    /\ UNCHANGED <<sensedVars, requests, ages, incidents, byHand, beaten, reported, claimed,
                   told, lost>>

\* What remains of the beat when its transaction does not commit.
SensingRemains == Tick(0) /\ UNCHANGED <<beaten, reported, claimed>>
RolledBack == UNCHANGED <<schedule, proposals, inbox, statuses, beaten, reported, claimed>>

\* The lock is lost, a sensor or the transport throws: the daemon goes on to its next beat.
BeatThrows ==
    /\ daemon = "awake" /\ ~beaten
    /\ RolledBack
    /\ daemon' = "asleep"
    /\ UNCHANGED <<requests, ages, incidents, byHand, told, lost>>

\* The process is lost between the delivery and the commit.
BeatIsLost ==
    /\ daemon = "awake" /\ ~beaten /\ lost < MaxLost
    /\ NewNotices(0) # {}
    /\ \E shown \in Shown(ToReport(0), NewStatus(0)) : told' = Delivered(shown)
    /\ RolledBack
    /\ lost' = lost + 1
    /\ daemon' = "down"
    /\ UNCHANGED <<requests, ages, incidents, byHand>>

Wake ==
    /\ daemon = "asleep"
    /\ daemon' = "awake"
    /\ UNCHANGED <<sensedVars, requests, ages, incidents, byHand, beaten, reported, claimed,
                   told, lost>>

\* A daemon that is told to stop leaves between two beats.
Stop ==
    /\ daemon \in {"awake", "asleep"}
    /\ daemon' = "down"
    /\ UNCHANGED <<sensedVars, requests, ages, incidents, byHand, beaten, reported, claimed,
                   told, lost>>

Start ==
    /\ daemon = "down"
    /\ daemon' = "awake"
    /\ UNCHANGED <<sensedVars, requests, ages, incidents, byHand, beaten, reported, claimed,
                   told, lost>>

-------------------------------------------------------------------------------

WorldSteps ==
    \/ EnsureDefaultCadences
    \/ \E c \in Cadences : AddCadence(c)
    \/ \E r \in Requests : Ask(r) \/ Answer(r)
    \/ \E i \in Incidents : Block(i) \/ Unblock(i)
    \/ \E s \in Sources, i \in Incidents : Arise(s, i) \/ Clear(s, i)
    \/ TimePasses1

OperatorSteps ==
    \/ \E at \in Instants : TickByHand(at)
    \/ ScanByHand
    \/ \E n \in DOMAIN inbox : MarkRead(n)

DaemonSteps == BeatCommits \/ BeatAgain \/ BeatThrows \/ BeatIsLost \/ Wake \/ Stop \/ Start

BeatNext == WorldSteps \/ OperatorSteps \/ DaemonSteps

\* Time goes on, the daemon is started again whenever it is down, and neither the
\* transport nor a sensor fails for ever.
BeatFairness ==
    /\ WF_beatVars(TimePasses1)
    /\ WF_beatVars(Wake) /\ SF_beatVars(Start)
    /\ SF_beatVars(BeatCommits)

BeatSpec == BeatInit /\ [][BeatNext]_beatVars /\ BeatFairness

-------------------------------------------------------------------------------
(* What the human may rely on.                                             *)

Told(n) == IF n \in DOMAIN told THEN told[n] ELSE 0

\* The records of the heartbeat agree with each other and with what the human was told: a
\* notice is the work of one committed beat or of one tick by hand and never of both; what
\* a digest event claims was in its beat and was delivered, once, unless a process was
\* lost between a delivery and its commit; and nothing else was delivered.
DigestsAreHonest ==
    /\ DOMAIN inbox = reported \cup byHand
    /\ reported \cap byHand = {}
    /\ claimed \subseteq reported
    /\ \A n \in claimed : Told(n) >= 1 /\ Told(n) <= 1 + lost
    /\ \A n \in DOMAIN told \ claimed : Told(n) <= lost

\* What the log says was delivered is not delivered again: a digest repeats only what a
\* lost process had delivered (heartbeat/service.ts beat: "re-beating at the same
\* committed `at` is a deterministic no-op").
ToldOnceLogged == [][\A n \in claimed : told'[n] = told[n]]_beatVars

\* The human hears of every request that waits too long: as long as a sweep stands, a
\* stale request comes to have its notice, or is answered, whatever beats fail and
\* whoever ticks in between.
SweepStands == \E c \in Cadences : KindOf[c] = "stale_approval_sweep" /\ schedule[c] # Never
StaleRequestsAreHeard ==
    \A r \in Requests \ Reviews :
        (r \in Pending /\ ages[r] >= StaleAfter /\ SweepStands)
        ~> (r \in DOMAIN inbox \/ requests[r] = "resolved")
===============================================================================
