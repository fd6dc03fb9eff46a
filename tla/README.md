# OpenMAO in TLA+

A verification development kept beside the TypeScript implementation of OpenMAO
(`ts/src`). OpenMAO is the control plane of organizations of agents: a worker
proposes, policy decides, a human signs where policy says so, a provider acts
at most once, and every step leaves a durable row and an event. The modules
here are translated from that code; the runs check them with TLC on small
instances, and the proofs establish the central results for every instance with
TLAPS. `PROJECT.json` maps every definition to the lines it stands for.

All paths below are relative to `ts/src` unless they start with `docs/` or `ts/`.

## 1. The system

One SQLite database is shared by every process: the HTTP server and its
console, the command line, the demo spine, any number of each. A service runs
its operation in one transaction (`persistence/database.ts:26`), nested calls
join it, and a thrown error rolls all of it back. Three things live outside the
database: the markdown files of collective memory, the custody files of the
operator (key, fingerprint, profile), and the map of provider promises a gateway
process holds in memory.

| component (code) | state it keeps | operations | what makes it hard | what makes it correct |
|---|---|---|---|---|
| Approval queue and run store (`governance/approvals.ts`, `persistence/runs.ts`, `persistence/approvals.ts`) | run rows, workspace locks, approvals, signed decisions, checkpoints | start and drive a run, request, approve, reject | services drive runs from rows they read earlier; an approval and its run move in separate statements; requests repeat under other ids | one active run per workspace; a suspended run waits for a pending approval of its own and only its verdict moves it; the signature of another principal is on every resolution; one live approval per target, applied once |
| Capability gateway (`capabilities/registry.ts`) | decisions, intents, results; in memory the in-flight promises | invoke (submit, retry, join), executeProvider | the await inside an execution; several processes; crashes between intent and result; retries, late answers; suspension and decisions at any moment | at most one start of the provider, only with authority; results final, ok only after ok; a refusal to re-execute means the execution was lost; nothing waits for ever |
| Policy engine (`governance/service.ts`, the gates of `capabilities/registry.ts`) | none: a function of capability, call and posture | decideCapability, autonomyLevel | many inputs each stated twice, ambiguous organizations, order of gates | the dial is monotone; understating gains nothing; ambiguity fails closed |
| Narrowing of grants (`governance/narrowing.ts`) | the ratified policy, suspensions; reads the event log | ratifyPolicy, scan, lift | replayed scans, two triggers over one log, evidence that outlives a lift | each suspension is earned by fresh evidence; a scan replays nothing |
| Memory promotion (`memory/service.ts`, `memory/provenance.ts`) | candidates, corroborations, attestations, collective rows and files | propose, corroborate, attest, ratify, reject | the file is renamed before the commit; the count on the candidate is the proposer's | guidance is earned by independent evidence and a signature; row and file agree; what is settled stays |
| Organizational change (`org/changes.ts`, `org/apply.ts`, `org/control.ts`) | proposals, applications, the kill switch, memory entries | propose, decide, apply, revert, acknowledge, withdraw, pause | overlapping applications reverted in any order | each rejected entry belongs to one application in force; proposal, approval and application agree |
| Earned autonomy (`org/autonomy.ts`) | the dial, widening cases | propose, ratify, reject widening; narrow | the dial and the track record move between proposal and ratification | the dial widens only step by step, by a ratified case, on a track record in force |
| Durable spine (`spine/service.ts`) | nothing of its own: run, checkpoint, events, products | startDemo, resumeRun, resumeApprovedCapability, resumeDemo | twenty-four separately committed steps, several processes, stale reads, crashes | completed means everything was done; a resume skips nothing undone; a failed run leaves no guidance; every demo ends |
| Work service (`work/service.ts`, `persistence/work.ts`) | work items, workers, envelopes and their tasks, outcomes | create, assign, set status, review, register, envelope, external run, submit outcome | each operation appends an event under a key of the caller or a derived one; a taken key drops the event or aborts the change; runs are shared with the queue | no row has a status or owner no event told; what was told closed stays closed; outcomes and outcome events are one to one; an envelope and its task bound the worker alike |
| Event log and chain attestation (`persistence/events.ts`, `persistence/verify.ts`, `security/chain-attestation.ts`, the v7 migration in `persistence/schema.ts`) | the hash chain, head attestations | append, verifyChain, attest, backfill of legacy events | two writers in deferred transactions; a file restored or rewritten below the program; keys that fall after they anchored; attesting the head moves it | sequence without gaps, an idempotency key names one event; verification accuses no sound log and is not silent about a loss an unchanged anchor can show; the attestations form a chain, each over a fact of its own |
| Principals, authority, signing (`security/principal-bootstrap.ts`, `principal-authority.ts`, `key-custody.ts`, `signing.ts`, `governance/decision-signing.ts`, `persistence/principals.ts`, `signatures.ts`) | principals, keys, credentials, revocations, signatures; sessions; the custody files | ceremony, rotation, attest a key, revoke a key, disable, authenticate, sign a decision, verify | files beside a transaction, one access at a time; ceremonies that race; standing read before a signature is awaited; sessions older than the registry; decision times the caller chooses; rows that move again after they were signed | at most one root; its files and its token agree wherever a rotation stops; a failed ceremony can be repeated; a key that fell signs nothing more; every decision has one signature that rebuilds from its row |
| Worker identity and credentials (`security/worker-auth.ts`, `security/credential-broker.ts`) | registrations, bindings | lookup | none of its own | inputs of the policy engine |
| Chief of staff and heartbeat (`chief_of_staff/`, `heartbeat/`) | cadences, notifications, beat and digest events | seed, add, tick, beat, mark read; the daemon | delivery before commit; beats that throw; operators who tick beside the daemon, at times they choose | inbox, log and deliveries agree; what the log says was told is not told again; a request that waits too long is heard of |
| Learning and diagnosis (`learning/`, `diagnosis/`) | none: a reading of the log and the tables | detect, propose | repeated scans, by hand and by cadence | one proposal per signal and evidence; what they propose has the life of an organizational change |
| Memory retrieval, world model (`memory/retrieval.ts`, `world/`) | none: functions of the stores | query, snapshot | | |
| Ingestion (`ingestion/`) | ingested rows | one idempotent insert | | |
| Model router (`modeling/router.ts`) | requests, responses | route | request without response | |
| Providers (`capabilities/providers/`) | none | execute | timeouts | seen by the gateway as an answer, an error or a timeout |
| Reference worker, API and console, command line, SDK | none | call the services | they are the concurrency of the other components | |
| Contracts, schema, organization registry | immutable or declarative | | unique indexes appear as guards | |

How they interact. Every component that needs a human goes through the approval
queue: the gateway for calls, promotion for candidates, organizational change
for proposals, the spine for its run. The queue moves the run an approval holds,
and calls back into the component (ratify, reject the candidate, mark the
proposal) in the same transaction. The gateway asks the policy engine, which
reads the dial earned autonomy moves and the suspensions narrowing writes;
narrowing reads the events the queue and the gateway leave. The spine drives all
of it from outside, one transaction at a time.

## 2. The modules

    RunStore ── ApprovalService ─┬─ ApprovalServiceProofs
                                 ├─ Promotion ─────────────────┬─ RatificationProofs
                                 ├─ OrgChange ── EarnedAutonomy ┘
                                 ├─ Spine ── SpineProofs
                                 └──(INSTANCE)─┐
    CapabilityPolicy ─┬─ CapabilityGateway ────┴─ CapabilityGatewayProofs
                      │        └──(INSTANCE) GovernedCall
    Narrowing ────────┴─ PolicyDesk ── PolicyDeskProofs
    RunStore ── WorkService ── WorkServiceProofs
    OperatorCustody ── Authority ── AuthorityProofs
    SigningKeys ─┬─ EventChain ──────┐   (AppendOnlyLog by INSTANCE)
                 └─ SignedDecisions ─┼─ EventLogProofs
                    Heartbeat ───────┘

An action is one committed transaction, or one synchronous stretch of an event
loop between two database accesses. A transaction the code aborts by throwing
is a step that is not enabled. Rows that do not exist have status `"absent"` or
the value `None`.

**RunStore, ApprovalService.** `runs`, `locks`, `approvals` are the tables of
`persistence/runs.ts` and `persistence/approvals.ts`; `signed`, `applied`,
`checkpoint` are the signed decisions, the applied effects and the latest
checkpoint. `SetRunStatus` is `setStatus` with its transition table, its pointer
check and the lock's update; `RequestForRun`, `RequestWithoutRun`,
`ApproveForRun`, `ApproveAndApply`, `RejectForRun`, `RejectWithoutRun` are the
branches of `request`, `approve` and `reject`. `DriveRun` is any service that
sets a run's status from whatever it read earlier: it may try every status.
`ServedQueue` is the queue as a component that owns a run may use it: any
`setStatus` the guards let pass and any checkpoint (`OwnerStep`), while approvals
move in the queue's own transactions only. It is what the spine implements.

**CapabilityPolicy, Narrowing, PolicyDesk.** `Decide` is `decideCapability`
behind the gateway's gates, in the code's order. Narrowing keeps the log as a
sequence, because which events a suspension rests on is what the properties are
about; times are seconds, as the code's timestamps are. PolicyDesk puts a call
on a desk, lets the posture move until it is judged, records refusals and human
rejections where the scan finds them, and runs scan, lift and new policies
beside it.

**CapabilityGateway, GovernedCall.** An invocation is a record with a program
counter; `guard`, `check`, `effect`, `start`, `provider`, `record`,
`recordFailed` and `joined` are the places of `executeProvider` between two
accesses other processes can come between. `inflight` is the map of promises of
each process: lost in `Crash`, unlike the rows. Processes may have different
providers. The queue is an instance whose approvals and targets are the calls.
GovernedCall is the promise in the abstract: permitted, intended, performed at
most once, concluded once.

**Promotion.** The queue's targets are candidates. `LoseApproval` and
`LoseRatification` are the transaction lost after the rename: only the file
stays. What differs between two attempts to write one file is its second and
its count of corroborations, so that is all `Content` holds.

**OrgChange, EarnedAutonomy.** The queue's targets are proposals. The one
registered applier turns stale entries rejected and back; every other type is
acknowledged. The dial's levels are their rank. `drifted` is a history variable.

**Spine.** A driver is a process with its place in the script, the floor of its
resume and the run row it last read; each step of the script is the transaction,
file or event the code writes there. `view` is kept where the code goes on with
what it read before, and read again where the code reads again. A driver whose
code throws leaves. `Script` is the script in full; `Kept` are the steps an
instance keeps, and `After` is the next of them.

**WorkService.** `items`, `workers`, `envelopes`, `tasks`, `outcomes` are the
tables of `persistence/work.ts`, and the runs are those of RunStore. `log` maps
each idempotency key to the event appended under it: that is all `append` looks
at. A key is the caller's (`ClientKeys`) or derived from what happened, as the
service derives it: item and owner, item and status, item and decision. An action
is one operation with its event; an event equal to the one under its key changes
nothing, a different one disables the action, since the transaction throws.
Nothing keeps callers from taking a key the service would derive later: keys are free
strings and the id of an outcome may be the caller's (`work/service.ts:316`). So nothing
is assumed of `ClientKeys`, and outcome events are known by their kind, not their key.
`Authors` stands for the actor and the wording of an event, the rest of what
makes two events differ. Other services move the runs (`OtherServices`).

**OperatorCustody, Authority.** `files` is the custody directory;
`principals`, `keys`, `credentials` are the registry. A step of a job is one
access to a file or one transaction: the existence check, the rename and the look
at the result in `writeFileAtomic` (`security/key-custody.ts`) are three steps,
then the check of the key file's mode, the enrolling transaction, and one removal
after another in the clean-up. A rotation mints, rewrites the profile, and
revokes the other tokens. Any place may fail or lose its process. A key is
identified with its principal, since neither is ever changed for the other; ids
and tokens are random, hence fresh. `overlapped` and `abandoned` are history: two
jobs were under way at once, a process was lost. In Authority a request to attest
or to revoke a key is read, signed and recorded in three steps, because the
signature is awaited; attesting the head is one step, because it happens inside
one transaction. The log keeps what the properties are about: the kind of an
event, who signed it and whose key it is about.

**SigningKeys.** Who may sign, by when. `sessions` is what a client was told when it
authenticated (`enrichPrincipalIdentity` freezes it); `principals` and `keys` are the
registry, which moves on. `Sign` is the common core of `signGovernanceDecision` and
`attestChainHead`: resolve the signer from the rows, sign with whatever key the
custody holds (`material`), verify the envelope by substrate time, record it once
per object and key. `Verifies` is `verifyObject` in its order of refusals. An
envelope names its class, key, object, signer and claims, and the key that made it:
encodings and the curve are no more than that to the properties.

**SignedDecisions.** A decision moves its row (`MovedRow`), signs what the row says
by then (`ClaimsOf`) and commits both or neither. Approvals are decided at substrate
time, the other decisions at a time the caller states. What else an approval, a case
or an application goes through is in ApprovalService, EarnedAutonomy and OrgChange;
here a row keeps the columns a signed body is rebuilt from.

**EventChain.** A hash is the sequence of contents it commits to, which makes two hashes
equal exactly when what they hash is. `BeginAppend` reads the head in a deferred
transaction and `CommitAppend` writes: SQLite lets it commit only while nobody wrote since
(`stale`). `Migrate` is the v7 backfill of legacy rows. `AttestHead` is `attestChainHead`
and appends its own event. A row of a run is numbered by the largest number in its run
plus one, which on a damaged log is not their count. Below the program the file may lose
rows, have one altered or renumbered, and the rest chained again (`Damage`), lose its
newest anchor (`LoseAnchor`), or have the position in the row of an anchor changed to
another row of the log (`RepinAnchor`); these stand for a file restored or edited.
`damaged` remembers it, and `repinned` the anchors whose rows no longer say what was
signed. `AnchorVerifies` is what `verifyChainHeadAttestation` compares: not the signed
position with the row's. AppendOnlyLog is what a log promises with no word about writers,
hashes and migrations: one history, to which entries are added at the end, until somebody
reaches below the program.

**Heartbeat.** A cadence counts down to its next firing and a request has an age, so that
time is relative and every state comes back. `Tick` fires all cadences due, with their
sensors; `BeatCommits` is `beat` whole, its delivery included, because SQLite's lock is
taken before the transport is called. The evidence of the blocker detector is the items
blocked now and the events that told of one (`Block`, `Unblock`), so that it grows and
shrinks while it is scanned, and what counts are distinct items. `BeatThrows` leaves
nothing; `BeatIsLost` is the process lost after the delivery, which leaves the delivery.
`told` counts what a human was told, which no table knows.

## 3. The runs

| run | what it checks | states, bounds |
|---|---|---|
| `approval_queue` | three properties of the queue, three of promotion, three of changes and the dial | first focus: two runs of one workspace, three approvals, two targets, two principals. Two runs are what a lock needs to be wrong; a third approval lets a target be asked again after a rejection while the other target is pending. Second focus: one candidate that may be proposed inside or outside its run, three approvals (rejected, lost, asked again), three entries, floor of two corroborations, two lost transactions, three seconds. Third focus: two cleanups that share an entry, one acknowledged proposal, their three approvals, two cases, three levels, a track record of one, two seconds |
| `policy_desk` | two properties of decisions, two of decisions over time | three desks: every combination of what the dial weighs; every way to fail one gate; four calls of one grant with scans, lifts and two ratified policies over three seconds. The third second lets a window (2) pass and a lift come after its cooldown (1) |
| `narrowing_lift` | finding, section 6 | the third desk, one policy |
| `gateway` | one invariant, the in-flight map's property, the refinement of GovernedCall, two liveness properties | one write that needs approval below the bounded dial, both dials, two concurrent invocations, three processes of which one lacks the write's provider, one crash, clients that retry. Two processes can race for one intent while the third serves retries it cannot perform; one crash leaves an intent without its owner |
| `promotion_lost` | finding | one approval, one lost transaction |
| `autonomy_drift` | finding | one cleanup, three cases |
| `spine` | three invariants, the refinement of ServedQueue, one liveness property | two processes, one crash, both approvals decided either way |
| `work` | four properties of rows and log | one item, one worker, two envelopes, one task and run, two outcomes under one key, five events: enough to create, register, start the run, submit and review, or submit twice. The keys of callers are two that the service derives itself, of an outcome and of a task, so that each may be taken before it is derived |
| `work_untold` | finding | no keys of callers |
| `authority` | five properties of custody and record | two roots that may race, one peer, three tokens (ceremony and two rotations), two processes, two requests, four events, three of them while jobs race |
| `event_log` | two properties of the log and its refinement of AppendOnlyLog, two of signatures, three of the heartbeat, one of them liveness | seven focuses, below |
| `anchor_repinned` | finding | the focus `anchor` |

MCAuthority gives a behaviour one of two focuses, chosen at the start: either
what races, failures and lost processes do to custody, while nobody else writes
to the log; or attesting and revoking, over jobs that come one by one and are not
lost. What one focus leaves out does not read what the other varies, except
through the registry, whose every state the second focus reaches (an enrolled
root, one disabled, one whose key stands down, none). The proofs need no focus.

MCApprovalService holds three in the same way: the queue under services that drive runs,
promotion, and changes with the dial, each with queue steps of its own over targets of its
own kind. The proposals of the third are the agent's, approved and applied by one other, so
that two of the three principals act (`OneOther`). MCEventLog holds seven; the modules whose
turn it is not stand still, since they share no state but the registry, which a focus starts
in every state the others could leave.

* `append`: two writers, two kinds of input (one with a run and a key, one without),
  four rows, and the migration over a log with or without a legacy row. Two writers are
  what an overtaken transaction needs; four rows hold two in a run between others.
* `anchor`: one client, two keys whose windows meet at second 1, four rows, so at most
  two attestations; damage that leaves any subset of the rows, one of them altered or
  renumbered or none, chained again or not, at any time, and appends after it. One writer,
  for the races are the first focus's. One anchor's row may be changed (`OneRepinned`),
  after other damage, while the anchors' keys stand and are in their windows. Once the file
  is damaged the registry, the sessions and the clock rest: a key that falls later
  only makes its anchor fail, and those that fell before are varied.
* `decisions`: one object of each kind, a human with a key that expires and one that
  begins, an agent with a key, sessions taken at any time, every material.
* `gap`, `sweep`, `request`: the three default cadences and the beats of a daemon, with
  an incident besides, a second sweep out of step, or a second request; digests of one
  notice, one lost process, operators who tick now or a second ahead.
* `blockers`: two items blocked and unblocked, with or without the event, up to two
  proposals (`TwoBlockers`): an item that is unblocked changes the evidence and so the
  proposal.

Types are proved rather than run.

Symmetry is declared only where all properties of the run are invariants or
action properties, and only over values the constants treat alike.

`Omitted` (spine) leaves out of the script the steps whose kind another kept step has:
consecutive records, consecutive idempotent products. A step of each kind and every step
with a guard of its own is kept, between the same neighbours. The proofs hold for every
`Omitted`, the complete script among them. `CHECK_DEADLOCK FALSE` is declared where the
system may come to rest (all approvals resolved, all runs over, all bounds spent); the
gateway, whose clients repeat their calls, is checked for deadlock.

Bounds in the guards: `MaxTime`, `MaxSeconds` (the clocks), `MaxLost` (lost transactions),
`MaxCrashes` (lost processes), `MaxEvents` and `CustodyEvents` (the log), a
desk's `turns` (calls that follow). Approvals, calls, cases are finite sets of
ids.

### Fairness

* `EventLoopFairness` (gateway): an event loop serves continuations that are
  ready, and a provider call ends, since providers time out
  (`capabilities/providers/github.ts:77`). It is strong because another
  invocation of the same process may hold the loop in between.
* `ClientsRetry` (gateway): a client repeats a call that has no result. Nothing
  in the code obliges it to; the property says what retrying is worth to a client
  that does.
* `OperatorsRetry` (`promotion_lost` only): an operator told that the approval
  was lost approves again. Without it the violation would be a behaviour in
  which nobody acts.
* `SpineFairness`: a live process goes on (weak, its next step stays enabled),
  operators resume a run that is not over again and again (strong, since another
  process may be in between), and what is pending is decided (weak).
* `BeatFairness`: time passes and a sleeping daemon wakes (weak: `setTimeout`), a daemon
  that is down is started again (strong, operators may stop it again), and a beat
  commits again and again where it may (strong). The last says that neither the
  transport nor a sensor fails for ever; the code goes on after every failure
  (`heartbeat/service.ts:134`), and retries are all it promises. MCEventLog asks it in
  the focuses in which the daemon beats (`BeatingFairness`).

Nothing else is assumed fair; a crash never is.

## 4. What the runs show

*Queue.* `RunsMatchApprovals` relates three tables that separate statements update:
run, lock, approval. One run of a workspace is active and holds its lock; a run waits
only for a pending approval of its own; and a pending approval of a run holds that run,
unless the run failed meanwhile. `ApprovalsMatchTargets` (each resolution signed by
somebody other than who asked, one live approval per target, one application under it):
the ledger of decisions. `DecisionsBind` joins `ResumesOnlyOnItsVerdict` (whatever a
service with a stale view tries, a suspended run moves on only in the step that resolves
its approval) and `DecisionsAreFinal` (nothing changes a verdict, its signature or a
terminal run afterwards).

*Gateway.* `AtMostOnce`: the provider is started once, through duplicates, retries,
several processes and crashes. `PromisesAreKept` joins two halves about the in-flight
map. `RefusedMeansLost`: a process records "refusing to
re-execute" only when none of its own invocations is starting or awaiting the
provider; that the other processes may be is the code's behaviour, and the model has
it. `PromisesHaveOwners`: no entry of the in-flight map outlives its execution.
`ImplementsGovernedCall` sums it up: only permitted calls are intended, only
intended ones performed, ok is recorded only after a performance, and a result is
final. `IntentIsConcluded` and `NoInvocationHangs` are the liveness of the same
steps.

*Policy and narrowing.* `PolicyOnlyTightens` compares the decision with what the same
call would get elsewhere on the dial (`DialIsMonotone`) or honestly stated
(`UnderReportingGainsNothing`); `PermittedCallIsConfined` is about the posture of the
moment the call is judged. `SuspensionsAreEarned` and `ScanReplaysNothing` relate every
suspension ever written to the log and to the others.

*Promotion.* `GuidanceIsEarned`, `MemoryMatchesFile`, `SettledStaysSettled`.

*Changes and autonomy.* `CleanupsAreAccounted`, `ProposalFollowsApproval`,
`WideningIsEarned`.

*Spine.* `CompletedMeansDone`: a completed run did all its script says.
`ResumeFloorIsRecorded`: what a resume passes over is on record. `FailedLeavesNoMemory`:
a failed run ratified nothing. `ServedQueue`: through stale reads, crashes and second
processes the spine keeps to the protocol of the queue, so whatever the queue promises
about runs and approvals holds of the demo run. And, under fairness, `DemoEnds`.

*Work.* `RowsWereTold`: whatever keys callers reuse, the status and the owner a
row has were told by some event about it. `FinalFactsStay`: an item told done or
failed, and a run told completed, are so for good, although outcomes are replayed
after it. `EnvelopesAreBounded`: an envelope and the task of its run name the same
bound, within the worker's grants. `OutcomesMatchLog`: an outcome and its event
are one to one, whatever is submitted again and whatever keys callers took before: a
taken key aborts the submission, and a row is never left without its event.

*Custody and authority.* `OneRoot` holds whatever races. `OperatorIsUsable` and
`RetryIsPossible` are what an operator may rely on while jobs come one after
another, at every step and wherever one stops. Under a race they do not hold, and
the model shows why: the rename replaces what an earlier ceremony placed and the
loser's clean-up removes by path; overlapping rotations revoke each other's
tokens. `RevocationsHold`: after the event of a revocation no event is signed with
that key, although signatures are awaited between the checks and the transaction, and
row, standing and event of a revocation agree. `AnchorsFormAChain`: attesting the head
does not make a fact to attest, each attestation covers one of its own, and none is
skipped.

*Log.* `ChainIsLinear`: an undamaged log is what writers would have left who took
turns. `VerdictIsRight` has two halves. `SoundLogVerifies`: verification accuses no sound
log, through concurrent appends, the migration and attestations by one key after another,
as long as the newest anchor's key stands and its window holds the time of the attested
head. `VerifiedMeansAttested`: a log that verifies against a surviving anchor holds, row
by row, what was attested, whatever happened to the rows of the log. Its reach is that of
the newest surviving anchor, and no more; and it is stated of an anchor whose own row was
not changed, since the code believes the columns of that row (`anchor_repinned` shows it,
section 6). `ImplementsAppendOnlyLog`: what several writers do
at once is one history that grows by one row at a time and is never rewritten. The
documentation says "append-only" (`docs/LIMITATIONS.md:85`) and the migration drops the
trigger that enforces it (`persistence/schema.ts:958` spares the rows of the chain).

*Signatures.* `SignaturesMatchDecisions`: every transition a row has been through has
exactly one signature, by a human, whose body rebuilds from the row as it stands now: a
reversal later must leave the columns the application was signed over.
`FallenKeysSignNothing`: a session may be older than a revocation and a decision may
state any time; neither signs with a key that fell or outside its window.

*Heartbeat.* `DigestsAreHonest`: a notice is of one committed beat or of one tick by hand,
what a digest event claims was delivered, and nothing was delivered besides, but for what
lost processes had delivered. `ToldOnceLogged`: what the log says was told is not told
again. `StaleRequestsAreHeard`: where a sweep stands, a request that has waited too long
comes to have its notice or is answered.

Every property of a passing run is paired in `PROJECT.json` with a mutant: a
plausible bug in one definition that breaks it. The bodies of these bugs are the
operators without a use of their own (`MaySuspendAgain`, `SwapAny`,
`SourceIndependent`, `FailAnyRun`, ...) beside the ones they would replace.

## 5. What is proved

`ApprovalServiceProofs` (any number of runs, workspaces, approvals, principals,
targets; assumption: `RunStoreAssumption`, that each run has a workspace and
`None` is nobody's name).

* `TypeCorrect`: `TypeOK` is inductive.
* `QueueSafety`: the lock, suspension and pending-approval invariants. They are
  not inductive one by one: that a pending approval holds its run needs that the
  run's pointer names it, which needs that a suspended run's approval is pending,
  and the lock needs the transitions of the run. `QueueInv` is their conjunction
  with `TypeOK`; one step of the proof per action.
* `LedgerSafety`: signatures, live approvals and applications, from `LedgerInv`.
* `ResumesOnVerdict`, `FinalDecisions`: action properties, from `QueueInv` and
  `TypeOK`; `DecisionsAreBinding` is the two together (`DecisionsBind`).
* `ServedQueueSafety`: all of them again for `ServedQueue`. An owner that writes what
  `setStatus` lets pass keeps `QueueInv` (`OwnerKeepsQueue`): it can neither leave
  suspension without a verdict nor suspend on another's approval. So a component has the
  queue's promises once its steps are steps of `ServedQueue`.

`CapabilityGatewayProofs` (any number of calls, invocations, processes, runs,
dials; assumption: `GatewayAssumption`, that calls name runs and principals that
exist, and dials levels). It takes the queue's theorems through an instance: every step
of the gateway is a step of the queue or leaves it alone.

* `GatewayTypeCorrect`.
* `GatewaySafety`: `AtMostOnce`, and two that no run checks by themselves:
  `OnlyAuthorisedExecute` (a call that started was allowed or approved) and
  `OkMeansPerformed` (ok is recorded only of what took effect). None is inductive.
  `GatewayInv` adds what makes them so: a call that was started has its intent, an
  intent its authority (`CallInv`); what an invocation at each place knows of its
  call (`InvocationInv`); and that of all invocations of a call at most one is
  between creating the intent and recording (`OneExecutor`): the intent is durable,
  and only who created it goes on.
* `FinalResults`: `ResultIsFinal`, a recorded result never changes.
* `PromisesKept` (`PromisesAreKept`): `PromisesOwned` and `RefusalsAreLosses`, from
  `PromiseInv`: one invocation of a process runs at a time; the map holds a call exactly
  while an invocation is between start and recording, of which `OneExecutor` leaves one;
  who joined waits on an entry, and who is about to refuse saw none, which the event
  loop keeps so until the refusal is written.
* `GatewayImplementsGovernedCall`: step by step, with the mapping of
  `CapabilityGateway`; authority once given or denied stays, so `PermissionOf`
  moves as the abstract permission does.
* `GatewayImplementsQueue`, `GatewayQueueSafety`: the gateway's behaviours are
  behaviours of the queue, which therefore keeps its invariants there.

`PolicyDeskProofs` (any grants, policies, desks; assumptions: `NarrowingAssumption`,
that policies have positive windows and thresholds, and `DeskAssumption`, that
capabilities, calls and worlds carry the fields the engine reads).

* `DeskTypeCorrect`, `SuspensionsEarned`, `ScanReplays`. `SuspensionsAreEarned`
  is inductive together with `Records`, the types and times of log and
  suspensions: a new suspension counts only events that no lifted suspension of
  its grant rests on, and is written only where none is active, so all earlier ones
  are lifted. A scan adds its suspensions as active, which is why the same scan
  finds nothing again.
* `DecisionsConfined`, `DialMonotone`, `UnderReportingEarnsNothing`, the two together as
  `PolicyTightens`, `AmbiguityClosed`, `EffectsNeedHumans`: about one decision, hence
  proved of the operators on every input a desk can hold (`Inputs`) and carried to the
  behaviours by the type invariant `DeskInv`.

`RatificationProofs` holds the two components that ratify through the queue.

Promotion (any candidates, entries, floors, seconds, lost transactions; assumptions:
`PromotionAssumption`, `ContentAssumption`, that no text is `None`):

* `PromotionImplementsQueue`: each step is one of the queue or leaves it alone,
  so the queue's theorems hold of promotion and are used below.
* `PromotionTypeCorrect`, with the finiteness of the corroborations.
* `FilesMatch`: a lost transaction writes the file of an open candidate only, and
  ratification refuses a file with another text.
* `SettledIsFinal`, from `FilesMatch`'s invariant.
* `GuidanceEarned`. The code counts rows, the property actors and entries; `RowsInv`
  (no two rows of a candidate share an actor or an entry, none has its proposer
  or source) makes the three counts equal. `Grounds` says which approval a memory
  rests on; it stays because resolved approvals are final and the rows of a
  ratified candidate are frozen.

Changes and autonomy (any proposals, entries, cases, levels; assumptions:
`OrgChangeAssumption`, `AutonomyAssumption`):

* `ChangesImplementQueue`, `AutonomyTypeCorrect`.
* `ChangesAccounted`: `CleanupsAreAccounted` is inductive with the types, since an
  application demands stale entries, at least one of them, and a reversal rejected ones.
* `WideningEarned`: an action property, from the types and from `ChangeInv`, by
  which no proposer applied its own proposal.
* `ProposalsFollow`, from `FollowInv`: every proposal has one approval, since its
  approval is made with it, once; so what one approval decides no other contradicts.

`SpineProofs` (any number of processes and crashes, any script steps left out or none, any
other runs, approvals and targets; assumptions: `SpineAssumption`, that the demo's run,
calls and principals exist and differ, and `NodesAssumption`, that no node is named
`None`).

* `SpineTypeCorrect`, `CompletionIsWhole`, `ResumesPassOverNothing` and
  `FailureLeavesNothing` from one invariant, `SpineInv`, which TLC checked on the instance
  of the run before it was proved. What is durable says how far the script is done
  (`Done(i)`, a predicate of records, products, call and candidate), and each process
  stands at a step below which all is done (`DriverInv`). This is inductive because
  nothing that is done is undone (`Evolves`), so a process that does not move keeps its
  word whatever the others do (`DriverStays`). A floor is believed because who wrote the
  checkpoint had done what is below it (`Vouched`).
* What a process read earlier is harmless for two reasons the invariant names: a view
  that says the run is over is still true, and whoever asked for an approval did so after
  the steps before it (`LookupInv`, `PromotionInv`). `FailureLeavesNothing` rests on
  `PromotionInv`: a run fails while its promotion is unasked or rejected, and neither can
  be ratified after; a call refused in a race fails the run only before the promotion is
  proposed, for afterwards it has its outcome.
* `SpineKeepsTheQueue`: step by step, each is a transaction of the queue, a write
  `setStatus` allows the owner (`Owned`), or a stutter. With `ServedQueueSafety` it gives
  `SpineAnswersToTheQueue`.

`WorkServiceProofs` (any items, workers, envelopes, outcomes, keys; assumptions:
`RunStoreAssumption` and `WorkAssumption`).

* `WorkTypes`, `ItemsAreTold`, `FinalStays`, `BoundsHold`, `OutcomesAreTold`, all
  from one invariant `Inv`, with no assumption on which keys callers use. It adds
  to the properties what they need of the rows a record names (`KnownEvent`,
  `KnownEnvelope`, `KnownOutcome`): the item of an event told closed exists and is
  closed likewise, the run of an event told completed is completed, an outcome's
  envelope exists. They stay because `update` and `setStatus` refuse to leave a
  closed status. A derived key names the item and the value its event told, so a
  replay that appends nothing returns to a value told before; and an outcome event
  has its one row because the submission key and the id of an outcome are each
  unique (`StoredOnce`).

`AuthorityProofs` (any roots, peers, tokens, processes, requests; assumption:
`CustodyAssumption`, that `None` is nobody's name and no value, and that roots and
peers are different).

* `AuthorityTypes` needs what a process has with it at each place (`TypeInv`), and
  `AnchorsHaveLatest`, without which the head of the latest attestation would be
  no number.
* `RootIsOne`, `RevokedStaySilent` and `RevocationRecords` (together
  `RevocationsAreTotal`), `AnchorChain` from `Inv`.
  Every step is one of five kinds (`Steps`): silent, an enrolment, an event of
  somebody in standing, a revocation, an attestation of the head. A key in
  standing was told revoked by nobody (`StandingNotRevoked`), which is why what is
  signed with it may follow; an enrolment finds no principal, hence no event of an
  earlier one (`RegistryInv`).
* `OperatorStaysUsable` from `OrderInv`: while jobs do not overlap, at most one
  process is under way, and files and credentials are what its place says
  (`CeremonyFiles`, `RotationFiles`).
* `CeremonyCanBeRetried` from `RetryInv`: without a root every file has a process
  that created it or is just placing it, and is `Responsible` for its removal. A
  process at the key's mode check has created both files and leaves only when the
  key is gone, which cannot be while it runs alone.

`EventLogProofs` (any principals, keys with any windows, clients, writers, inputs,
objects, cadences, requests; assumptions: `SigningAssumption`, `DecisionsAssumption`
that the three kinds of objects have different ids, `ChainAssumption`,
`HeartbeatAssumption`). The bounds `MaxTime`, `MaxEvents` and `MaxLost` are arbitrary
numbers.

* `DecisionTypes`, `SignaturesMatch` from `DecisionsInv`: each transition of an object
  has at most one signature, since the row moved with it and does not move that way again;
  a reversal keeps the columns of the application.
* `FallenKeysSilent`, `FallenKeysAnchorNothing`: one lemma on `Sign` (`SignFacts`), used
  of decisions and of anchors.
* `LogIsLinear` from `ChainInv`: a draft that nobody overtook is still the row an append
  would write now, because every commit marks the others stale; so a commit extends rows
  numbered 1 to n by row n + 1. The rows of a run are numbered 1 to k, so that the largest
  number is their count, and the migration touches rows without a hash, hence no link.
* `ChainImplementsAppendOnlyLog`: a commit or an attestation adds the entry n + 1, the
  migration leaves every entry as it is, and by `ChainInv` a number names one row.
* `NoFalseAlarm`, that is `SoundLogVerifies`, from `ChainInv` and `AnchorsInv`: while
  nothing is damaged each anchor pins a row that stays, has the signature it names, and
  the newest is behind the head; with its key in standing and its window holding, all
  that `VerifiesChain` asks for is there.
* `NoSilence`, that is `VerifiedMeansAttested`, of a damaged log too. An anchor that is
  not in `repinned` pins the head its signature names, whatever is done to the log or to
  other anchors (`PinsInv`). Damage leaves numbered rows (`RowsStaySound`); in a log that
  verifies, the hash of every row is its history, the contents of the rows up to it
  (`VerifiedHistory`): the lowest row of which that were not so would stand on rows of
  which it is. The anchored hash is then the history of the row that carries it. With
  `NoFalseAlarm` it makes `VerdictsAreRight`.
* `DigestsHonest`, `DeliveredOnceLogged` from `HeartbeatInv`: a notice once in the inbox
  is never new again, and what is delivered is new.

Only model-checked: liveness (`IntentIsConcluded`, `NoInvocationHangs`, `DemoEnds`,
`StaleRequestsAreHeard`), which is out of the prover's reach as ENABLED is. Every invariant
and every action property of a passing run is proved. Where an argument goes by induction
(the newest row, the next step of the script, the history of a row), the library's induction
theorems cannot be used, since they take the predicate as a parameter; the proofs take the
least number of a set instead (`WFMin` over the numbers), which is why no module declares a
recursive operator.

## 6. Where the code disagrees with what is said of it

Each is a run that violates one property and a finding that quotes the line.

1. `promotion_lost`: an approval lost between rename and commit leaves a file
   that no retry in another second can accept (`memory/service.ts:583` against
   `docs/ARCHITECTURE.md:212`).
2. `autonomy_drift`: a widening case survives a narrowing and a second widening
   and is ratified after them (`org/autonomy.ts:201` against the comment at
   `:170`).
3. `narrowing_lift`: blocks that were logged while a grant was suspended count
   after the lift (`governance/narrowing.ts:198` against the comment at `:368`).
4. `work_untold`: an item that returns to an owner or a status it had before
   changes without an event, because the key derived for it is taken
   (`work/service.ts:267` against `docs/ARCHITECTURE.md:45`).
5. `anchor_repinned`: `verifyChainHeadAttestation` (`security/chain-attestation.ts:146`)
   verifies the signature of an anchor and never compares the position it was made over
   with the columns of the row. A log chained again whose anchor's row was changed to its
   new head verifies, against the comment at `:71` (the signed body is "rebuilt from the
   attestation row's own fields") and at `:82`. `VerifiedMeansSigned` is what these say.

Met while modelling the log, the signatures and the heartbeat, and stated by no property,
because what is said of it is either true in a narrower sense or leaves room:

* An anchor is judged at the time of the head it attests. After a rotation
  `security/chain-attestation.ts:140` and `docs/LIMITATIONS.md` advise to attest again;
  if the head is older than the new key's `valid_from`, that anchor fails with
  `key_not_yet_valid` until something is appended and attested. `SoundLogVerifies` has
  this as a premise.
* An attestation re-validates the attested position only when it has nothing new to
  attest (`security/chain-attestation.ts:278`); with a new fact it anchors the rewritten
  log afresh, and the older anchor is no longer consulted. `VerifiedMeansAttested` is
  about the newest surviving anchor for this reason.
* `heartbeat/service.ts:54` says event and delivery "commit together or not at all"; a
  process lost in between delivers what is rolled back. The counter `lost` is in the
  properties for it.
* `chief_of_staff/service.ts:71` calls seeding idempotent; seeding at another instant
  throws (`persistence/cadences.ts:25`), since the stored cadence differs.
* `senseStaleApprovals` leaves out every review of a change, on the ground that the
  learning sensor has reported it; changes proposed by hand, or by a scan outside a
  tick, are never noticed as stale. `Reviews` has them, and `StaleRequestsAreHeard`
  excludes them.
* A sensor that throws fails the whole tick, hence the beat, until it no longer does.

## 7. What is not modelled, and the plan

Left out for good: byte formats, canonical JSON, the curve and file modes of signing;
text ranking of retrieval; the walk of diagnosis over causal references; parsing and
routing of API and command line; the requests a provider sends; rendering. In the
modelled components: registration of capabilities (each has its one row), writing of
individual memory (a constant set of entries), the second leg of `denyDemo`, the
environment's tiers of key custody, conditions on keys (the loader gives every key none)
and the label of development trust, `setEnabled` of cadences (which nothing calls), what
legacy events are given by the migration (only that they change), the marker relabelling
of the v8 migration. Worker registration tokens, ingestion and the model router insert
rows once by id and have no behaviour over time that the modules of the log do not have.

What a continuation would take up, most important first:

1. The queue's `signed` replaced by the signatures of SignedDecisions, so that one
   specification holds both; the two agree so far by their mapping to the same lines.
2. Authority's attestations over EventChain's log instead of its list of kinds.
3. ModelRouter beside EventChain: a request without its response.
