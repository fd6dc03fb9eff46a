------------------------------ MODULE WorkService ------------------------------
(***************************************************************************)
(* The system of record of work: work/service.ts over persistence/work.ts, *)
(* the run store and the idempotency keys of persistence/events.ts.        *)
(*                                                                         *)
(* Every action is one transaction that changes rows and appends the event *)
(* that tells of it.  The key of an event is the caller's or one derived   *)
(* from what happened; an event whose key is taken is not appended again   *)
(* if it is the same event, and aborts the transaction if it is another.   *)
(* One workspace: requests that name another throw.                        *)
(***************************************************************************)
EXTENDS RunStore, Naturals, FiniteSets

CONSTANTS
    Items, Workers, Envelopes, Tasks,    \* ids of rows
    Outcomes,                            \* ids of outcomes
    OutcomeKeys,                         \* the idempotency keys workers submit them under
    Capabilities,
    GrantsOf,                            \* what each worker is registered with
    ClientKeys,                          \* idempotency keys callers choose for events:
                                         \* any strings, derived keys too
    Authors,                             \* an actor with its wording: what else an event says
    MaxEvents                            \* a bound: how many events the log takes

VARIABLES
    items,       \* the work item rows
    workers,     \* the registered workers
    envelopes, tasks, outcomes,
    log          \* the event appended under each idempotency key

rowVars == <<items, workers, envelopes, tasks, outcomes>>
vars == <<storeVars, rowVars, log>>

Closed == {"done", "failed"}
ItemStatus == {"queued", "in_progress", "blocked", "review"} \cup Closed

\* The owner of an item is a principal; workers are principals too.
ItemRow == [status : ItemStatus, owner : Principals]
TaskRow == [item : Items, worker : Workers, run : Runs, caps : SUBSET Capabilities]
EnvelopeRow == [item : Items, worker : Workers, run : Runs \cup {None},
                task : Tasks \cup {None}, caps : SUBSET Capabilities]
OutcomeRow == [id : Outcomes, envelope : Envelopes, status : {"completed", "blocked", "failed"}]

EventKinds == {"work.created", "work.assigned", "work.status", "work.reviewed",
               "work.outcome_submitted", "work.envelope.created", "task.envelope.created",
               "worker.registered", "run.started", "run.completed"}
Event == [kind : EventKinds, by : Authors,
          of : Items \cup Workers \cup Runs \cup Tasks \cup Envelopes,
          status : ItemStatus \cup {None}, owner : Principals \cup {None}]
EventOf(kind, by, of, status, owner) ==
    [kind |-> kind, by |-> by, of |-> of, status |-> status, owner |-> owner]

\* The keys the service derives when the caller gives none.
Decisions == {"accepted", "changes_requested", "rejected"}
DerivedKeys ==
    ({"created"} \X Items) \cup ({"registered"} \X Workers) \cup ({"task"} \X Tasks)
    \cup ({"outcome"} \X Outcomes) \cup ({"started", "completed"} \X Runs)
    \cup ({"assigned"} \X Items \X Principals) \cup ({"status"} \X Items \X ItemStatus)
    \cup ({"review"} \X Items \X Decisions) \cup ({"envelope"} \X Items \X Envelopes)
EventKeys == ClientKeys \cup DerivedKeys

\* None is no id and no row.
ASSUME WorkAssumption ==
    /\ GrantsOf \in [Workers -> SUBSET Capabilities]
    /\ None \notin Tasks \cup ItemRow \cup TaskRow \cup EnvelopeRow \cup OutcomeRow \cup Event

RowsTypeOK ==
    /\ items \in [Items -> ItemRow \cup {None}]
    /\ workers \subseteq Workers
    /\ envelopes \in [Envelopes -> EnvelopeRow \cup {None}]
    /\ tasks \in [Tasks -> TaskRow \cup {None}]
    /\ outcomes \in [OutcomeKeys -> OutcomeRow \cup {None}]

\* Every row and every event has its type.
WorkTypeOK == StoreTypeOK /\ RowsTypeOK /\ log \in [EventKeys -> Event \cup {None}]

Init ==
    /\ StoreInit
    /\ items = [i \in Items |-> None]
    /\ workers = {}
    /\ envelopes = [e \in Envelopes |-> None]
    /\ tasks = [t \in Tasks |-> None]
    /\ outcomes = [k \in OutcomeKeys |-> None]
    /\ log = [k \in EventKeys |-> None]

-------------------------------------------------------------------------------
(* The event log and the rows.                                             *)

\* append under a key that is taken: the same event is returned, another throws.
Fits(key, event) == log[key] \in {None, event}

Told(k) == log[k] # None
HasRoom == Cardinality({k \in EventKeys : Told(k)}) < MaxEvents

AppendUnlessTaken(key, event) ==
    log' = IF Told(key) THEN log ELSE [log EXCEPT ![key] = event]
Append(key, event) ==
    /\ Fits(key, event)
    /\ Told(key) \/ HasRoom
    /\ log' = [log EXCEPT ![key] = event]

\* The key of an event: the caller's, or the derived one.
KeysFor(derived) == ClientKeys \cup {derived}

\* A row is inserted once; saving it again unchanged returns it.
Fresh(table, id, row) == table[id] \in {None, row}

\* WorkItemStore.update and setStatus: the same row again is no change, a closed
\* item takes no other.
UpdateAny(i, row) == items' = [items EXCEPT ![i] = row]
UpdateItem(i, row) ==
    /\ items[i] = row \/ items[i].status \notin Closed
    /\ items' = [items EXCEPT ![i] = row]

-------------------------------------------------------------------------------
(* Work items.                                                             *)

CreateWork(i, owner, by) ==
    LET row == [status |-> "queued", owner |-> owner] IN
    /\ Fresh(items, i, row)
    /\ items' = [items EXCEPT ![i] = row]
    /\ \E key \in KeysFor(<<"created", i>>) :
           Append(key, EventOf("work.created", by, i, "queued", owner))
    /\ UNCHANGED <<storeVars, workers, envelopes, tasks, outcomes>>

AssignWork(i, owner, by) ==
    LET current == items[i]
        status == IF current.status = "queued" THEN "in_progress" ELSE current.status
    IN
    /\ current # None
    /\ UpdateItem(i, [status |-> status, owner |-> owner])
    /\ \E key \in KeysFor(<<"assigned", i, owner>>) :
           Append(key, EventOf("work.assigned", by, i, status, owner))
    /\ UNCHANGED <<storeVars, workers, envelopes, tasks, outcomes>>

SetStatus(i, status, by) ==
    /\ items[i] # None
    /\ UpdateItem(i, [items[i] EXCEPT !.status = status])
    /\ \E key \in KeysFor(<<"status", i, status>>) :
           Append(key, EventOf("work.status", by, i, status, None))
    /\ UNCHANGED <<storeVars, workers, envelopes, tasks, outcomes>>

StatusVerbatim(decision) == IF decision = "accepted" THEN "done" ELSE decision
StatusAfter(decision) ==
    CASE decision = "accepted" -> "done"
      [] decision = "rejected" -> "failed"
      [] OTHER -> "in_progress"

ReviewWork(i, decision, by) ==
    LET status == StatusAfter(decision) IN
    /\ items[i] # None
    /\ UpdateItem(i, [items[i] EXCEPT !.status = status])
    /\ \E key \in KeysFor(<<"review", i, decision>>) :
           Append(key, EventOf("work.reviewed", by, i, status, None))
    /\ UNCHANGED <<storeVars, workers, envelopes, tasks, outcomes>>

-------------------------------------------------------------------------------
(* Workers, envelopes and what workers return.                             *)

RegisterWorker(w, by) ==
    /\ workers' = workers \cup {w}
    /\ \E key \in KeysFor(<<"registered", w>>) :
           Append(key, EventOf("worker.registered", by, w, None, None))
    /\ UNCHANGED <<storeVars, items, envelopes, tasks, outcomes>>

\* An envelope holds no capability its worker was not registered with.
WithinGrants(w, caps) == caps \subseteq GrantsOf[w]

\* A task id that is taken is shared if the task is the same.
ReuseTask(t, row) == tasks' = IF tasks[t] = None THEN [tasks EXCEPT ![t] = row] ELSE tasks
EnsureTask(t, row) ==
    /\ Fresh(tasks, t, row)
    /\ tasks' = [tasks EXCEPT ![t] = row]

\* An envelope for a run carries a task of that run, whose event comes first: the
\* envelope's finds the key taken if it is the same.
CreateEnvelope(e, i, w, r, t, caps, by) ==
    LET row == [item |-> i, worker |-> w, run |-> r, task |-> t, caps |-> caps]
        taskRow == [item |-> i, worker |-> w, run |-> r, caps |-> caps]
        told == EventOf("work.envelope.created", by, e, None, None)
        taskTold == EventOf("task.envelope.created", by, t, None, None)
    IN
    /\ items[i] # None /\ w \in workers
    /\ WithinGrants(w, caps)
    /\ Fresh(envelopes, e, row)
    /\ envelopes' = [envelopes EXCEPT ![e] = row]
    /\ \E key \in KeysFor(<<"envelope", i, e>>) :
           /\ Fits(key, told)
           /\ Told(key) \/ HasRoom
           /\ \/ /\ r = None /\ t = None
                 /\ log' = [log EXCEPT ![key] = told]
                 /\ UNCHANGED tasks
              \/ /\ r \in Runs /\ t \in Tasks
                 /\ runs[r].status # "absent"
                 /\ EnsureTask(t, taskRow)
                 /\ Fits(<<"task", t>>, taskTold) /\ key # <<"task", t>>
                 /\ log' = [log EXCEPT ![<<"task", t>>] = taskTold, ![key] = told]
    /\ UNCHANGED <<storeVars, items, workers, outcomes>>

\* record: a key that is taken returns the outcome stored under it, if it is the
\* same; the ids of outcomes are unique.
RecordAgain(k, row) == outcomes' = [outcomes EXCEPT ![k] = row]
RecordOutcome(k, row) ==
    /\ Fresh(outcomes, k, row)
    /\ \A other \in OutcomeKeys \ {k} : outcomes[other] # None => outcomes[other].id # row.id
    /\ outcomes' = [outcomes EXCEPT ![k] = row]

\* The item follows the outcome unless it is closed; the event says what the
\* outcome asks for either way.
SubmitOutcome(k, id, e, w, status, by) ==
    LET i == envelopes[e].item
        next == IF status = "completed" THEN "review" ELSE status
    IN
    /\ envelopes[e] # None
    /\ envelopes[e].worker = w
    /\ RecordOutcome(k, [id |-> id, envelope |-> e, status |-> status])
    /\ items' = IF items[i].status \in Closed THEN items
                ELSE [items EXCEPT ![i].status = next]
    /\ Append(<<"outcome", id>>, EventOf("work.outcome_submitted", by, i, next, None))
    /\ UNCHANGED <<storeVars, workers, envelopes, tasks>>

-------------------------------------------------------------------------------
(* Runs of external workers, and the services that move them meanwhile.    *)

Running(r) == [status |-> "running", node |-> "run_started", ptr |-> None]

\* A run that exists is started if it is queued and returned otherwise; only a
\* new run has an event.
EnsureExternalRun(r, by) ==
    /\ \/ /\ runs[r].status = "absent"
          /\ locks[WorkspaceOf[r]] = None
          /\ runs' = [runs EXCEPT ![r] = Running(r)]
          /\ locks' = [locks EXCEPT ![WorkspaceOf[r]] = r]
          /\ \E key \in KeysFor(<<"started", r>>) :
                 Append(key, EventOf("run.started", by, r, None, None))
       \/ /\ runs[r].status = "queued"
          /\ SetRunStatus(approvals, r, "running", "run_started", None)
          /\ UNCHANGED log
    /\ UNCHANGED <<approvals, rowVars>>

\* A run that is over is returned as it is; a suspended one throws.
CompleteExternalRun(r, by) ==
    /\ runs[r].status \notin Terminal \cup {"absent"}
    /\ SetRunStatus(approvals, r, "completed", "run_completed", None)
    /\ \E key \in KeysFor(<<"completed", r>>) :
           Append(key, EventOf("run.completed", by, r, None, None))
    /\ UNCHANGED <<approvals, rowVars>>

QueueRun(r) == CreateRun(r, "queued") /\ UNCHANGED approvals

SuspendRun(r, a, t, q) ==
    /\ approvals[a].status = "absent"
    /\ runs[r].status = "running"
    /\ approvals' = [approvals EXCEPT ![a] =
           [status |-> "pending", run |-> r, by |-> q, target |-> t, onReject |-> "fail_run"]]
    /\ SetRunStatus(approvals', r, "suspended_approval", "approval_requested", a)

ResolveRun(r, a) ==
    /\ runs[r].status = "suspended_approval" /\ runs[r].ptr = a
    /\ \/ /\ ResolveApproval(a, "approved")
          /\ SetRunStatus(approvals', r, "running", "approval_resolved", None)
       \/ /\ ResolveApproval(a, "rejected")
          /\ SetRunStatus(approvals', r, "failed", "approval_rejected", None)

OtherServices ==
    /\ \/ \E r \in Runs : QueueRun(r)
       \/ \E r \in Runs, a \in Approvals, t \in Targets, q \in Principals : SuspendRun(r, a, t, q)
       \/ \E r \in Runs, a \in Approvals : ResolveRun(r, a)
    /\ UNCHANGED <<rowVars, log>>

-------------------------------------------------------------------------------

\* The API and the command line pass on any status the schema knows.
StatusRequests == ItemStatus

Operators(by) ==
    \/ \E i \in Items :
          \/ \E owner \in Principals : CreateWork(i, owner, by) \/ AssignWork(i, owner, by)
          \/ \E status \in StatusRequests : SetStatus(i, status, by)
          \/ \E decision \in Decisions : ReviewWork(i, decision, by)
    \/ \E w \in Workers : RegisterWorker(w, by)
    \/ \E e \in Envelopes, i \in Items, w \in Workers, r \in Runs \cup {None},
          t \in Tasks \cup {None}, caps \in SUBSET Capabilities :
          CreateEnvelope(e, i, w, r, t, caps, by)
    \/ \E r \in Runs : EnsureExternalRun(r, by) \/ CompleteExternalRun(r, by)

Next ==
    \/ \E by \in Authors :
          \/ Operators(by)
          \/ \E k \in OutcomeKeys, id \in Outcomes, e \in Envelopes, w \in Workers,
                status \in {"completed", "blocked", "failed"} :
                SubmitOutcome(k, id, e, w, status, by)
    \/ OtherServices

Spec == Init /\ [][Next]_vars

-------------------------------------------------------------------------------
(* What the record of work guarantees.                                     *)

\* Events that are not appended a second time never leave a status or an owner
\* untold: what an item's row says, some event about the item has said.
RowsWereTold ==
    \A i \in Items : items[i] # None =>
        /\ \E k \in EventKeys :
              Told(k) /\ log[k].of = i /\ log[k].status = items[i].status
        /\ \E k \in EventKeys :
              Told(k) /\ log[k].of = i /\ log[k].owner = items[i].owner

\* What the log calls final is final: an item told done or failed by an operator or a
\* reviewer is, whatever outcomes and assignments come later, and so is a run told completed.
FinalFactsStay ==
    \A k \in EventKeys : Told(k) =>
        /\ (log[k].kind \in {"work.status", "work.reviewed"} /\ log[k].status \in Closed)
              => items[log[k].of].status = log[k].status
        /\ log[k].kind = "run.completed" => runs[log[k].of].status = "completed"

\* A worker is handed one bound: its envelope and the task of its run name the same
\* run, item and capabilities, within what the worker was registered with.
EnvelopesAreBounded ==
    \A e \in Envelopes : envelopes[e] # None =>
        LET row == envelopes[e] IN
        /\ row.worker \in workers /\ row.caps \subseteq GrantsOf[row.worker]
        /\ row.run # None =>
              tasks[row.task] = [item |-> row.item, worker |-> row.worker,
                                 run |-> row.run, caps |-> row.caps]

\* Retries, reused keys and keys that callers took before keep outcomes and log one to one:
\* every outcome has its event, about its own item, and every event of an outcome has that
\* outcome, stored under one key.
OutcomeTold(key) == Told(key) /\ log[key].kind = "work.outcome_submitted"
OutcomesMatchLog ==
    /\ \A k \in OutcomeKeys : outcomes[k] # None =>
          /\ OutcomeTold(<<"outcome", outcomes[k].id>>)
          /\ log[<<"outcome", outcomes[k].id>>].of = envelopes[outcomes[k].envelope].item
    /\ \A key \in EventKeys : OutcomeTold(key) =>
          \E k \in OutcomeKeys :
              /\ outcomes[k] # None /\ key = <<"outcome", outcomes[k].id>>
              /\ \A other \in OutcomeKeys \ {k} :
                    outcomes[other] # None => outcomes[other].id # outcomes[k].id

\* docs/ARCHITECTURE.md:45 says that every state-changing action emits an event: the
\* row of an item does not change without an event being appended.
EveryChangeIsTold == [][items' # items => log' # log]_vars
===============================================================================
