--------------------------- MODULE WorkServiceProofs ---------------------------
(***************************************************************************)
(* What holds of the record of work for every set of items, workers,       *)
(* envelopes, keys and runs.                                               *)
(*                                                                         *)
(* Two facts carry everything: told events and inserted rows stay as they  *)
(* are (Grown), and each transaction tells what it changes under a key     *)
(* that was free or told the same.                                         *)
(***************************************************************************)
EXTENDS WorkService, TLAPS

-------------------------------------------------------------------------------
(* Appending.                                                              *)

\* An appended event is told afterwards, everything told before stays told, and
\* nothing else is (events.ts: append).
LEMMA Appending ==
  ASSUME log \in [EventKeys -> Event \cup {None}], NEW key \in EventKeys,
         NEW event \in Event, Append(key, event)
  PROVE  /\ log' \in [EventKeys -> Event \cup {None}]
         /\ log'[key] = event /\ event # None
         /\ \A k \in EventKeys : log'[k] = log[k] \/ k = key
         /\ \A k \in EventKeys : Told(k) => log'[k] = log[k]
  BY WorkAssumption DEF Append, Fits, Told

\* The keys an event may be appended under are keys of the log.
LEMMA KeysOK ==
  ASSUME NEW derived \in DerivedKeys
  PROVE  KeysFor(derived) \subseteq EventKeys
  BY DEF KeysFor, EventKeys

\* The derived keys of the operations are derived keys (work/service.ts: the default of
\* each idempotency_key).
LEMMA Derived ==
  /\ \A i \in Items : /\ <<"created", i>> \in DerivedKeys
                      /\ \A q \in Principals : <<"assigned", i, q>> \in DerivedKeys
                      /\ \A s \in ItemStatus : <<"status", i, s>> \in DerivedKeys
                      /\ \A d \in Decisions : <<"review", i, d>> \in DerivedKeys
                      /\ \A e \in Envelopes : <<"envelope", i, e>> \in DerivedKeys
  /\ \A w \in Workers : <<"registered", w>> \in DerivedKeys
  /\ \A t \in Tasks : <<"task", t>> \in DerivedKeys
  /\ \A id \in Outcomes : <<"outcome", id>> \in DerivedKeys
  /\ \A r \in Runs : <<"started", r>> \in DerivedKeys /\ <<"completed", r>> \in DerivedKeys
  BY DEF DerivedKeys

\* The events of the operations are events.
LEMMA EventsOK ==
  ASSUME NEW kind \in EventKinds, NEW by \in Authors,
         NEW of \in Items \cup Workers \cup Runs \cup Tasks \cup Envelopes,
         NEW status \in ItemStatus \cup {None}, NEW owner \in Principals \cup {None}
  PROVE  EventOf(kind, by, of, status, owner) \in Event
  BY DEF EventOf, Event

-------------------------------------------------------------------------------
(* Every transaction keeps the types, and what is told or inserted stays.  *)

Grown ==
    /\ \A k \in EventKeys : Told(k) => log'[k] = log[k]
    /\ \A i \in Items : items[i] # None =>
          /\ items'[i] # None
          /\ items[i].status \in Closed => items'[i] = items[i]
    /\ workers \subseteq workers'
    /\ \A e \in Envelopes : envelopes[e] # None => envelopes'[e] = envelopes[e]
    /\ \A t \in Tasks : tasks[t] # None => tasks'[t] = tasks[t]
    /\ \A k \in OutcomeKeys : outcomes[k] # None => outcomes'[k] = outcomes[k]
    /\ \A r \in Runs : runs[r].status = "completed" => runs'[r].status = "completed"

\* setStatus leaves typed rows and locks, and a completed run completed (runs.ts:
\* setStatus).
LEMMA RunMoves ==
  ASSUME StoreTypeOK, NEW r \in Runs, NEW status \in RunStatus, NEW node \in Nodes,
         NEW ptr \in Approvals \cup {None}, NEW table, SetRunStatus(table, r, status, node, ptr)
  PROVE  /\ runs' \in [Runs -> RunRow] /\ locks' \in [Workspaces -> Runs \cup {None}]
         /\ \A q \in Runs : runs[q].status = "completed" => runs'[q] = runs[q]
<1>1. runs' \in [Runs -> RunRow]
  BY DEF StoreTypeOK, SetRunStatus, RunRow
<1>2. locks' \in [Workspaces -> Runs \cup {None}]
  BY RunStoreAssumption DEF StoreTypeOK, SetRunStatus, LockAfter
<1>3. \A q \in Runs : runs[q].status = "completed" => runs'[q] = runs[q]
  BY DEF StoreTypeOK, SetRunStatus, MaySetStatus, Terminal
<1> QED BY <1>1, <1>2, <1>3

\* An item moves to a row of its type, and not once it is closed (persistence/work.ts:
\* update, setStatus).
LEMMA ItemMoves ==
  ASSUME RowsTypeOK, NEW i \in Items, NEW row \in ItemRow, UpdateItem(i, row)
  PROVE  /\ items' \in [Items -> ItemRow \cup {None}]
         /\ items'[i] = row
         /\ \A j \in Items : j # i => items'[j] = items[j]
         /\ \A j \in Items : items[j] # None =>
               /\ items'[j] # None
               /\ items[j].status \in Closed => items'[j] = items[j]
  BY WorkAssumption DEF RowsTypeOK, UpdateItem

\* An item that exists is a row, and so are its successors.
LEMMA ItemRows ==
  ASSUME RowsTypeOK, NEW i \in Items, items[i] # None
  PROVE  /\ items[i].status \in ItemStatus /\ items[i].owner \in Principals
         /\ \A s \in ItemStatus : [items[i] EXCEPT !.status = s] \in ItemRow
         /\ \A s \in ItemStatus, q \in Principals : [status |-> s, owner |-> q] \in ItemRow
  BY DEF RowsTypeOK, ItemRow

\* createWorkItem: a new row, or the same again.
LEMMA CreateSteps ==
  ASSUME WorkTypeOK, NEW i \in Items, NEW owner \in Principals, NEW by \in Authors,
         CreateWork(i, owner, by)
  PROVE  WorkTypeOK' /\ Grown
<1>1. PICK key \in KeysFor(<<"created", i>>) :
         Append(key, EventOf("work.created", by, i, "queued", owner))
  BY DEF CreateWork
<1>2. key \in EventKeys /\ EventOf("work.created", by, i, "queued", owner) \in Event
  BY KeysOK, Derived, EventsOK DEF EventKinds, ItemStatus
<1>3. [status |-> "queued", owner |-> owner] \in ItemRow
  BY DEF ItemRow, ItemStatus
<1>4. /\ items' \in [Items -> ItemRow \cup {None}]
      /\ \A j \in Items : items[j] # None => items'[j] = items[j]
  BY <1>3 DEF CreateWork, Fresh, WorkTypeOK, RowsTypeOK
<1>5. /\ log' \in [EventKeys -> Event \cup {None}]
      /\ \A k \in EventKeys : Told(k) => log'[k] = log[k]
  BY <1>1, <1>2, Appending DEF WorkTypeOK
<1> QED
  BY <1>4, <1>5 DEF CreateWork, WorkTypeOK, RowsTypeOK, StoreTypeOK, Grown, storeVars

\* assignWorkItem: the owner moves, and a queued item is in progress.
LEMMA AssignSteps ==
  ASSUME WorkTypeOK, NEW i \in Items, NEW owner \in Principals, NEW by \in Authors,
         AssignWork(i, owner, by)
  PROVE  WorkTypeOK' /\ Grown
<1> DEFINE status == IF items[i].status = "queued" THEN "in_progress" ELSE items[i].status
           row == [status |-> status, owner |-> owner]
<1>1. PICK key \in KeysFor(<<"assigned", i, owner>>) :
         Append(key, EventOf("work.assigned", by, i, status, owner))
  BY DEF AssignWork
<1>2. status \in ItemStatus /\ row \in ItemRow
  BY DEF AssignWork, WorkTypeOK, RowsTypeOK, ItemRow, ItemStatus
<1>3. key \in EventKeys /\ EventOf("work.assigned", by, i, status, owner) \in Event
  <2> HIDE DEF status
  <2> QED BY <1>2, KeysOK, Derived, EventsOK DEF EventKinds
<1>4. UpdateItem(i, row)
  BY DEF AssignWork
<1> HIDE DEF status, row
<1>5. /\ items' \in [Items -> ItemRow \cup {None}]
      /\ \A j \in Items : items[j] # None =>
            /\ items'[j] # None
            /\ items[j].status \in Closed => items'[j] = items[j]
  BY <1>2, <1>4, ItemMoves DEF WorkTypeOK
<1>6. /\ log' \in [EventKeys -> Event \cup {None}]
      /\ \A k \in EventKeys : Told(k) => log'[k] = log[k]
  BY <1>1, <1>3, Appending DEF WorkTypeOK
<1> QED
  BY <1>5, <1>6 DEF AssignWork, WorkTypeOK, RowsTypeOK, StoreTypeOK, Grown, storeVars

\* setWorkItemStatus: the status moves to any other, unless the item is closed.
LEMMA StatusSteps ==
  ASSUME WorkTypeOK, NEW i \in Items, NEW status \in ItemStatus, NEW by \in Authors,
         SetStatus(i, status, by)
  PROVE  WorkTypeOK' /\ Grown
<1>1. PICK key \in KeysFor(<<"status", i, status>>) :
         Append(key, EventOf("work.status", by, i, status, None))
  BY DEF SetStatus
<1>2. key \in EventKeys /\ EventOf("work.status", by, i, status, None) \in Event
  BY KeysOK, Derived, EventsOK DEF EventKinds
<1>3. UpdateItem(i, [items[i] EXCEPT !.status = status])
      /\ [items[i] EXCEPT !.status = status] \in ItemRow
  BY ItemRows DEF SetStatus, WorkTypeOK
<1>4. /\ items' \in [Items -> ItemRow \cup {None}]
      /\ \A j \in Items : items[j] # None =>
            /\ items'[j] # None
            /\ items[j].status \in Closed => items'[j] = items[j]
  BY <1>3, ItemMoves DEF WorkTypeOK
<1>5. /\ log' \in [EventKeys -> Event \cup {None}]
      /\ \A k \in EventKeys : Told(k) => log'[k] = log[k]
  BY <1>1, <1>2, Appending DEF WorkTypeOK
<1> QED
  BY <1>4, <1>5 DEF SetStatus, WorkTypeOK, RowsTypeOK, StoreTypeOK, Grown, storeVars

\* reviewWork: the decision's status is one of the schema's.
LEMMA ReviewSteps ==
  ASSUME WorkTypeOK, NEW i \in Items, NEW decision \in Decisions, NEW by \in Authors,
         ReviewWork(i, decision, by)
  PROVE  WorkTypeOK' /\ Grown
<1> DEFINE status == StatusAfter(decision)
<1>1. PICK key \in KeysFor(<<"review", i, decision>>) :
         Append(key, EventOf("work.reviewed", by, i, status, None))
  BY DEF ReviewWork
<1>2. status \in ItemStatus
  BY DEF StatusAfter, ItemStatus, Closed, Decisions
<1>3. UpdateItem(i, [items[i] EXCEPT !.status = status]) /\ items[i] # None
  BY DEF ReviewWork
<1> HIDE DEF status
<1>4. key \in EventKeys /\ EventOf("work.reviewed", by, i, status, None) \in Event
  BY <1>2, KeysOK, Derived, EventsOK DEF EventKinds
<1>5. [items[i] EXCEPT !.status = status] \in ItemRow
  BY <1>2, <1>3, ItemRows DEF WorkTypeOK
<1>6. /\ items' \in [Items -> ItemRow \cup {None}]
      /\ \A j \in Items : items[j] # None =>
            /\ items'[j] # None
            /\ items[j].status \in Closed => items'[j] = items[j]
  BY <1>3, <1>5, ItemMoves DEF WorkTypeOK
<1>7. /\ log' \in [EventKeys -> Event \cup {None}]
      /\ \A k \in EventKeys : Told(k) => log'[k] = log[k]
  BY <1>1, <1>4, Appending DEF WorkTypeOK
<1> QED
  BY <1>6, <1>7 DEF ReviewWork, WorkTypeOK, RowsTypeOK, StoreTypeOK, Grown, storeVars

\* registerExternalWorker: the registry only grows.
LEMMA RegisterSteps ==
  ASSUME WorkTypeOK, NEW w \in Workers, NEW by \in Authors, RegisterWorker(w, by)
  PROVE  WorkTypeOK' /\ Grown
<1>1. PICK key \in KeysFor(<<"registered", w>>) :
         Append(key, EventOf("worker.registered", by, w, None, None))
  BY DEF RegisterWorker
<1>2. key \in EventKeys /\ EventOf("worker.registered", by, w, None, None) \in Event
  BY KeysOK, Derived, EventsOK DEF EventKinds
<1>3. /\ log' \in [EventKeys -> Event \cup {None}]
      /\ \A k \in EventKeys : Told(k) => log'[k] = log[k]
  BY <1>1, <1>2, Appending DEF WorkTypeOK
<1> QED
  BY <1>3 DEF RegisterWorker, WorkTypeOK, RowsTypeOK, StoreTypeOK, Grown, storeVars

\* createBoundedEnvelope: the events, the row and the task are new or as they were.
LEMMA EnvelopeSteps ==
  ASSUME WorkTypeOK, NEW e \in Envelopes, NEW i \in Items, NEW w \in Workers,
         NEW r \in Runs \cup {None}, NEW t \in Tasks \cup {None},
         NEW caps \in SUBSET Capabilities, NEW by \in Authors,
         CreateEnvelope(e, i, w, r, t, caps, by)
  PROVE  WorkTypeOK' /\ Grown
<1> DEFINE row == [item |-> i, worker |-> w, run |-> r, task |-> t, caps |-> caps]
           taskRow == [item |-> i, worker |-> w, run |-> r, caps |-> caps]
           told == EventOf("work.envelope.created", by, e, None, None)
           taskTold == EventOf("task.envelope.created", by, t, None, None)
<1>1. row \in EnvelopeRow /\ told \in Event
  BY EventsOK DEF EnvelopeRow, EventKinds
<1>2. PICK key \in KeysFor(<<"envelope", i, e>>) :
         /\ Fits(key, told)
         /\ \/ /\ r = None /\ t = None
               /\ log' = [log EXCEPT ![key] = told]
               /\ UNCHANGED tasks
            \/ /\ r \in Runs /\ t \in Tasks
               /\ EnsureTask(t, taskRow)
               /\ Fits(<<"task", t>>, taskTold) /\ key # <<"task", t>>
               /\ log' = [log EXCEPT ![<<"task", t>>] = taskTold, ![key] = told]
  BY DEF CreateEnvelope
<1>3. key \in EventKeys
  BY KeysOK, Derived
<1>4. /\ envelopes' \in [Envelopes -> EnvelopeRow \cup {None}]
      /\ \A d \in Envelopes : envelopes[d] # None => envelopes'[d] = envelopes[d]
  BY <1>1 DEF CreateEnvelope, Fresh, WorkTypeOK, RowsTypeOK
<1>5. /\ tasks' \in [Tasks -> TaskRow \cup {None}]
      /\ \A u \in Tasks : tasks[u] # None => tasks'[u] = tasks[u]
  <2>1. CASE t = None /\ UNCHANGED tasks
    BY <2>1 DEF WorkTypeOK, RowsTypeOK
  <2>2. CASE r \in Runs /\ t \in Tasks /\ EnsureTask(t, taskRow)
    <3>1. taskRow \in TaskRow
      BY <2>2 DEF TaskRow
    <3> QED BY <2>2, <3>1 DEF EnsureTask, Fresh, WorkTypeOK, RowsTypeOK
  <2> QED BY <1>2, <2>1, <2>2
<1>6. /\ log' \in [EventKeys -> Event \cup {None}]
      /\ \A k \in EventKeys : Told(k) => log'[k] = log[k]
  <2> HIDE DEF told, taskTold
  <2>1. CASE log' = [log EXCEPT ![key] = told]
    BY <1>1, <1>2, <1>3, <2>1 DEF Fits, Told, WorkTypeOK
  <2>2. CASE /\ t \in Tasks /\ Fits(<<"task", t>>, taskTold) /\ key # <<"task", t>>
             /\ log' = [log EXCEPT ![<<"task", t>>] = taskTold, ![key] = told]
    <3>1. <<"task", t>> \in EventKeys
      BY <2>2, Derived DEF EventKeys
    <3>2. taskTold \in Event
      BY <2>2, EventsOK DEF EventKinds, taskTold
    <3> QED
      BY <1>1, <1>2, <1>3, <2>2, <3>1, <3>2 DEF Fits, Told, WorkTypeOK
  <2> QED BY <1>2, <2>1, <2>2
<1> QED
  BY <1>4, <1>5, <1>6 DEF CreateEnvelope, WorkTypeOK, RowsTypeOK, StoreTypeOK, Grown, storeVars

\* submitWorkerOutcome: the outcome is new or as it was, and a closed item is left alone.
LEMMA OutcomeSteps ==
  ASSUME WorkTypeOK, NEW k \in OutcomeKeys, NEW id \in Outcomes, NEW e \in Envelopes,
         NEW w \in Workers, NEW status \in {"completed", "blocked", "failed"}, NEW by \in Authors,
         SubmitOutcome(k, id, e, w, status, by),
         items[envelopes[e].item] # None
  PROVE  WorkTypeOK' /\ Grown
<1> DEFINE i == envelopes[e].item
           next == IF status = "completed" THEN "review" ELSE status
           row == [id |-> id, envelope |-> e, status |-> status]
<1>1. i \in Items /\ next \in ItemStatus /\ row \in OutcomeRow
  BY DEF SubmitOutcome, WorkTypeOK, RowsTypeOK, EnvelopeRow, OutcomeRow, ItemStatus, Closed
<1>2. <<"outcome", id>> \in EventKeys
      /\ EventOf("work.outcome_submitted", by, i, next, None) \in Event
  <2>1. <<"outcome", id>> \in EventKeys
    BY Derived DEF EventKeys
  <2> HIDE DEF i, next
  <2>2. EventOf("work.outcome_submitted", by, i, next, None) \in Event
    BY <1>1, EventsOK DEF EventKinds
  <2> QED BY <2>1, <2>2
<1>3. Append(<<"outcome", id>>, EventOf("work.outcome_submitted", by, i, next, None))
  BY DEF SubmitOutcome
<1>4. /\ outcomes' \in [OutcomeKeys -> OutcomeRow \cup {None}]
      /\ \A l \in OutcomeKeys : outcomes[l] # None => outcomes'[l] = outcomes[l]
  BY <1>1 DEF SubmitOutcome, RecordOutcome, Fresh, WorkTypeOK, RowsTypeOK
<1>5. items' = IF items[i].status \in Closed THEN items ELSE [items EXCEPT ![i].status = next]
  BY DEF SubmitOutcome
<1> HIDE DEF i, next
<1>6. [items[i] EXCEPT !.status = next] \in ItemRow
  BY <1>1, ItemRows DEF WorkTypeOK, i
<1>7. /\ items' \in [Items -> ItemRow \cup {None}]
      /\ \A j \in Items : items[j] # None =>
            /\ items'[j] # None
            /\ items[j].status \in Closed => items'[j] = items[j]
  BY <1>1, <1>5, <1>6, WorkAssumption DEF WorkTypeOK, RowsTypeOK
<1>8. /\ log' \in [EventKeys -> Event \cup {None}]
      /\ \A l \in EventKeys : Told(l) => log'[l] = log[l]
  BY <1>2, <1>3, Appending DEF WorkTypeOK
<1> QED
  BY <1>4, <1>7, <1>8 DEF SubmitOutcome, WorkTypeOK, RowsTypeOK, StoreTypeOK, Grown, storeVars

\* ensureExternalRun and completeExternalRun move a run and tell of it.
LEMMA RunSteps ==
  ASSUME WorkTypeOK, NEW r \in Runs, NEW by \in Authors,
         EnsureExternalRun(r, by) \/ CompleteExternalRun(r, by)
  PROVE  WorkTypeOK' /\ Grown
<1>nodes. {"run_started", "run_completed"} \subseteq Nodes
          /\ {"running", "completed"} \subseteq RunStatus
  BY DEF Nodes, RunStatus, Terminal
<1>1. /\ runs' \in [Runs -> RunRow] /\ locks' \in [Workspaces -> Runs \cup {None}]
      /\ \A q \in Runs : runs[q].status = "completed" => runs'[q] = runs[q]
  <2>1. CASE SetRunStatus(approvals, r, "running", "run_started", None)
             \/ SetRunStatus(approvals, r, "completed", "run_completed", None)
    BY <2>1, <1>nodes, RunMoves DEF WorkTypeOK
  <2>2. CASE /\ runs[r].status = "absent"
             /\ runs' = [runs EXCEPT ![r] = Running(r)]
             /\ locks' = [locks EXCEPT ![WorkspaceOf[r]] = r]
    <3>1. Running(r) \in RunRow
      BY <1>nodes DEF Running, RunRow
    <3> QED BY <2>2, <3>1, RunStoreAssumption DEF WorkTypeOK, StoreTypeOK
  <2> QED BY <2>1, <2>2 DEF EnsureExternalRun, CompleteExternalRun
<1>2. /\ log' \in [EventKeys -> Event \cup {None}]
      /\ \A k \in EventKeys : Told(k) => log'[k] = log[k]
  <2>1. CASE UNCHANGED log
    BY <2>1 DEF WorkTypeOK
  <2>2. ASSUME NEW key \in KeysFor(<<"started", r>>),
               Append(key, EventOf("run.started", by, r, None, None))
        PROVE  <1>2!1 /\ <1>2!2
    <3>1. key \in EventKeys /\ EventOf("run.started", by, r, None, None) \in Event
      BY KeysOK, Derived, EventsOK DEF EventKinds
    <3> QED BY <2>2, <3>1, Appending DEF WorkTypeOK
  <2>3. ASSUME NEW key \in KeysFor(<<"completed", r>>),
               Append(key, EventOf("run.completed", by, r, None, None))
        PROVE  <1>2!1 /\ <1>2!2
    <3>1. key \in EventKeys /\ EventOf("run.completed", by, r, None, None) \in Event
      BY KeysOK, Derived, EventsOK DEF EventKinds
    <3> QED BY <2>3, <3>1, Appending DEF WorkTypeOK
  <2> QED BY <2>1, <2>2, <2>3 DEF EnsureExternalRun, CompleteExternalRun
<1> QED
  BY <1>1, <1>2 DEF EnsureExternalRun, CompleteExternalRun, WorkTypeOK, RowsTypeOK,
                    StoreTypeOK, Grown, rowVars

\* What other services do to runs leaves rows, log and completed runs alone.
LEMMA OtherSteps ==
  ASSUME WorkTypeOK, OtherServices
  PROVE  WorkTypeOK' /\ Grown
<1>nodes. /\ {"approval_requested", "approval_resolved", "approval_rejected", None} \subseteq Nodes
          /\ {"queued", "running", "suspended_approval", "failed"} \subseteq RunStatus
  BY DEF Nodes, RunStatus, Terminal
<1>1. StoreTypeOK' /\ \A q \in Runs : runs[q].status = "completed" => runs'[q] = runs[q]
  <2>1. ASSUME NEW r \in Runs, QueueRun(r) PROVE <1>1!1 /\ <1>1!2
    BY <2>1, <1>nodes, RunStoreAssumption
       DEF QueueRun, CreateRun, WorkTypeOK, StoreTypeOK, RunRow, Terminal
  <2>2. ASSUME NEW r \in Runs, NEW a \in Approvals, NEW t \in Targets, NEW q \in Principals,
               SuspendRun(r, a, t, q)
        PROVE  <1>1!1 /\ <1>1!2
    <3>1. approvals' \in [Approvals -> ApprovalRow]
      BY <2>2 DEF SuspendRun, WorkTypeOK, StoreTypeOK, ApprovalRow
    <3>2. SetRunStatus(approvals', r, "suspended_approval", "approval_requested", a)
      BY <2>2 DEF SuspendRun
    <3>3. StoreTypeOK
      BY DEF WorkTypeOK
    <3>4. /\ runs' \in [Runs -> RunRow] /\ locks' \in [Workspaces -> Runs \cup {None}]
          /\ \A p \in Runs : runs[p].status = "completed" => runs'[p] = runs[p]
      BY <3>2, <3>3, <1>nodes, RunMoves
    <3> QED BY <3>1, <3>4 DEF StoreTypeOK
  <2>3. ASSUME NEW r \in Runs, NEW a \in Approvals, ResolveRun(r, a) PROVE <1>1!1 /\ <1>1!2
    <3>1. approvals' \in [Approvals -> ApprovalRow]
      BY <2>3 DEF ResolveRun, ResolveApproval, WorkTypeOK, StoreTypeOK, ApprovalRow
    <3>2. \/ SetRunStatus(approvals', r, "running", "approval_resolved", None)
          \/ SetRunStatus(approvals', r, "failed", "approval_rejected", None)
      BY <2>3 DEF ResolveRun
    <3>3. StoreTypeOK
      BY DEF WorkTypeOK
    <3>4. /\ runs' \in [Runs -> RunRow] /\ locks' \in [Workspaces -> Runs \cup {None}]
          /\ \A p \in Runs : runs[p].status = "completed" => runs'[p] = runs[p]
      BY <3>2, <3>3, <1>nodes, RunMoves
    <3> QED BY <3>1, <3>4 DEF StoreTypeOK
  <2> QED BY <2>1, <2>2, <2>3 DEF OtherServices
<1> QED
  BY <1>1 DEF OtherServices, WorkTypeOK, RowsTypeOK, Grown, rowVars

-------------------------------------------------------------------------------
(* The inductive invariant: the properties, with what they need to know of *)
(* the rows an event, an envelope or an outcome names.                     *)

KnownEvent(k) ==
    /\ log[k].kind \in {"work.status", "work.reviewed"} =>
          /\ log[k].of \in Items /\ items[log[k].of] # None
          /\ log[k].status \in Closed => items[log[k].of].status = log[k].status
    /\ log[k].kind = "run.completed" =>
          log[k].of \in Runs /\ runs[log[k].of].status = "completed"

KnownEnvelope(e) ==
    LET row == envelopes[e] IN
    /\ items[row.item] # None
    /\ row.worker \in workers /\ row.caps \subseteq GrantsOf[row.worker]
    /\ row.run # None =>
          /\ row.task \in Tasks
          /\ tasks[row.task] = [item |-> row.item, worker |-> row.worker,
                                run |-> row.run, caps |-> row.caps]

KnownOutcome(k) ==
    LET row == outcomes[k] IN
    /\ envelopes[row.envelope] # None
    /\ OutcomeTold(<<"outcome", row.id>>)
    /\ log[<<"outcome", row.id>>].of = envelopes[row.envelope].item

StoredOnce(key) ==
    \E k \in OutcomeKeys :
        /\ outcomes[k] # None /\ key = <<"outcome", outcomes[k].id>>
        /\ \A other \in OutcomeKeys \ {k} :
              outcomes[other] # None => outcomes[other].id # outcomes[k].id

Inv ==
    /\ WorkTypeOK
    /\ RowsWereTold
    /\ \A k \in EventKeys : Told(k) => KnownEvent(k)
    /\ \A e \in Envelopes : envelopes[e] # None => KnownEnvelope(e)
    /\ \A k \in OutcomeKeys : outcomes[k] # None => KnownOutcome(k)
    /\ \A key \in EventKeys : OutcomeTold(key) => StoredOnce(key)

\* What is known of an event stays: its item is not removed and closed for good, and a
\* completed run stays completed.
LEMMA EventStays ==
  ASSUME WorkTypeOK, Grown, NEW k \in EventKeys, Told(k), KnownEvent(k)
  PROVE  KnownEvent(k)'
<1>1. log'[k] = log[k]
  BY DEF Grown
<1>2. ASSUME log[k].of \in Items, items[log[k].of] # None
      PROVE  /\ items'[log[k].of] # None
             /\ items[log[k].of].status \in Closed => items'[log[k].of] = items[log[k].of]
  BY <1>2 DEF Grown
<1>3. ASSUME log[k].of \in Runs, runs[log[k].of].status = "completed"
      PROVE  runs'[log[k].of].status = "completed"
  BY <1>3 DEF Grown
<1> QED
  BY <1>1, <1>2, <1>3 DEF KnownEvent

\* What is known of an envelope stays, as its row and its task do.
LEMMA EnvelopeStays ==
  ASSUME WorkTypeOK, Grown, NEW e \in Envelopes, envelopes[e] # None, KnownEnvelope(e)
  PROVE  KnownEnvelope(e)'
<1>1. envelopes'[e] = envelopes[e] /\ envelopes[e].item \in Items
  BY DEF Grown, WorkTypeOK, RowsTypeOK, EnvelopeRow
<1>2. envelopes[e].run # None => tasks'[envelopes[e].task] = tasks[envelopes[e].task]
  <2>1. envelopes[e] \in EnvelopeRow
    BY DEF WorkTypeOK, RowsTypeOK
  <2>2. ASSUME envelopes[e].run # None
        PROVE  envelopes[e].task \in Tasks /\ tasks[envelopes[e].task] \in TaskRow
    BY <2>1, <2>2 DEF KnownEnvelope, EnvelopeRow, TaskRow
  <2> QED
    BY <2>2, WorkAssumption DEF Grown
<1>3. items'[envelopes[e].item] # None /\ envelopes[e].worker \in workers'
  BY <1>1 DEF Grown, KnownEnvelope
<1> QED
  BY <1>1, <1>2, <1>3 DEF KnownEnvelope

\* What is known of an outcome stays, as its row, its envelope and its event do.
LEMMA OutcomeStays ==
  ASSUME WorkTypeOK, Grown, NEW k \in OutcomeKeys, outcomes[k] # None, KnownOutcome(k)
  PROVE  KnownOutcome(k)'
<1>1. /\ outcomes'[k] = outcomes[k]
      /\ outcomes[k].envelope \in Envelopes /\ outcomes[k].id \in Outcomes
  BY DEF Grown, WorkTypeOK, RowsTypeOK, OutcomeRow
<1>2. <<"outcome", outcomes[k].id>> \in EventKeys
  BY <1>1, Derived DEF EventKeys
<1>3. /\ envelopes'[outcomes[k].envelope] = envelopes[outcomes[k].envelope]
      /\ log'[<<"outcome", outcomes[k].id>>] = log[<<"outcome", outcomes[k].id>>]
  BY <1>1, <1>2 DEF Grown, KnownOutcome, OutcomeTold
<1> QED
  BY <1>1, <1>3 DEF KnownOutcome, OutcomeTold, Told

\* A step that changes no outcome and tells none keeps the outcomes of the log stored once.
LEMMA StoredStays ==
  ASSUME \A key \in EventKeys : OutcomeTold(key) => StoredOnce(key), outcomes' = outcomes,
         \A key \in EventKeys : OutcomeTold(key)' => OutcomeTold(key)
  PROVE  \A key \in EventKeys : OutcomeTold(key)' => StoredOnce(key)'
  BY DEF StoredOnce

\* What an item's new row says and its old row did not.
ToldAfter(i) ==
    /\ \/ items[i] # None /\ items'[i].status = items[i].status
       \/ \E k \in EventKeys : log'[k] # None /\ log'[k].of = i /\ log'[k].status = items'[i].status
    /\ \/ items[i] # None /\ items'[i].owner = items[i].owner
       \/ \E k \in EventKeys : log'[k] # None /\ log'[k].of = i /\ log'[k].owner = items'[i].owner

\* A step that tells what it changes in an item keeps the items told.
LEMMA ToldStays ==
  ASSUME RowsWereTold, Grown, \A i \in Items : items'[i] # None => ToldAfter(i)
  PROVE  RowsWereTold'
<1> SUFFICES ASSUME NEW i \in Items, items'[i] # None
             PROVE  /\ \E k \in EventKeys :
                          log'[k] # None /\ log'[k].of = i /\ log'[k].status = items'[i].status
                    /\ \E k \in EventKeys :
                          log'[k] # None /\ log'[k].of = i /\ log'[k].owner = items'[i].owner
  BY DEF RowsWereTold, Told
<1>1. ASSUME items[i] # None
      PROVE  /\ \E k \in EventKeys :
                   log'[k] # None /\ log'[k].of = i /\ log'[k].status = items[i].status
             /\ \E k \in EventKeys :
                   log'[k] # None /\ log'[k].of = i /\ log'[k].owner = items[i].owner
  BY <1>1 DEF RowsWereTold, Grown, Told
<1> QED
  BY <1>1 DEF ToldAfter

\* A step preserves the invariant if what it adds is told, bounded and known.
LEMMA Preserving ==
  ASSUME Inv, WorkTypeOK', Grown,
         \A i \in Items : items'[i] # None => ToldAfter(i),
         \A k \in EventKeys : Told(k)' => Told(k) \/ KnownEvent(k)',
         \A e \in Envelopes : envelopes'[e] # None => envelopes[e] # None \/ KnownEnvelope(e)',
         \A k \in OutcomeKeys : outcomes'[k] # None => outcomes[k] # None \/ KnownOutcome(k)',
         \A key \in EventKeys : OutcomeTold(key)' => StoredOnce(key)'
  PROVE  Inv'
<1>1. RowsWereTold'
  BY ToldStays DEF Inv
<1>2. \A k \in EventKeys : Told(k)' => KnownEvent(k)'
  BY EventStays DEF Inv
<1>3. \A e \in Envelopes : envelopes'[e] # None => KnownEnvelope(e)'
  BY EnvelopeStays DEF Inv
<1>4. \A k \in OutcomeKeys : outcomes'[k] # None => KnownOutcome(k)'
  BY OutcomeStays DEF Inv
<1> QED
  BY <1>1, <1>2, <1>3, <1>4 DEF Inv

-------------------------------------------------------------------------------
(* Each action preserves the invariant.                                    *)

\* A step that adds no row but those of items, and appends one event that is no outcome's
\* and is known, preserves the invariant if it tells what it changes.
LEMMA Telling ==
  ASSUME Inv, WorkTypeOK', Grown, UNCHANGED <<envelopes, outcomes>>,
         NEW key \in EventKeys, NEW event \in Event, Append(key, event),
         event.kind # "work.outcome_submitted",
         KnownEvent(key)',
         \A i \in Items : items'[i] # None => ToldAfter(i)
  PROVE  Inv'
<1>1. log'[key] = event /\ \A k \in EventKeys : log'[k] = log[k] \/ k = key
  BY Appending DEF Inv, WorkTypeOK
<1>2. \A k \in EventKeys : OutcomeTold(k)' => OutcomeTold(k)
  BY <1>1 DEF OutcomeTold, Told
<1>3. \A k \in EventKeys : OutcomeTold(k)' => StoredOnce(k)'
  BY <1>2, StoredStays DEF Inv
<1>4. \A k \in EventKeys : Told(k)' => Told(k) \/ KnownEvent(k)'
  BY <1>1 DEF Told
<1> QED
  BY <1>3, <1>4, Preserving

\* createWorkItem: the new item's status and owner are told.
LEMMA CreateKeeps ==
  ASSUME Inv, NEW i \in Items, NEW owner \in Principals, NEW by \in Authors,
         CreateWork(i, owner, by)
  PROVE  Inv'
<1> DEFINE event == EventOf("work.created", by, i, "queued", owner)
<1>1. WorkTypeOK' /\ Grown
  BY CreateSteps DEF Inv
<1>2. PICK key \in KeysFor(<<"created", i>>) : Append(key, event)
  BY DEF CreateWork
<1>3. key \in EventKeys /\ event \in Event
  BY KeysOK, Derived, EventsOK DEF EventKinds, ItemStatus
<1>4. log'[key] = event /\ event # None
  BY <1>2, <1>3, Appending DEF Inv, WorkTypeOK
<1>5. /\ event.kind = "work.created" /\ event.of = i
      /\ event.status = "queued" /\ event.owner = owner
  BY DEF EventOf
<1>6. KnownEvent(key)'
  BY <1>4, <1>5 DEF KnownEvent
<1>7. /\ items'[i] = [status |-> "queued", owner |-> owner]
      /\ \A j \in Items : j # i => items'[j] = items[j]
  BY DEF CreateWork, Inv, WorkTypeOK, RowsTypeOK
<1>8. \A j \in Items : items'[j] # None => ToldAfter(j)
  BY <1>3, <1>4, <1>5, <1>7 DEF ToldAfter
<1> HIDE DEF event
<1> QED
  BY <1>1, <1>2, <1>3, <1>5, <1>6, <1>8, Telling DEF CreateWork

\* assignWorkItem: the status the item is left in and its new owner are told.
LEMMA AssignKeeps ==
  ASSUME Inv, NEW i \in Items, NEW owner \in Principals, NEW by \in Authors,
         AssignWork(i, owner, by)
  PROVE  Inv'
<1> DEFINE status == IF items[i].status = "queued" THEN "in_progress" ELSE items[i].status
           event == EventOf("work.assigned", by, i, status, owner)
<1>1. WorkTypeOK' /\ Grown
  BY AssignSteps DEF Inv
<1>2. PICK key \in KeysFor(<<"assigned", i, owner>>) : Append(key, event)
  BY DEF AssignWork
<1>3. items[i] # None /\ UpdateItem(i, [status |-> status, owner |-> owner])
  BY DEF AssignWork
<1>4. status \in ItemStatus
  BY <1>3, ItemRows DEF Inv, WorkTypeOK, ItemStatus
<1> HIDE DEF status
<1>5. key \in EventKeys /\ event \in Event
  BY <1>4, KeysOK, Derived, EventsOK DEF EventKinds
<1>6. log'[key] = event /\ event # None
  BY <1>2, <1>5, Appending DEF Inv, WorkTypeOK
<1>7. event.kind = "work.assigned" /\ event.of = i /\ event.status = status /\ event.owner = owner
  BY DEF EventOf
<1>8. KnownEvent(key)'
  BY <1>6, <1>7 DEF KnownEvent
<1>9. /\ items'[i] = [status |-> status, owner |-> owner]
      /\ \A j \in Items : j # i => items'[j] = items[j]
  BY <1>3, <1>4, ItemRows, ItemMoves DEF Inv, WorkTypeOK
<1>10. \A j \in Items : items'[j] # None => ToldAfter(j)
  BY <1>5, <1>6, <1>7, <1>9 DEF ToldAfter
<1> HIDE DEF event
<1> QED
  BY <1>1, <1>2, <1>5, <1>7, <1>8, <1>10, Telling DEF AssignWork

\* A told status, of an operator or a reviewer, is the status the item is left in: the
\* event is known, and the item is told.
LEMMA StatusTold ==
  ASSUME Inv, WorkTypeOK', Grown, NEW i \in Items, items[i] # None, NEW status \in ItemStatus,
         NEW kind \in {"work.status", "work.reviewed"}, NEW by \in Authors,
         UpdateItem(i, [items[i] EXCEPT !.status = status]),
         UNCHANGED <<envelopes, outcomes>>,
         NEW key \in EventKeys, Append(key, EventOf(kind, by, i, status, None))
  PROVE  Inv'
<1> DEFINE event == EventOf(kind, by, i, status, None)
<1>1. event \in Event
  BY EventsOK DEF EventKinds
<1>2. log'[key] = event /\ event # None
  BY <1>1, Appending DEF Inv, WorkTypeOK
<1>3. event.kind = kind /\ event.of = i /\ event.status = status
  BY DEF EventOf
<1>4. /\ items'[i] = [items[i] EXCEPT !.status = status]
      /\ \A j \in Items : j # i => items'[j] = items[j]
  BY ItemRows, ItemMoves DEF Inv, WorkTypeOK
<1>5. items'[i] # None /\ items'[i].status = status /\ items'[i].owner = items[i].owner
  BY <1>4 DEF Grown, Inv, WorkTypeOK, RowsTypeOK, ItemRow
<1>6. KnownEvent(key)'
  BY <1>2, <1>3, <1>5 DEF KnownEvent
<1>7. \A j \in Items : items'[j] # None => ToldAfter(j)
  BY <1>2, <1>3, <1>4, <1>5 DEF ToldAfter
<1> HIDE DEF event
<1> QED
  BY <1>1, <1>3, <1>6, <1>7, Telling DEF event

\* setWorkItemStatus: an event that says the item is closed is true, and stays so.
LEMMA StatusKeeps ==
  ASSUME Inv, NEW i \in Items, NEW status \in ItemStatus, NEW by \in Authors,
         SetStatus(i, status, by)
  PROVE  Inv'
<1>1. WorkTypeOK' /\ Grown
  BY StatusSteps DEF Inv
<1>2. PICK key \in KeysFor(<<"status", i, status>>) :
         Append(key, EventOf("work.status", by, i, status, None))
  BY DEF SetStatus
<1>3. key \in EventKeys
  BY KeysOK, Derived
<1> QED
  BY <1>1, <1>2, <1>3, StatusTold DEF SetStatus

\* reviewWork: an event that says the item is closed is true, and stays so.
LEMMA ReviewKeeps ==
  ASSUME Inv, NEW i \in Items, NEW decision \in Decisions, NEW by \in Authors,
         ReviewWork(i, decision, by)
  PROVE  Inv'
<1> DEFINE status == StatusAfter(decision)
<1>1. WorkTypeOK' /\ Grown
  BY ReviewSteps DEF Inv
<1>2. PICK key \in KeysFor(<<"review", i, decision>>) :
         Append(key, EventOf("work.reviewed", by, i, status, None))
  BY DEF ReviewWork
<1>3. key \in EventKeys
  BY KeysOK, Derived
<1>4. status \in ItemStatus
  BY DEF StatusAfter, ItemStatus, Closed, Decisions
<1>5. /\ items[i] # None
      /\ UpdateItem(i, [items[i] EXCEPT !.status = status])
      /\ UNCHANGED <<envelopes, outcomes>>
  BY DEF ReviewWork
<1> HIDE DEF status
<1> QED
  BY <1>1, <1>2, <1>3, <1>4, <1>5, StatusTold

\* registerExternalWorker leaves everything but the registry and the log alone.
LEMMA RegisterKeeps ==
  ASSUME Inv, NEW w \in Workers, NEW by \in Authors, RegisterWorker(w, by)
  PROVE  Inv'
<1> DEFINE event == EventOf("worker.registered", by, w, None, None)
<1>1. WorkTypeOK' /\ Grown
  BY RegisterSteps DEF Inv
<1>2. PICK key \in KeysFor(<<"registered", w>>) : Append(key, event)
  BY DEF RegisterWorker
<1>3. key \in EventKeys /\ event \in Event
  BY KeysOK, Derived, EventsOK DEF EventKinds
<1>4. log'[key] = event /\ event.kind = "worker.registered"
  BY <1>2, <1>3, Appending DEF Inv, WorkTypeOK, EventOf
<1>5. KnownEvent(key)'
  BY <1>4 DEF KnownEvent
<1>6. \A j \in Items : items'[j] # None => ToldAfter(j)
  BY DEF RegisterWorker, ToldAfter
<1> HIDE DEF event
<1> QED
  BY <1>1, <1>2, <1>3, <1>4, <1>5, <1>6, Telling DEF RegisterWorker

\* createBoundedEnvelope: the envelope is bounded when it is inserted, and when it was there.
LEMMA EnvelopeKeeps ==
  ASSUME Inv, NEW e \in Envelopes, NEW i \in Items, NEW w \in Workers,
         NEW r \in Runs \cup {None}, NEW t \in Tasks \cup {None},
         NEW caps \in SUBSET Capabilities, NEW by \in Authors,
         CreateEnvelope(e, i, w, r, t, caps, by)
  PROVE  Inv'
<1> DEFINE row == [item |-> i, worker |-> w, run |-> r, task |-> t, caps |-> caps]
           taskRow == [item |-> i, worker |-> w, run |-> r, caps |-> caps]
           told == EventOf("work.envelope.created", by, e, None, None)
           taskTold == EventOf("task.envelope.created", by, t, None, None)
<1>1. WorkTypeOK' /\ Grown
  BY EnvelopeSteps DEF Inv
<1>2. PICK key \in KeysFor(<<"envelope", i, e>>) :
         \/ /\ r = None /\ t = None
            /\ log' = [log EXCEPT ![key] = told]
         \/ /\ r \in Runs /\ t \in Tasks
            /\ EnsureTask(t, taskRow)
            /\ log' = [log EXCEPT ![<<"task", t>>] = taskTold, ![key] = told]
  BY DEF CreateEnvelope
<1>3. key \in EventKeys
  BY KeysOK, Derived
<1>4. \A k \in EventKeys :
         \/ log'[k] = log[k]
         \/ k = key /\ log'[k] = told
         \/ t \in Tasks /\ k = <<"task", t>> /\ log'[k] = taskTold
  <2> HIDE DEF told, taskTold, taskRow
  <2>1. log \in [EventKeys -> Event \cup {None}]
    BY DEF Inv, WorkTypeOK
  <2>2. <<"task", t>> \in EventKeys \/ t \notin Tasks
    BY Derived DEF EventKeys
  <2> QED
    BY <1>2, <1>3, <2>1, <2>2
<1>5. /\ \A k \in EventKeys : Told(k)' => Told(k) \/ KnownEvent(k)'
      /\ \A k \in EventKeys : OutcomeTold(k)' => OutcomeTold(k)
  <2>1. told.kind = "work.envelope.created" /\ taskTold.kind = "task.envelope.created"
    BY DEF EventOf
  <2> HIDE DEF told, taskTold
  <2> QED
    BY <1>4, <2>1 DEF Told, KnownEvent, OutcomeTold
<1>6. \A k \in EventKeys : OutcomeTold(k)' => StoredOnce(k)'
  BY <1>5, StoredStays DEF Inv, CreateEnvelope
<1>7. \A d \in Envelopes : envelopes'[d] # None => envelopes[d] # None \/ KnownEnvelope(d)'
  <2>1. /\ envelopes' = [envelopes EXCEPT ![e] = row]
        /\ items' = items /\ workers' = workers
        /\ items[i] # None /\ w \in workers /\ caps \subseteq GrantsOf[w]
    BY DEF CreateEnvelope, WithinGrants
  <2>2. r # None => t \in Tasks /\ tasks'[t] = taskRow
    <3> HIDE DEF taskRow, told, taskTold
    <3> QED BY <1>2 DEF EnsureTask, Inv, WorkTypeOK, RowsTypeOK
  <2>3. \A d \in Envelopes : envelopes'[d] = envelopes[d] \/ (d = e /\ envelopes'[d] = row)
    BY <2>1 DEF Inv, WorkTypeOK, RowsTypeOK
  <2>4. ASSUME envelopes'[e] = row PROVE KnownEnvelope(e)'
    <3>1. /\ envelopes'[e].item = i /\ envelopes'[e].worker = w /\ envelopes'[e].run = r
          /\ envelopes'[e].task = t /\ envelopes'[e].caps = caps
      BY <2>4
    <3> QED BY <2>1, <2>2, <3>1 DEF KnownEnvelope
  <2> HIDE DEF row
  <2> QED BY <2>3, <2>4
<1>8. \A j \in Items : items'[j] # None => ToldAfter(j)
  BY DEF CreateEnvelope, ToldAfter
<1>9. outcomes' = outcomes
  BY DEF CreateEnvelope
<1> HIDE DEF row, taskRow, told, taskTold
<1> QED
  BY <1>1, <1>5, <1>6, <1>7, <1>8, <1>9, Preserving

\* submitWorkerOutcome: the outcome and its event are stored together, once each, and an
\* item that follows the outcome is told.
LEMMA OutcomeKeeps ==
  ASSUME Inv, NEW k \in OutcomeKeys, NEW id \in Outcomes, NEW e \in Envelopes,
         NEW w \in Workers, NEW status \in {"completed", "blocked", "failed"}, NEW by \in Authors,
         SubmitOutcome(k, id, e, w, status, by)
  PROVE  Inv'
<1> DEFINE i == envelopes[e].item
           next == IF status = "completed" THEN "review" ELSE status
           row == [id |-> id, envelope |-> e, status |-> status]
           event == EventOf("work.outcome_submitted", by, i, next, None)
<1>1. /\ envelopes[e] # None /\ items[i] # None
      /\ envelopes[e] \in EnvelopeRow
  BY DEF SubmitOutcome, Inv, KnownEnvelope, WorkTypeOK, RowsTypeOK
<1>2. WorkTypeOK' /\ Grown
  BY <1>1, OutcomeSteps DEF Inv
<1>3. i \in Items /\ next \in ItemStatus
  BY <1>1 DEF EnvelopeRow, ItemStatus, Closed
<1>4. /\ items' = IF items[i].status \in Closed THEN items ELSE [items EXCEPT ![i].status = next]
      /\ Append(<<"outcome", id>>, event)
      /\ RecordOutcome(k, row)
      /\ envelopes' = envelopes
  BY DEF SubmitOutcome
<1>5. event.kind = "work.outcome_submitted" /\ event.of = i /\ event.status = next
  BY DEF EventOf
<1>6. <<"outcome", id>> \in EventKeys /\ event \in Event
  <2>1. <<"outcome", id>> \in EventKeys
    BY Derived DEF EventKeys
  <2> HIDE DEF i, next
  <2> QED BY <1>3, <2>1, EventsOK DEF EventKinds
<1> HIDE DEF event
<1>7. /\ log'[<<"outcome", id>>] = event /\ event # None
      /\ \A j \in EventKeys : log'[j] = log[j] \/ j = <<"outcome", id>>
  BY <1>4, <1>6, Appending DEF Inv, WorkTypeOK
<1>8. \A j \in EventKeys : Told(j)' => Told(j) \/ KnownEvent(j)'
  BY <1>5, <1>7 DEF Told, KnownEvent
<1>9. \A j \in Items : items'[j] # None => ToldAfter(j)
  <2>1. \A j \in Items : j # i => items'[j] = items[j]
    BY <1>3, <1>4 DEF Inv, WorkTypeOK, RowsTypeOK
  <2>2. items'[i] = items[i] \/ items'[i] = [items[i] EXCEPT !.status = next]
    BY <1>3, <1>4 DEF Inv, WorkTypeOK, RowsTypeOK
  <2>3. items[i] \in ItemRow
    BY <1>1, <1>3 DEF Inv, WorkTypeOK, RowsTypeOK
  <2> HIDE DEF i, next
  <2>4. ToldAfter(i)
    BY <1>1, <1>5, <1>6, <1>7, <2>2, <2>3 DEF ToldAfter, ItemRow
  <2> QED
    BY <2>1, <2>4 DEF ToldAfter
<1>10. /\ outcomes' = [outcomes EXCEPT ![k] = row]
       /\ outcomes'[k] = row /\ row # None
       /\ \A l \in OutcomeKeys : l # k => outcomes'[l] = outcomes[l]
       /\ \A l \in OutcomeKeys \ {k} : outcomes[l] # None => outcomes[l].id # id
  <2>1. row \in OutcomeRow
    BY DEF OutcomeRow
  <2> QED
    BY <1>4, <2>1, WorkAssumption DEF RecordOutcome, Inv, WorkTypeOK, RowsTypeOK
<1>11. \A l \in OutcomeKeys : outcomes'[l] # None => outcomes[l] # None \/ KnownOutcome(l)'
  <2>1. row.id = id /\ row.envelope = e
    OBVIOUS
  <2> HIDE DEF row, next
  <2>2. KnownOutcome(k)'
    BY <1>1, <1>4, <1>5, <1>7, <1>10, <2>1 DEF KnownOutcome, OutcomeTold, Told
  <2> QED
    BY <1>10, <2>2
<1>12. \A key \in EventKeys : OutcomeTold(key)' => StoredOnce(key)'
  <2>1. row.id = id
    OBVIOUS
  <2> HIDE DEF row
  <2>2. StoredOnce(<<"outcome", id>>)'
    BY <1>10, <2>1 DEF StoredOnce
  <2>3. ASSUME NEW key \in EventKeys, key # <<"outcome", id>>, OutcomeTold(key)'
        PROVE  StoredOnce(key)'
    <3>1. OutcomeTold(key)
      BY <1>7, <2>3 DEF OutcomeTold, Told
    <3>2. PICK l \in OutcomeKeys :
             /\ outcomes[l] # None /\ key = <<"outcome", outcomes[l].id>>
             /\ \A other \in OutcomeKeys \ {l} :
                   outcomes[other] # None => outcomes[other].id # outcomes[l].id
      BY <3>1, <2>3 DEF Inv, StoredOnce
    <3>3. outcomes'[l] = outcomes[l]
      BY <1>2, <3>2 DEF Grown
    <3>4. outcomes[l].id # id
      BY <2>3, <3>2
    <3> QED
      BY <1>10, <2>1, <3>2, <3>3, <3>4 DEF StoredOnce
  <2> QED BY <2>2, <2>3
<1> HIDE DEF i, next, row
<1> QED
  BY <1>2, <1>4, <1>8, <1>9, <1>11, <1>12, Preserving

\* ensureExternalRun and completeExternalRun: a run told completed is completed.
LEMMA RunKeeps ==
  ASSUME Inv, NEW r \in Runs, NEW by \in Authors,
         EnsureExternalRun(r, by) \/ CompleteExternalRun(r, by)
  PROVE  Inv'
<1>1. WorkTypeOK' /\ Grown
  BY RunSteps DEF Inv
<1>2. UNCHANGED <<items, envelopes, outcomes>>
  BY DEF EnsureExternalRun, CompleteExternalRun, rowVars
<1>3. \A j \in Items : items'[j] # None => ToldAfter(j)
  BY <1>2 DEF ToldAfter
<1>4. CASE UNCHANGED log
  <2>1. \A key \in EventKeys : OutcomeTold(key)' => StoredOnce(key)'
    BY <1>2, <1>4, StoredStays DEF Inv, OutcomeTold, Told
  <2> QED
    BY <1>1, <1>2, <1>3, <1>4, <2>1, Preserving DEF Told
<1>5. ASSUME NEW key \in KeysFor(<<"started", r>>),
             Append(key, EventOf("run.started", by, r, None, None))
      PROVE  Inv'
  <2> DEFINE event == EventOf("run.started", by, r, None, None)
  <2>1. key \in EventKeys /\ event \in Event
    BY KeysOK, Derived, EventsOK DEF EventKinds
  <2>2. log'[key] = event /\ event.kind = "run.started"
    BY <1>5, <2>1, Appending DEF Inv, WorkTypeOK, EventOf
  <2>3. KnownEvent(key)'
    BY <2>2 DEF KnownEvent
  <2> HIDE DEF event
  <2> QED
    BY <1>1, <1>2, <1>3, <1>5, <2>1, <2>2, <2>3, Telling DEF event
<1>6. ASSUME NEW key \in KeysFor(<<"completed", r>>),
             Append(key, EventOf("run.completed", by, r, None, None)),
             SetRunStatus(approvals, r, "completed", "run_completed", None)
      PROVE  Inv'
  <2> DEFINE event == EventOf("run.completed", by, r, None, None)
  <2>1. key \in EventKeys /\ event \in Event
    BY KeysOK, Derived, EventsOK DEF EventKinds
  <2>2. log'[key] = event
    BY <1>6, <2>1, Appending DEF Inv, WorkTypeOK
  <2>3. event.kind = "run.completed" /\ event.of = r
    BY DEF EventOf
  <2>4. runs'[r].status = "completed"
    BY <1>6 DEF SetRunStatus, TerminalReplay, Inv, WorkTypeOK, StoreTypeOK
  <2>5. KnownEvent(key)'
    BY <2>2, <2>3, <2>4 DEF KnownEvent
  <2> HIDE DEF event
  <2> QED
    BY <1>1, <1>2, <1>3, <1>6, <2>1, <2>3, <2>5, Telling DEF event
<1> QED
  BY <1>4, <1>5, <1>6 DEF EnsureExternalRun, CompleteExternalRun

\* What other services do to runs leaves the rows of work and the log alone.
LEMMA OtherKeeps ==
  ASSUME Inv, OtherServices
  PROVE  Inv'
<1>1. WorkTypeOK' /\ Grown
  BY OtherSteps DEF Inv
<1>2. UNCHANGED <<items, envelopes, outcomes, log>>
  BY DEF OtherServices, rowVars
<1>3. \A j \in Items : items'[j] # None => ToldAfter(j)
  BY <1>2 DEF ToldAfter
<1>4. \A key \in EventKeys : OutcomeTold(key)' => StoredOnce(key)'
  BY <1>2, StoredStays DEF Inv, OutcomeTold, Told
<1> QED
  BY <1>1, <1>2, <1>3, <1>4, Preserving DEF Told

\* The invariant holds at first and is preserved by every step.
LEMMA InvHolds == Spec => []Inv
<1>1. Init => Inv
  <2> SUFFICES ASSUME Init PROVE Inv
    OBVIOUS
  <2>1. WorkTypeOK
    BY DEF Init, StoreInit, WorkTypeOK, RowsTypeOK, StoreTypeOK, AbsentRun, RunRow, Nodes,
           AbsentApproval, ApprovalRow
  <2>2. \A k \in EventKeys : ~Told(k)
    BY DEF Init, Told
  <2>3. \A k \in EventKeys : ~OutcomeTold(k)
    BY <2>2 DEF OutcomeTold
  <2> QED
    BY <2>1, <2>2, <2>3 DEF Init, Inv, RowsWereTold
<1>2. Inv /\ [Next]_vars => Inv'
  <2> SUFFICES ASSUME Inv, [Next]_vars PROVE Inv'
    OBVIOUS
  <2>1. ASSUME NEW by \in Authors, Operators(by) PROVE Inv'
    <3>1. CASE \E i \in Items :
                 \/ \E owner \in Principals : CreateWork(i, owner, by) \/ AssignWork(i, owner, by)
                 \/ \E status \in StatusRequests : SetStatus(i, status, by)
                 \/ \E decision \in Decisions : ReviewWork(i, decision, by)
      BY <3>1, CreateKeeps, AssignKeeps, StatusKeeps, ReviewKeeps DEF StatusRequests
    <3>2. CASE \E w \in Workers : RegisterWorker(w, by)
      BY <3>2, RegisterKeeps
    <3>3. CASE \E e \in Envelopes, i \in Items, w \in Workers, r \in Runs \cup {None},
                  t \in Tasks \cup {None}, caps \in SUBSET Capabilities :
                  CreateEnvelope(e, i, w, r, t, caps, by)
      BY <3>3, EnvelopeKeeps
    <3>4. CASE \E r \in Runs : EnsureExternalRun(r, by) \/ CompleteExternalRun(r, by)
      BY <3>4, RunKeeps
    <3> QED
      BY <2>1, <3>1, <3>2, <3>3, <3>4 DEF Operators
  <2>2. ASSUME NEW by \in Authors, NEW k \in OutcomeKeys, NEW id \in Outcomes,
               NEW e \in Envelopes, NEW w \in Workers,
               NEW status \in {"completed", "blocked", "failed"},
               SubmitOutcome(k, id, e, w, status, by)
        PROVE  Inv'
    BY <2>2, OutcomeKeeps
  <2>3. CASE OtherServices
    BY <2>3, OtherKeeps
  <2>4. CASE UNCHANGED vars
    BY <2>4 DEF vars, storeVars, rowVars, Inv, WorkTypeOK, StoreTypeOK, RowsTypeOK, RowsWereTold,
                Told, OutcomeTold, KnownEvent, KnownEnvelope, KnownOutcome, StoredOnce
  <2> QED
    BY <2>1, <2>2, <2>3, <2>4 DEF Next
<1> QED
  BY <1>1, <1>2, PTL DEF Spec

-------------------------------------------------------------------------------
(* The theorems.                                                           *)

\* Every row and every event keeps its type (persistence/work.ts, runs.ts, events.ts).
THEOREM WorkTypes == Spec => []WorkTypeOK
<1>1. Inv => WorkTypeOK
  BY DEF Inv
<1> QED
  BY <1>1, InvHolds, PTL

\* Whatever is deduplicated, an item never has a status or an owner that no event about it
\* told (work/service.ts with the append of persistence/events.ts).
THEOREM ItemsAreTold == Spec => []RowsWereTold
<1>1. Inv => RowsWereTold
  BY DEF Inv
<1> QED
  BY <1>1, InvHolds, PTL

\* An item told closed and a run told completed are, for good (persistence/work.ts: update,
\* setStatus; persistence/runs.ts: setStatus).
THEOREM FinalStays == Spec => []FinalFactsStay
<1>1. Inv => FinalFactsStay
  BY DEF Inv, FinalFactsStay, KnownEvent
<1> QED
  BY <1>1, InvHolds, PTL

\* An envelope and the task of its run bound the worker alike, within its grants
\* (work/service.ts: createBoundedEnvelope).
THEOREM BoundsHold == Spec => []EnvelopesAreBounded
<1>1. Inv => EnvelopesAreBounded
  BY DEF Inv, EnvelopesAreBounded, KnownEnvelope
<1> QED
  BY <1>1, InvHolds, PTL

\* Stored outcomes and told outcomes match one to one, whatever keys callers choose for
\* other events (work/service.ts: submitWorkerOutcome).
THEOREM OutcomesAreTold == Spec => []OutcomesMatchLog
<1>1. Inv => OutcomesMatchLog
  BY DEF Inv, OutcomesMatchLog, KnownOutcome, StoredOnce
<1> QED
  BY <1>1, InvHolds, PTL
===============================================================================
