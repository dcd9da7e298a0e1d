--------------------------- MODULE OrderMutations ---------------------------
(***************************************************************************)
(* One order that is at the broker and has its local row: cancellations    *)
(* and replacements, each with an intent of its own; refreshes and order   *)
(* syncs that write the row and the execution from what they have read;    *)
(* and the reconciliation of the intents that nobody answered.             *)
(*                                                                         *)
(* application/services/orders.py (cancel_order, replace_order,            *)
(* refresh_order, the merge of sync_today_orders and                       *)
(* reconcile_unresolved_intents), the rows of                              *)
(* repositories/sqlalchemy_trading_intent_ledger.py, and the mutations of  *)
(* adapters/brokers/longbridge.py.  Requests with the same key, and the    *)
(* import of an order without a row, are in TradingIntents.                *)
(***************************************************************************)
EXTENDS Integers

CONSTANTS
    Cancels,   \* requests to cancel the order, each with its own key
    Replaces,  \* requests to replace its quantity and prices
    Readers,   \* threads that refresh or synchronize the order
    Original,  \* the terms the order was submitted with
    MaxFills   \* bound: executions the order can have

Mutations == Cancels \cup Replaces
Terms == Replaces \cup {Original}

ASSUME OrderMutationsConstants ==
    /\ Cancels \cap Replaces = {}
    /\ Original \notin Replaces
    /\ MaxFills \in Nat \ {0}

VARIABLES
    broker,     \* the order at the broker
    call,       \* call[m]: what became of the broker call of m
    row,        \* the local order row: the snapshot written last
    intent,     \* intent[m]: the state of m's intent
    request,    \* request[m]: the thread of m and the snapshot it holds
    reader,     \* reader[t]: the thread t and the snapshot it holds
    todo,       \* intents the reconciler still has to treat, with what it read
    confirmed   \* history: mutations that the reconciler persisted

vars == <<broker, call, row, intent, request, reader, todo, confirmed>>

\* "withdrawn": partially filled, the rest of it canceled.
BrokerStatuses == {"working", "filled", "canceled", "withdrawn"}
Statuses == {"submitted", "partial", "filled", "canceled"}
FinalStatuses == {"filled", "canceled"}

Snapshots == [status: Statuses, executed: 0..MaxFills, terms: Terms]

States == {"none", "submitting", "acknowledged", "unknown",
           "persisted", "rejected"}
UnresolvedStates == {"submitting", "acknowledged", "unknown"}

\* A call that is refused or lost stays sent.
Calls == {"none", "sent", "applied"}

RequestPlaces == {"idle", "waiting", "acked", "done"}
ReaderPlaces == {"idle", "read"}

\* Rows, calls and threads only hold values of their types.
TypeOK ==
    /\ broker \in [status: BrokerStatuses, executed: 0..MaxFills, terms: Terms]
    /\ call \in [Mutations -> Calls]
    /\ row \in Snapshots
    /\ intent \in [Mutations -> States]
    /\ request \in [Mutations -> [at: RequestPlaces, held: Snapshots]]
    /\ reader \in [Readers -> [at: ReaderPlaces, held: Snapshots]]
    /\ todo \subseteq Mutations \X Snapshots
    /\ confirmed \subseteq Mutations

Submitted == [status |-> "submitted", executed |-> 0, terms |-> Original]

Init ==
    /\ broker = [status |-> "working", executed |-> 0, terms |-> Original]
    /\ call = [m \in Mutations |-> "none"]
    /\ row = Submitted
    /\ intent = [m \in Mutations |-> "none"]
    /\ request = [m \in Mutations |-> [at |-> "idle", held |-> Submitted]]
    /\ reader = [t \in Readers |-> [at |-> "idle", held |-> Submitted]]
    /\ todo = {}
    /\ confirmed = {}

-----------------------------------------------------------------------------
\* The broker.

\* A mapping without the partial withdrawal.
LocalStatusUnmapped(b) ==
    IF b.status # "working" THEN b.status
    ELSE IF b.executed > 0 THEN "partial" ELSE "submitted"

\* The order as the adapter shows it.  A partial withdrawal, though final,
\* is mapped to partially filled.
LocalStatus(b) ==
    CASE b.status = "withdrawn" -> "partial"
      [] b.status = "working" ->
           IF b.executed > 0 THEN "partial" ELSE "submitted"
      [] OTHER -> b.status

Snapshot(b) ==
    [status |-> LocalStatus(b), executed |-> b.executed, terms |-> b.terms]

\* An execution.  What quantity completes the order depends on its terms.
BrokerFills ==
    /\ broker.status = "working"
    /\ broker.executed < MaxFills
    /\ \E s \in {"working", "filled"} :
         broker' = [broker EXCEPT !.status = s, !.executed = @ + 1]
    /\ UNCHANGED <<call, row, intent, request, reader, todo, confirmed>>

\* The order expires, which the adapter maps to canceled, or it is rejected,
\* which every reader of the status here treats as canceled.
BrokerEnds ==
    /\ broker.status = "working"
    /\ broker' = [broker EXCEPT !.status = "canceled"]
    /\ UNCHANGED <<call, row, intent, request, reader, todo, confirmed>>

\* A mutation takes effect, before or after its call is answered.
BrokerApplies(m) ==
    /\ call[m] = "sent"
    /\ broker.status = "working"
    /\ call' = [call EXCEPT ![m] = "applied"]
    /\ broker' = IF m \in Replaces THEN [broker EXCEPT !.terms = m]
                 ELSE [broker EXCEPT !.status = IF broker.executed = 0
                                                THEN "canceled"
                                                ELSE "withdrawn"]
    /\ UNCHANGED <<row, intent, request, reader, todo, confirmed>>

-----------------------------------------------------------------------------
\* The local rows.

\* The state of m's intent unless it is settled.
MarkState(m, s) ==
    intent' = IF intent[m] \in UnresolvedStates
              THEN [intent EXCEPT ![m] = s] ELSE intent

\* A settlement that takes an acknowledged cancellation for a canceled order.
PersistCanceled(m, snapshot) ==
    /\ row' = IF m \in Cancels THEN [snapshot EXCEPT !.status = "canceled"]
              ELSE snapshot
    /\ intent' = [intent EXCEPT ![m] = "persisted"]

\* Order row, execution and intent are written in one transaction.
PersistBrokerResult(m, snapshot) ==
    /\ row' = snapshot
    /\ intent' = [intent EXCEPT ![m] = "persisted"]

-----------------------------------------------------------------------------
\* A request to cancel or replace.

\* Thread m goes on, without a snapshot.
MoveTo(m, at) ==
    request' = [request EXCEPT ![m] = [at |-> at, held |-> Submitted]]

\* The intent is inserted, marked submitting, and the broker is called.  In
\* between an intent is as unresolved, and a call as little applied, as after.
Submit(m) ==
    /\ request[m].at = "idle"
    /\ intent' = [intent EXCEPT ![m] = "submitting"]
    /\ call' = [call EXCEPT ![m] = "sent"]
    /\ MoveTo(m, "waiting")
    /\ UNCHANGED <<broker, row, reader, todo, confirmed>>

\* A configuration error: no call was made.
NotSent(m) ==
    /\ request[m].at = "waiting"
    /\ call[m] = "sent"
    /\ call' = [call EXCEPT ![m] = "none"]
    /\ MarkState(m, "rejected")
    /\ MoveTo(m, "done")
    /\ UNCHANGED <<broker, row, reader, todo, confirmed>>

\* The call is answered with the order as it is then.
Acknowledge(m) ==
    /\ request[m].at = "waiting"
    /\ MarkState(m, "acknowledged")
    /\ request' = [request EXCEPT ![m] = [at |-> "acked",
                                          held |-> Snapshot(broker)]]
    /\ UNCHANGED <<broker, call, row, reader, todo, confirmed>>

\* A refusal, a timeout or a detail that cannot be read; or an open circuit
\* or a quarantined call, behind which nothing was sent.
Unanswered(m) ==
    /\ request[m].at = "waiting"
    /\ MarkState(m, "unknown")
    /\ MoveTo(m, "done")
    /\ UNCHANGED <<broker, call, row, reader, todo, confirmed>>

\* The answer is persisted, unless the reconciler has settled the intent.
Persist(m) ==
    /\ request[m].at = "acked"
    /\ IF intent[m] \in UnresolvedStates
       THEN PersistBrokerResult(m, request[m].held)
       ELSE UNCHANGED <<row, intent>>
    /\ MoveTo(m, "done")
    /\ UNCHANGED <<broker, call, reader, todo, confirmed>>

\* A write after the answer fails.
PersistFails(m) ==
    /\ request[m].at = "acked"
    /\ MarkState(m, "unknown")
    /\ MoveTo(m, "done")
    /\ UNCHANGED <<broker, call, row, reader, todo, confirmed>>

\* The thread ends with its process.
Crash(m) ==
    /\ request[m].at \notin {"idle", "done"}
    /\ MoveTo(m, "done")
    /\ UNCHANGED <<broker, call, row, intent, reader, todo, confirmed>>

-----------------------------------------------------------------------------
\* Refreshes and order syncs.

ReadOrder(t) ==
    /\ reader[t].at = "idle"
    /\ reader' = [reader EXCEPT ![t] = [at |-> "read",
                                        held |-> Snapshot(broker)]]
    /\ UNCHANGED <<broker, call, row, intent, request, todo, confirmed>>

\* A merge that writes the row only when its status changes.
MergeSnapshotStatus(t) ==
    /\ reader[t].at = "read"
    /\ row' = IF reader[t].held.status = row.status THEN row
              ELSE reader[t].held
    /\ reader' = [reader EXCEPT ![t] = [at |-> "idle", held |-> Submitted]]
    /\ UNCHANGED <<broker, call, intent, request, todo, confirmed>>

\* The row is overwritten, whatever others have written meanwhile.
MergeSnapshot(t) ==
    /\ reader[t].at = "read"
    /\ row' = reader[t].held
    /\ reader' = [reader EXCEPT ![t] = [at |-> "idle", held |-> Submitted]]
    /\ UNCHANGED <<broker, call, intent, request, todo, confirmed>>

\* The read or a write fails, or the process ends.
LoseReader(t) ==
    /\ reader[t].at # "idle"
    /\ reader' = [reader EXCEPT ![t] = [at |-> "idle", held |-> Submitted]]
    /\ UNCHANGED <<broker, call, row, intent, request, todo, confirmed>>

-----------------------------------------------------------------------------
\* The reconciler.

\* A list without the acknowledged intents.
UnresolvedUnacknowledged ==
    {m \in Mutations : intent[m] \in UnresolvedStates \ {"acknowledged"}}

UnresolvedIntents == {m \in Mutations : intent[m] \in UnresolvedStates}

\* A match that takes a canceled order with executions for a cancellation.
SnapshotMatchesFilled(m, snapshot) ==
    IF m \in Cancels THEN snapshot.status = "canceled"
    ELSE snapshot.terms = m

\* A cancellation shows in an order that ended without an execution, a
\* replacement in an order with its marker, quantity and prices.
SnapshotMatchesIntent(m, snapshot) ==
    IF m \in Cancels
    THEN snapshot.status = "canceled" /\ snapshot.executed = 0
    ELSE snapshot.terms = m

\* Unresolved intents are listed, then the order is read.
Look ==
    /\ todo = {}
    /\ UnresolvedIntents # {}
    /\ todo' = UnresolvedIntents \X {Snapshot(broker)}
    /\ UNCHANGED <<broker, call, row, intent, request, reader, confirmed>>

\* An intent whose result shows is persisted.
Confirm(m) ==
    /\ \E entry \in todo :
         /\ entry[1] = m /\ SnapshotMatchesIntent(m, entry[2])
         /\ IF intent[m] \in UnresolvedStates
            THEN /\ PersistBrokerResult(m, entry[2])
                 /\ confirmed' = confirmed \cup {m}
            ELSE UNCHANGED <<row, intent, confirmed>>
         /\ todo' = todo \ {entry}
    /\ UNCHANGED <<broker, call, request, reader>>

\* Any other one becomes unknown.  This is never evidence that there was no
\* mutation: the order was found, or its lookup failed.
RecordAttempt(m) ==
    /\ \E entry \in todo : entry[1] = m /\ todo' = todo \ {entry}
    /\ MarkState(m, "unknown")
    /\ UNCHANGED <<broker, call, row, request, reader, confirmed>>

\* The process of the reconciler ends.
AbortReconciliation ==
    /\ todo # {}
    /\ todo' = {}
    /\ UNCHANGED <<broker, call, row, intent, request, reader, confirmed>>

-----------------------------------------------------------------------------
RequestStep(m) ==
    \/ Submit(m) \/ NotSent(m)
    \/ Acknowledge(m) \/ Unanswered(m) \/ Persist(m)

ReaderStep(t) == ReadOrder(t) \/ MergeSnapshot(t)

Treat(m) == Confirm(m) \/ RecordAttempt(m)

Next ==
    \/ BrokerFills \/ BrokerEnds
    \/ \E m \in Mutations :
         \/ BrokerApplies(m)
         \/ RequestStep(m) \/ PersistFails(m) \/ Crash(m)
         \/ Treat(m)
    \/ \E t \in Readers : ReaderStep(t) \/ LoseReader(t)
    \/ Look \/ AbortReconciliation

Spec == Init /\ [][Next]_vars

\* Started requests go on (their calls have a timeout), the scheduler
\* synchronizes and reconciles every poll.  A write may fail or its process
\* end at any time, but not every time.
FairSpec ==
    /\ Spec
    /\ WF_vars(\E m \in Mutations : request[m].at # "idle" /\ RequestStep(m))
    /\ WF_vars(Look \/ \E m \in Mutations : RecordAttempt(m))
    /\ \A m \in Mutations : SF_vars(Confirm(m))
    /\ \A t \in Readers : /\ WF_vars(ReadOrder(t))
                          /\ SF_vars(MergeSnapshot(t))

-----------------------------------------------------------------------------
\* Correctness.

Ended == broker.status # "working"

\* A row that shows a final status shows the end the order really had, with
\* its executions and terms, whoever wrote it last and from however old a
\* read; and no row shows an execution that the order does not have, or the
\* quantity and prices of a replacement that the broker has not applied.
RowIsTruthful ==
    /\ row.status \in FinalStatuses => row = Snapshot(broker)
    /\ row.executed <= broker.executed
    /\ row.terms \in Replaces => call[row.terms] = "applied"

\* What reconciliation settles as done is done for good: a cancellation left
\* an order without executions, a replacement was applied by the broker.
ConfirmedIsReal ==
    \A m \in confirmed :
        IF m \in Cancels
        THEN broker.status = "canceled" /\ broker.executed = 0
        ELSE call[m] = "applied"

\* Once the order has ended, the row comes to show it and keeps showing it:
\* every older snapshot that someone still holds is followed by a newer one.
RowCatchesUp ==
    <>[](Ended => row = Snapshot(broker))

\* A mutation whose effect stays visible is settled, also when its request
\* died between the answer and the write.  Other ones are never settled: a
\* cancellation that a fill overtook stays unknown, with the account gate
\* closed behind it.
Visible(m) == Ended /\ SnapshotMatchesIntent(m, Snapshot(broker))
VisibleMutationSettles ==
    \A m \in Mutations :
        <>[](Visible(m) => intent[m] \notin UnresolvedStates)
=============================================================================
