--------------------------- MODULE TradingIntents ---------------------------
(***************************************************************************)
(* Submitting one broker order per idempotency key.  Request threads run   *)
(* OrderService.submit_order against the intent ledger; the SDK executor   *)
(* of the Longbridge adapter carries the broker calls; the scheduler's     *)
(* reconciliation matches unresolved intents with the broker's order       *)
(* history; order sync imports broker orders; order sync, refresh and the  *)
(* other writers of an order row write back a copy they have read; an      *)
(* operator may resolve an intent as "no order"; the process may crash.    *)
(*                                                                         *)
(* A broker order is named by the request whose call created it.  Each     *)
(* action is one committed transaction, one broker or SDK event, or one    *)
(* in-memory step between two of them.                                     *)
(***************************************************************************)
EXTENDS IntentLedger, FiniteSets

CONSTANTS
    Requests,    \* threads running submit_order, one call each
    Keys,        \* Idempotency-Key values
    Payloads,    \* request payload digests (request_hash)
    NoPayload,   \* no intent row exists for the key
    MaxCrashes   \* bound: process crashes in one behaviour

ASSUME NoOrderAssumption == NoOrder \notin Requests
ASSUME NoPayloadAssumption == NoPayload \notin Payloads
ASSUME MaxCrashesAssumption == MaxCrashes \in Nat

VARIABLES
    req,       \* req[r]: the key and payload request r carries
    pc,        \* pc[r]: where r is in submit_order
    sdk,       \* sdk[r]: r's call in the SDK executor
    accepted,  \* orders the broker has accepted
    hash,      \* hash[k]: request_hash of k's intent row, NoPayload if no row
    intent,    \* intent[k]: the rest of that row
    local,     \* local[r]: the row of r's order in the orders table
    held,      \* held[r]: the copies of that row that threads may hold
    late,      \* orders with a late_broker_result audit event
    rpc,       \* where reconcile_unresolved_intents is
    todo,      \* listed intents it has still to treat
    seen,      \* the broker orders it has read
    crashes    \* crashes so far

rvars == <<rpc, todo, seen>>
vars == <<req, pc, sdk, accepted, hash, intent, local, late, held, rvars, crashes>>

Outcomes == {"ok", "conflict", "rejected", "unknown", "failed", "crashed"}
OwnerSteps == {"prepared", "submitting", "calling", "refused", "unsure",
               "unsure_id", "answered", "acked"}
SdkStates == {"unused", "running", "placed", "orphan", "finished"}

key(r) == req[r].key
Exists(k) == hash[k] # NoPayload
Unresolved(k) == Exists(k) /\ intent[k].state \in UnresolvedStates
Goto(r, step) == pc' = [pc EXCEPT ![r] = step]
Update(k, row) == intent' = [intent EXCEPT ![k] = row]

\* _raise_if_sdk_action_quarantined: a call whose caller has timed out still
\* occupies the executor, and no new SDK action may start.
Quarantined == \E r \in Requests : sdk[r] \in {"running", "placed"} /\ pc[r] # "calling"

Init ==
    /\ req \in [Requests -> [key : Keys, payload : Payloads]]
    /\ pc = [r \in Requests |-> "start"]
    /\ sdk = [r \in Requests |-> "unused"]
    /\ accepted = {}
    /\ hash = [k \in Keys |-> NoPayload]
    /\ intent = [k \in Keys |-> NewRow]
    /\ local = [r \in Requests |-> "absent"]
    /\ held = [r \in Requests |-> {}]
    /\ late = {}
    /\ rpc = "idle" /\ todo = {} /\ seen = {}
    /\ crashes = 0

-----------------------------------------------------------------------------
(* submit_order: the ledger steps before the broker call                   *)

\* A replay that hands the row's state to the caller as it is.
ReplayOutcomeRawState(r) ==
    IF hash[key(r)] # req[r].payload THEN "conflict" ELSE intent[key(r)].state

\* A replay that takes every row in state "prepared" for its own.
ReplayOutcomeResumesPrepared(r) ==
    CASE intent[key(r)].state = "prepared" -> "prepared"
      [] intent[key(r)].state = "persisted" -> "ok"
      [] OTHER -> "unknown"

\* _resolve_prepared_intent for a row this request did not create.
ReplayOutcome(r) ==
    IF hash[key(r)] # req[r].payload THEN "conflict"
    ELSE CASE intent[key(r)].state = "persisted" -> "ok"
           [] intent[key(r)].state \in {"rejected", "resolved_no_order"} -> "rejected"
           [] OTHER -> "unknown"

\* prepare_intent, the lookup by key.
FindIntent(r) ==
    /\ pc[r] = "start"
    /\ Goto(r, IF Exists(key(r)) THEN ReplayOutcome(r) ELSE "absent")
    /\ UNCHANGED <<req, sdk, accepted, hash, intent, local, late, held, rvars, crashes>>

\* An insert with no unique key on (account, mode, idempotency_key).
InsertIntentNotUnique(r) ==
    /\ pc[r] = "absent"
    /\ hash' = [hash EXCEPT ![key(r)] = req[r].payload]
    /\ Update(key(r), NewRow)
    /\ Goto(r, "prepared")
    /\ UNCHANGED <<req, sdk, accepted, local, late, held, rvars, crashes>>

\* prepare_intent, the insert: the unique key makes a concurrent loser roll
\* back, read the winner's row and replay it.
InsertIntent(r) ==
    /\ pc[r] = "absent"
    /\ IF Exists(key(r))
       THEN /\ Goto(r, ReplayOutcome(r))
            /\ UNCHANGED <<hash, intent>>
       ELSE /\ hash' = [hash EXCEPT ![key(r)] = req[r].payload]
            /\ Update(key(r), NewRow)
            /\ Goto(r, "prepared")
    /\ UNCHANGED <<req, sdk, accepted, local, late, held, rvars, crashes>>

\* mark_submitting: on a terminal row it changes nothing, and submit_order
\* goes on without looking at the row it returns.
MarkSubmitting(r) ==
    /\ pc[r] = "prepared"
    /\ Update(key(r), MarkState(intent[key(r)], "submitting"))
    /\ Goto(r, "submitting")
    /\ UNCHANGED <<req, sdk, accepted, hash, local, late, held, rvars, crashes>>

-----------------------------------------------------------------------------
(* The broker call (adapter._run_sdk_action)                               *)

StartCall(r) ==
    /\ pc[r] = "submitting"
    /\ ~Quarantined
    /\ sdk' = [sdk EXCEPT ![r] = "running"]
    /\ Goto(r, "calling")
    /\ UNCHANGED <<req, accepted, hash, intent, local, late, held, rvars, crashes>>

\* The circuit breaker is open or the executor is quarantined: the call never
\* reaches the broker, but the service only sees an integration error.
CallNotStarted(r) ==
    /\ pc[r] = "submitting"
    /\ Goto(r, "unsure")
    /\ UNCHANGED <<req, sdk, accepted, hash, intent, local, late, held, rvars, crashes>>

BrokerAccepts(r) ==
    /\ sdk[r] \in {"running", "orphan"}
    /\ accepted' = accepted \cup {r}
    /\ sdk' = [sdk EXCEPT ![r] = IF @ = "running" THEN "placed" ELSE "finished"]
    /\ UNCHANGED <<req, pc, hash, intent, local, late, held, rvars, crashes>>

\* The call ends without an order: a configuration error or refusal before
\* anything was sent ("refused"), or an error that proves nothing ("unsure")
\* and may have left the request on its way.
CallFails(r) ==
    /\ \/ /\ sdk[r] = "running" /\ pc[r] = "calling"
          /\ \/ Goto(r, "refused") /\ sdk' = [sdk EXCEPT ![r] = "finished"]
             \/ /\ Goto(r, "unsure")
                /\ \E s \in {"finished", "orphan"} : sdk' = [sdk EXCEPT ![r] = s]
       \/ /\ sdk[r] = "running" /\ pc[r] # "calling"
          /\ \E s \in {"finished", "orphan"} : sdk' = [sdk EXCEPT ![r] = s]
          /\ UNCHANGED pc
       \/ /\ sdk[r] = "orphan"
          /\ sdk' = [sdk EXCEPT ![r] = "finished"]
          /\ UNCHANGED pc
    /\ UNCHANGED <<req, accepted, hash, intent, local, late, held, rvars, crashes>>

\* The call ends after the order was accepted: with its snapshot, with the id
\* but no detail (LongbridgeMutationOutcomeUnknownError), or with an error.
CallReturns(r) ==
    /\ sdk[r] = "placed"
    /\ sdk' = [sdk EXCEPT ![r] = "finished"]
    /\ IF pc[r] = "calling"
       THEN \E step \in {"answered", "unsure_id", "unsure"} : Goto(r, step)
       ELSE UNCHANGED pc
    /\ UNCHANGED <<req, accepted, hash, intent, local, late, held, rvars, crashes>>

\* future.result times out while the SDK call goes on.
CallTimesOut(r) ==
    /\ pc[r] = "calling"
    /\ sdk[r] \in {"running", "placed"}
    /\ Goto(r, "unsure")
    /\ UNCHANGED <<req, sdk, accepted, hash, intent, local, late, held, rvars, crashes>>

-----------------------------------------------------------------------------
(* submit_order: recording the outcome                                     *)

Acknowledge(r) ==
    /\ pc[r] = "answered"
    /\ IF IsLateResult(intent[key(r)], r)
       THEN /\ late' = late \cup {r}
            /\ Goto(r, "unsure_id")
            /\ UNCHANGED intent
       ELSE /\ Update(key(r), MarkBrokerAcknowledged(intent[key(r)], r))
            /\ Goto(r, "acked")
            /\ UNCHANGED late
    /\ UNCHANGED <<req, sdk, accepted, hash, local, held, rvars, crashes>>

\* persist_broker_result with create_order.  An order row that order sync has
\* imported meanwhile violates the unique external id: the transaction rolls
\* back and the outcome is recorded as unknown.
Persist(r) ==
    /\ pc[r] = "acked"
    /\ LET row == intent[key(r)] IN
       \/ /\ row.state = "persisted"
          /\ late' = IF row.ext = r THEN late ELSE late \cup {r}
          /\ Goto(r, "ok")
          /\ UNCHANGED <<intent, local>>
       \/ /\ row.state \in {"rejected", "resolved_no_order"}
          /\ late' = late \cup {r}
          /\ Goto(r, "unsure")
          /\ UNCHANGED <<intent, local>>
       \/ /\ row.state \in UnresolvedStates /\ local[r] = "imported"
          /\ Goto(r, "unsure")
          /\ UNCHANGED <<intent, local, late>>
       \/ /\ row.state \in UnresolvedStates /\ local[r] # "imported"
          /\ Update(key(r), PersistBrokerResult(row, r))
          /\ local' = [local EXCEPT ![r] = "linked"]
          /\ Goto(r, "ok")
          /\ UNCHANGED late
    /\ UNCHANGED <<req, sdk, accepted, hash, held, rvars, crashes>>

\* _mark_unknown_safely.
SettleUnknown(r) ==
    /\ pc[r] \in {"unsure", "unsure_id"}
    /\ Update(key(r), MarkUnknown(intent[key(r)],
                                  IF pc[r] = "unsure_id" THEN r ELSE NoOrder))
    /\ Goto(r, "unknown")
    /\ UNCHANGED <<req, sdk, accepted, hash, local, late, held, rvars, crashes>>

SettleRejected(r) ==
    /\ pc[r] = "refused"
    /\ Update(key(r), MarkState(intent[key(r)], "rejected"))
    /\ Goto(r, "rejected")
    /\ UNCHANGED <<req, sdk, accepted, hash, local, late, held, rvars, crashes>>

\* A ledger transaction of r fails and rolls back: before the call the error
\* ends the request, after it the error is one more unknown outcome, and
\* _mark_unknown_safely swallows it.
LedgerFails(r) ==
    /\ \/ pc[r] \in {"absent", "prepared", "refused"} /\ Goto(r, "failed")
       \/ pc[r] = "answered" /\ Goto(r, "unsure_id")
       \/ pc[r] = "acked"
          /\ Goto(r, IF intent[key(r)].state = "persisted" THEN "ok" ELSE "unsure")
       \/ pc[r] \in {"unsure", "unsure_id"} /\ Goto(r, "unknown")
    /\ UNCHANGED <<req, sdk, accepted, hash, intent, local, late, held, rvars, crashes>>

-----------------------------------------------------------------------------
(* Reconciliation, order sync, operator, crash                             *)

\* list_intents over the four unresolved states.
ListUnresolved ==
    /\ rpc = "idle"
    /\ todo' = {k \in Keys : Unresolved(k)}
    /\ todo' # {}
    /\ rpc' = "listed"
    /\ UNCHANGED <<req, pc, sdk, accepted, hash, intent, local, late, held, seen, crashes>>

\* list_today_orders and list_history_orders since the oldest listed intent.
LoadOrders ==
    /\ rpc = "listed"
    /\ ~Quarantined
    /\ rpc' = "loaded" /\ seen' = accepted
    /\ UNCHANGED <<req, pc, sdk, accepted, hash, intent, local, late, held, todo, crashes>>

\* Quarantine, an open circuit, a timeout or a saturated history page.
LoadFails ==
    /\ rpc = "listed"
    /\ rpc' = "failed"
    /\ UNCHANGED <<req, pc, sdk, accepted, hash, intent, local, late, held, todo, seen, crashes>>

Treated(k) ==
    /\ todo' = todo \ {k}
    /\ rpc' = IF todo = {k} THEN "idle" ELSE rpc
    /\ seen' = IF todo = {k} THEN {} ELSE seen

\* _snapshot_matches_intent for SUBMIT: marker and fingerprint.
Matches(k) == {r \in seen : key(r) = k /\ req[r].payload = hash[k]}
MarkerSeen(k) == \E r \in seen : key(r) = k

\* An incomplete read, several matches, or a marker whose fingerprint differs.
ReconcileInconclusive(k) ==
    /\ k \in todo
    /\ \/ rpc = "failed"
       \/ rpc = "loaded" /\ Cardinality(Matches(k)) > 1
       \/ rpc = "loaded" /\ Matches(k) = {} /\ MarkerSeen(k)
    /\ Update(k, RecordReconciliationAttempt(intent[k], FALSE, FALSE))
    /\ Treated(k)
    /\ UNCHANGED <<req, pc, sdk, accepted, hash, local, late, held, crashes>>

ReconcileZeroMatch(k, long) ==
    /\ k \in todo /\ rpc = "loaded" /\ ~MarkerSeen(k)
    /\ Update(k, RecordReconciliationAttempt(intent[k], TRUE, long))
    /\ Treated(k)
    /\ UNCHANGED <<req, pc, sdk, accepted, hash, local, late, held, crashes>>

\* A reconciliation that links the order before it looks at the intent row.
ReconcilePersistLinksFirst(k) ==
    /\ k \in todo /\ rpc = "loaded"
    /\ \E r \in Matches(k) :
          /\ Matches(k) = {r}
          /\ Update(k, PersistBrokerResult(intent[k], r))
          /\ local' = [local EXCEPT ![r] = "linked"]
          /\ late' = IF IsLateResult(intent[k], r) THEN late \cup {r} ELSE late
    /\ Treated(k)
    /\ UNCHANGED <<req, pc, sdk, accepted, hash, held, crashes>>

\* _persist_reconciled_intent: the order row is created, or an imported one is
\* linked.  On a row that became terminal meanwhile the result is late, or it is
\* the recorded one and nothing is written: a lost link is not restored.
ReconcilePersist(k) ==
    /\ k \in todo /\ rpc = "loaded"
    /\ \E r \in Matches(k) :
          /\ Matches(k) = {r}
          /\ IF intent[k].state \in TerminalStates
             THEN /\ late' = IF IsLateResult(intent[k], r) THEN late \cup {r} ELSE late
                  /\ UNCHANGED <<intent, local>>
             ELSE /\ Update(k, PersistBrokerResult(intent[k], r))
                  /\ local' = [local EXCEPT ![r] = "linked"]
                  /\ UNCHANGED late
    /\ Treated(k)
    /\ UNCHANGED <<req, pc, sdk, accepted, hash, held, crashes>>

ReconcilePersistFails(k) ==
    /\ k \in todo /\ rpc = "loaded" /\ Cardinality(Matches(k)) = 1
    /\ Update(k, RecordReconciliationAttempt(intent[k], FALSE, FALSE))
    /\ Treated(k)
    /\ UNCHANGED <<req, pc, sdk, accepted, hash, local, late, held, crashes>>

\* An import that only follows orders some intent already points to.
ImportOrderKnownOnly(r) ==
    /\ r \in accepted /\ local[r] = "absent"
    /\ ~Quarantined
    /\ intent[key(r)].ext = r
    /\ local' = [local EXCEPT ![r] = "imported"]
    /\ UNCHANGED <<req, pc, sdk, accepted, hash, intent, late, held, rvars, crashes>>

\* sync_today_orders, for one broker order without a local row.
ImportOrder(r) ==
    /\ r \in accepted /\ local[r] = "absent"
    /\ ~Quarantined
    /\ local' = [local EXCEPT ![r] = "imported"]
    /\ UNCHANGED <<req, pc, sdk, accepted, hash, intent, late, held, rvars, crashes>>

\* sync_today_orders for an order with a row, refresh_order, cancel and replace
\* all begin by reading the row.  Any number of threads may hold the copy.
ReadOrder(r) ==
    /\ local[r] # "absent"
    /\ held' = [held EXCEPT ![r] = @ \cup {local[r]}]
    /\ UNCHANGED <<req, pc, sdk, accepted, hash, intent, local, late, rvars, crashes>>

\* _merge_remote_snapshot: update_order writes the whole copy back, with the
\* order_intent_id it was read with, whatever the row holds by now.
MergeRemoteSnapshot(r) ==
    /\ \E copy \in held[r] : local' = [local EXCEPT ![r] = copy]
    /\ UNCHANGED <<req, pc, sdk, accepted, hash, intent, late, held, rvars, crashes>>

ResolveIntentNoOrder(k) ==
    /\ Exists(k) /\ NoOrderEvidenceReady(intent[k])
    /\ Update(k, ResolveNoOrder(intent[k]))
    /\ UNCHANGED <<req, pc, sdk, accepted, hash, local, late, held, rvars, crashes>>

\* The process dies: threads, executor and reconciliation are gone, a request
\* already sent may still reach the broker.
Crash ==
    /\ crashes < MaxCrashes
    /\ crashes' = crashes + 1
    /\ pc' = [r \in Requests |-> IF pc[r] \in OwnerSteps \cup {"absent"}
                                 THEN "crashed" ELSE pc[r]]
    /\ sdk' = [r \in Requests |-> CASE sdk[r] = "running" -> "orphan"
                                    [] sdk[r] = "placed" -> "finished"
                                    [] OTHER -> sdk[r]]
    /\ rpc' = "idle" /\ todo' = {} /\ seen' = {}
    /\ held' = [r \in Requests |-> {}]
    /\ UNCHANGED <<req, accepted, hash, intent, local, late>>

-----------------------------------------------------------------------------
RequestStep(r) ==
    \/ FindIntent(r) \/ InsertIntent(r) \/ MarkSubmitting(r)
    \/ StartCall(r) \/ CallNotStarted(r) \/ CallTimesOut(r)
    \/ Acknowledge(r) \/ Persist(r) \/ SettleUnknown(r) \/ SettleRejected(r)
    \/ LedgerFails(r)

CallEnds(r) == CallFails(r) \/ CallReturns(r)

OrderRowStep(r) == ImportOrder(r) \/ ReadOrder(r) \/ MergeRemoteSnapshot(r)

ReconcileIntent(k) ==
    \/ ReconcileInconclusive(k)
    \/ \E long \in BOOLEAN : ReconcileZeroMatch(k, long)
    \/ ReconcilePersist(k) \/ ReconcilePersistFails(k)

Next ==
    \/ \E r \in Requests : RequestStep(r) \/ BrokerAccepts(r) \/ CallEnds(r) \/ OrderRowStep(r)
    \/ ListUnresolved \/ LoadOrders \/ LoadFails
    \/ \E k \in Keys : ReconcileIntent(k) \/ ResolveIntentNoOrder(k)
    \/ Crash

Spec == Init /\ [][Next]_vars

(***************************************************************************)
(* Fairness.  Threads, SDK calls and the scheduler's polling run until they*)
(* finish or the process dies.  A broker read, a reconciliation persist and*)
(* a later reading of the clock are only assumed not to fail for ever.     *)
(***************************************************************************)
Fairness ==
    /\ \A r \in Requests : /\ WF_vars(RequestStep(r))
                           /\ WF_vars(CallEnds(r))
                           /\ WF_vars(ImportOrder(r))
    /\ WF_vars(ListUnresolved)
    /\ SF_vars(LoadOrders)
    /\ \A k \in Keys : /\ WF_vars(ReconcileIntent(k))
                       /\ SF_vars(ReconcilePersist(k))
                       /\ SF_vars(ReconcileZeroMatch(k, TRUE))

FairSpec == Spec /\ Fairness

-----------------------------------------------------------------------------
(* Properties                                                              *)

\* Rows, requests and SDK calls only hold values the tables and threads know; a
\* request ends in one of the outcomes its caller can be told.
TypeOK ==
    /\ req \in [Requests -> [key : Keys, payload : Payloads]]
    /\ pc \in [Requests -> {"start", "absent"} \cup OwnerSteps \cup Outcomes]
    /\ sdk \in [Requests -> SdkStates]
    /\ accepted \subseteq Requests
    /\ hash \in [Keys -> Payloads \cup {NoPayload}]
    /\ intent \in [Keys -> RowType(Requests)]
    /\ local \in [Requests -> {"absent", "imported", "linked"}]
    /\ held \in [Requests -> SUBSET {"imported", "linked"}]
    /\ late \subseteq Requests
    /\ rpc \in {"idle", "listed", "loaded", "failed"}
    /\ todo \subseteq Keys
    /\ seen \subseteq Requests
    /\ crashes \in 0 .. MaxCrashes

Called(r) == sdk[r] # "unused"

\* However many requests arrive with one Idempotency-Key, at whatever moment,
\* and whatever becomes of the first, at most one of them ever calls the
\* broker (unique key, created flag, no automatic retry).
AtMostOneBrokerCall ==
    \A q, r \in Requests : Called(q) /\ Called(r) /\ key(q) = key(r) => q = r

\* "A broker call is made only after its child intent is durable", and it
\* carries the payload that intent was prepared with: a second payload under
\* the same key never reaches the broker.
BrokerCallHasDurableIntent ==
    \A r \in Requests : Called(r) => Exists(key(r)) /\ hash[key(r)] = req[r].payload

\* A persisted intent names an order that the broker really accepted for that
\* key and payload and that has its row in orders; and an order row never names
\* an intent that is not persisted with this very order, although requests,
\* reconciliation, order sync and the writers of stale copies all write it.  (A
\* row may lose the name again: a copy read before the link and written behind
\* it erases order_intent_id, and nothing restores it.)
PersistedIntentHasItsOrder ==
    /\ \A k \in Keys : Exists(k) /\ intent[k].state = "persisted" =>
          \E r \in accepted : /\ intent[k].ext = r
                              /\ key(r) = k /\ req[r].payload = hash[k]
                              /\ local[r] # "absent"
    /\ \A r \in Requests : local[r] = "linked" =>
          intent[key(r)].state = "persisted" /\ intent[key(r)].ext = r

\* A terminal outcome is final: no late answer, stale reconciliation read or
\* late timeout changes the state, the order id or the payload of such a row.
TerminalOutcomeIsFinal ==
    [][\A k \in Keys : Exists(k) /\ intent[k].state \in TerminalStates =>
          /\ hash'[k] = hash[k]
          /\ intent'[k].state = intent[k].state
          /\ intent'[k].ext = intent[k].ext]_vars

\* The ledger, seen as "blocked or settled" per key and with the broker's orders
\* beside it, implements the abstract promise.
Once == INSTANCE ExactlyOnceMutation WITH
    Orders <- Requests,
    payload <- hash,
    performed <- [k \in Keys |-> {r \in accepted : key(r) = k}],
    outcome <- [k \in Keys |-> IF intent[k].state \in TerminalStates
                               THEN intent[k].state ELSE "blocked"]

ImplementsExactlyOnce == Once!ESpec

\* An order that the broker accepted is never lost to the local database: by
\* its intent, by reconciliation or by order sync it gets a row in orders.
AcceptedOrderBecomesLocal ==
    \A r \in Requests : r \in accepted ~> local[r] # "absent"

\* While broker reads fail only finitely often, no account stays blocked by an
\* intent for ever: it becomes terminal, or an operator may resolve it.
EveryIntentCanBeSettled ==
    <>[][~LoadFails]_vars =>
        \A k \in Keys : Unresolved(k) ~> ~Unresolved(k) \/ NoOrderEvidenceReady(intent[k])
=============================================================================
