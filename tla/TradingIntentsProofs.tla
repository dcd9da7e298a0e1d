------------------------ MODULE TradingIntentsProofs ------------------------
(***************************************************************************)
(* Theorems of TradingIntents for any sets of requests, keys and payloads, *)
(* any number of required zero-match checks and any number of crashes.     *)
(***************************************************************************)
EXTENDS TradingIntents, TLAPS

USE DEF OwnerSteps, Outcomes, SdkStates, UnresolvedStates, TerminalStates,
        NoOrderResolutionStates, key, Exists, Goto, Update

-----------------------------------------------------------------------------
(* What the row operators of IntentLedger return                           *)

\* Every ledger operation returns a row that the table can hold.
LEMMA LedgerRowTypes ==
    ASSUME NEW Ids, NEW row \in RowType(Ids), NEW ext \in Ids \cup {NoOrder},
           NEW zeroMatch \in BOOLEAN, NEW long \in BOOLEAN
    PROVE  /\ NewRow \in RowType(Ids)
           /\ MarkState(row, "submitting") \in RowType(Ids)
           /\ MarkState(row, "rejected") \in RowType(Ids)
           /\ MarkUnknown(row, ext) \in RowType(Ids)
           /\ MarkBrokerAcknowledged(row, ext) \in RowType(Ids)
           /\ PersistBrokerResult(row, ext) \in RowType(Ids)
           /\ RecordReconciliationAttempt(row, zeroMatch, long) \in RowType(Ids)
           /\ ResolveNoOrder(row) \in RowType(Ids)
<1>1. NewRow \in RowType(Ids)
  BY RequiredChecksAssumption DEF NewRow, RowType
<1>2. /\ MarkState(row, "submitting") \in RowType(Ids)
      /\ MarkState(row, "rejected") \in RowType(Ids)
      /\ MarkUnknown(row, ext) \in RowType(Ids)
  BY DEF RowType, MarkState, MarkUnknown
<1>3. /\ MarkBrokerAcknowledged(row, ext) \in RowType(Ids)
      /\ PersistBrokerResult(row, ext) \in RowType(Ids)
      /\ ResolveNoOrder(row) \in RowType(Ids)
  BY DEF RowType, MarkBrokerAcknowledged, PersistBrokerResult, ResolveNoOrder
<1>4. RecordReconciliationAttempt(row, zeroMatch, long) \in RowType(Ids)
  <2>. DEFINE more == IF row.checks < RequiredChecks THEN row.checks + 1 ELSE row.checks
              span == row.checks > 0 /\ (row.long \/ long)
  <2>1. row.checks \in 0 .. RequiredChecks
    BY DEF RowType
  <2>2. more \in 0 .. RequiredChecks
    BY <2>1, RequiredChecksAssumption
  <2>3. span \in BOOLEAN
    OBVIOUS
  <2>4. RecordReconciliationAttempt(row, zeroMatch, long) \in
          {row,
           [row EXCEPT !.state = "unknown", !.checks = more, !.long = span],
           [row EXCEPT !.state = "unknown", !.checks = 0, !.long = FALSE]}
    BY DEF RecordReconciliationAttempt
  <2>. HIDE DEF more, span
  <2>5. [row EXCEPT !.state = "unknown", !.checks = more, !.long = span] \in RowType(Ids)
    BY <2>2, <2>3 DEF RowType
  <2>6. [row EXCEPT !.state = "unknown", !.checks = 0, !.long = FALSE] \in RowType(Ids)
    <3>1. 0 \in 0 .. RequiredChecks
      BY RequiredChecksAssumption
    <3>. QED BY <3>1 DEF RowType
  <2>. QED BY <2>4, <2>5, <2>6
<1>. QED BY <1>1, <1>2, <1>3, <1>4

\* No ledger operation moves a terminal row to another state or order, and an
\* operator's resolution is only open for a row that is not terminal.
LEMMA TerminalRowsStay ==
    ASSUME NEW Ids, NEW row \in RowType(Ids), row.state \in TerminalStates,
           NEW ext, NEW zeroMatch, NEW long
    PROVE  /\ MarkState(row, "submitting") = row
           /\ MarkState(row, "rejected") = row
           /\ MarkUnknown(row, ext) = row
           /\ MarkBrokerAcknowledged(row, ext) = row
           /\ PersistBrokerResult(row, ext) = row
           /\ RecordReconciliationAttempt(row, zeroMatch, long) = row
           /\ ~NoOrderEvidenceReady(row)
BY DEF MarkState, MarkUnknown, MarkBrokerAcknowledged, PersistBrokerResult,
       RecordReconciliationAttempt, NoOrderEvidenceReady

-----------------------------------------------------------------------------
(* Type correctness                                                        *)

\* The initial state, an empty table, is well typed.
LEMMA InitTypeOK == Init => TypeOK
<1>. SUFFICES ASSUME Init PROVE TypeOK
  OBVIOUS
<1>1. NewRow \in RowType(Requests)
  BY RequiredChecksAssumption DEF NewRow, RowType
<1>2. crashes \in 0 .. MaxCrashes
  BY MaxCrashesAssumption DEF Init
<1>. QED BY <1>1, <1>2 DEF Init, TypeOK

\* Every step writes values that the columns can hold.
LEMMA StepTypeOK == TypeOK /\ [Next]_vars => TypeOK'
<1>. SUFFICES ASSUME TypeOK, [Next]_vars PROVE TypeOK'
  OBVIOUS
<1>. USE DEF TypeOK
<1>1. ASSUME NEW r \in Requests, RequestStep(r) PROVE TypeOK'
  <2>. DEFINE row == intent[key(r)]
  <2>a. key(r) \in Keys /\ row \in RowType(Requests) /\ req[r].payload \in Payloads
    OBVIOUS
  <2>b. ReplayOutcome(r) \in Outcomes
    BY DEF ReplayOutcome
  <2>c. /\ NewRow \in RowType(Requests)
        /\ MarkState(row, "submitting") \in RowType(Requests)
        /\ MarkState(row, "rejected") \in RowType(Requests)
        /\ MarkBrokerAcknowledged(row, r) \in RowType(Requests)
        /\ PersistBrokerResult(row, r) \in RowType(Requests)
        /\ MarkUnknown(row, r) \in RowType(Requests)
        /\ MarkUnknown(row, NoOrder) \in RowType(Requests)
    BY <2>a, LedgerRowTypes
  <2>1. CASE FindIntent(r)
    BY <2>1, <2>a, <2>b, <2>c DEF FindIntent, rvars
  <2>2. CASE InsertIntent(r)
    <3>1. /\ UNCHANGED <<req, sdk, accepted, local, held, late, rvars, crashes>>
          /\ \E step \in {ReplayOutcome(r), "prepared"} : Goto(r, step)
          /\ hash' \in {hash, [hash EXCEPT ![key(r)] = req[r].payload]}
          /\ intent' \in {intent, [intent EXCEPT ![key(r)] = NewRow]}
      BY <2>2 DEF InsertIntent
    <3>2. pc' \in [Requests -> {"start", "absent"} \cup OwnerSteps \cup Outcomes]
      BY <3>1, <2>b
    <3>3. hash' \in [Keys -> Payloads \cup {NoPayload}]
      BY <3>1, <2>a
    <3>4. intent' \in [Keys -> RowType(Requests)]
      BY <3>1, <2>c
    <3>. QED BY <3>1, <3>2, <3>3, <3>4 DEF rvars
  <2>3. CASE MarkSubmitting(r)
    BY <2>3, <2>a, <2>b, <2>c DEF MarkSubmitting, rvars
  <2>4. CASE StartCall(r)
    BY <2>4 DEF StartCall, rvars
  <2>5. CASE CallNotStarted(r)
    BY <2>5 DEF CallNotStarted, rvars
  <2>6. CASE CallTimesOut(r)
    BY <2>6 DEF CallTimesOut, rvars
  <2>7. CASE Acknowledge(r)
    BY <2>7, <2>a, <2>b, <2>c DEF Acknowledge, rvars
  <2>8. CASE Persist(r)
    <3>1. /\ UNCHANGED <<req, sdk, accepted, hash, held, rvars, crashes>>
          /\ intent' \in {intent, [intent EXCEPT ![key(r)] = PersistBrokerResult(row, r)]}
          /\ local' \in {local, [local EXCEPT ![r] = "linked"]}
          /\ late' \in {late, late \cup {r}}
          /\ \E step \in {"ok", "unsure"} : Goto(r, step)
      BY <2>8 DEF Persist
    <3>2. intent' \in [Keys -> RowType(Requests)]
      BY <3>1, <2>a, <2>c
    <3>3. pc' \in [Requests -> {"start", "absent"} \cup OwnerSteps \cup Outcomes]
      BY <3>1
    <3>4. local' \in [Requests -> {"absent", "imported", "linked"}] /\ late' \subseteq Requests
      BY <3>1
    <3>. QED BY <3>1, <3>2, <3>3, <3>4 DEF rvars
  <2>9. CASE SettleUnknown(r)
    BY <2>9, <2>a, <2>b, <2>c DEF SettleUnknown, rvars
  <2>10. CASE SettleRejected(r)
    BY <2>10, <2>a, <2>b, <2>c DEF SettleRejected, rvars
  <2>11. CASE LedgerFails(r)
    BY <2>11 DEF LedgerFails, rvars
  <2>. QED BY <1>1, <2>1, <2>2, <2>3, <2>4, <2>5, <2>6, <2>7, <2>8, <2>9, <2>10, <2>11
           DEF RequestStep
<1>2. ASSUME NEW r \in Requests, BrokerAccepts(r) \/ CallEnds(r) \/ OrderRowStep(r)
      PROVE TypeOK'
  <2>1. CASE BrokerAccepts(r) \/ CallEnds(r)
    BY <2>1 DEF BrokerAccepts, CallEnds, CallFails, CallReturns, rvars
  <2>2. CASE ImportOrder(r)
    BY <2>2 DEF ImportOrder, rvars
  <2>3. CASE ReadOrder(r)
    <3>1. local[r] \in {"imported", "linked"}
      BY <2>3 DEF ReadOrder
    <3>2. held' \in [Requests -> SUBSET {"imported", "linked"}]
      BY <2>3, <3>1 DEF ReadOrder
    <3>. QED BY <2>3, <3>2 DEF ReadOrder, rvars
  <2>4. CASE MergeRemoteSnapshot(r)
    BY <2>4 DEF MergeRemoteSnapshot, rvars
  <2>. QED BY <1>2, <2>1, <2>2, <2>3, <2>4 DEF OrderRowStep
<1>3. ASSUME ListUnresolved \/ LoadOrders \/ LoadFails PROVE TypeOK'
  BY <1>3 DEF ListUnresolved, LoadOrders, LoadFails, rvars
<1>4. ASSUME NEW k \in Keys, ReconcileIntent(k) PROVE TypeOK'
  <2>1. PICK zeroMatch \in BOOLEAN, long \in BOOLEAN, r \in Requests \cup {NoOrder} :
          /\ intent' \in {intent,
                [intent EXCEPT ![k] = RecordReconciliationAttempt(intent[k], zeroMatch, long)],
                [intent EXCEPT ![k] = PersistBrokerResult(intent[k], r)]}
          /\ local' \in [Requests -> {"absent", "imported", "linked"}]
          /\ late' \subseteq Requests
    <3>1. CASE ReconcileInconclusive(k) \/ ReconcilePersistFails(k)
      BY <3>1 DEF ReconcileInconclusive, ReconcilePersistFails, rvars
    <3>2. CASE \E long \in BOOLEAN : ReconcileZeroMatch(k, long)
      BY <3>2 DEF ReconcileZeroMatch, rvars
    <3>3. CASE ReconcilePersist(k)
      <4>1. PICK r \in Requests :
              \/ late' \in {late, late \cup {r}} /\ UNCHANGED <<intent, local>>
              \/ /\ Update(k, PersistBrokerResult(intent[k], r))
                 /\ local' = [local EXCEPT ![r] = "linked"]
                 /\ UNCHANGED late
        BY <3>3 DEF ReconcilePersist, Matches
      <4>2. local' \in [Requests -> {"absent", "imported", "linked"}] /\ late' \subseteq Requests
        BY <4>1
      <4>3. intent' \in {intent, [intent EXCEPT ![k] = PersistBrokerResult(intent[k], r)]}
        BY <4>1 DEF Update
      <4>. WITNESS TRUE \in BOOLEAN, TRUE \in BOOLEAN, r \in Requests \cup {NoOrder}
      <4>. QED BY <4>2, <4>3
    <3>4. \/ ReconcileInconclusive(k) \/ ReconcilePersistFails(k)
          \/ \E long \in BOOLEAN : ReconcileZeroMatch(k, long)
          \/ ReconcilePersist(k)
      BY <1>4 DEF ReconcileIntent
    <3>. QED BY <3>1, <3>2, <3>3, <3>4
  <2>2. intent' \in [Keys -> RowType(Requests)]
    <3>1. intent[k] \in RowType(Requests)
      OBVIOUS
    <3>2. /\ RecordReconciliationAttempt(intent[k], zeroMatch, long) \in RowType(Requests)
          /\ PersistBrokerResult(intent[k], r) \in RowType(Requests)
      BY <3>1, LedgerRowTypes
    <3>. QED BY <2>1, <3>2
  <2>3. /\ UNCHANGED <<req, pc, sdk, accepted, hash, held, crashes>>
        /\ Treated(k)
    BY <1>4 DEF ReconcileIntent, ReconcileInconclusive, ReconcilePersistFails,
                ReconcileZeroMatch, ReconcilePersist
  <2>. QED BY <2>1, <2>2, <2>3 DEF Treated
<1>5. ASSUME NEW k \in Keys, ResolveIntentNoOrder(k) PROVE TypeOK'
  BY <1>5, LedgerRowTypes DEF ResolveIntentNoOrder, rvars
<1>6. ASSUME Crash PROVE TypeOK'
  <2>1. pc' \in [Requests -> {"start", "absent"} \cup OwnerSteps \cup Outcomes]
    BY <1>6 DEF Crash
  <2>2. sdk' \in [Requests -> SdkStates]
    BY <1>6 DEF Crash
  <2>3. crashes' \in 0 .. MaxCrashes
    BY <1>6, MaxCrashesAssumption DEF Crash
  <2>. QED BY <1>6, <2>1, <2>2, <2>3 DEF Crash
<1>7. CASE UNCHANGED vars
  BY <1>7 DEF vars, rvars
<1>. QED BY <1>1, <1>2, <1>3, <1>4, <1>5, <1>6, <1>7 DEF Next

\* Every reachable state has the types of the code's rows and enumerations.
THEOREM TypeCorrect == Spec => []TypeOK
BY InitTypeOK, StepTypeOK, PTL DEF Spec

-----------------------------------------------------------------------------
(* One owner per key                                                       *)

(***************************************************************************)
(* A request owns its key from the insert of the intent row on; the SDK    *)
(* call outlives the thread, and a crash ends the thread but not the call. *)
(* The invariant: an owner's key has a row with the owner's payload, two   *)
(* owners have two keys, and what only an owner may have, only owners have.*)
(***************************************************************************)
Owner(r) == pc[r] \in OwnerSteps \/ Called(r)

OwnerInv ==
    /\ \A r \in Requests : Owner(r) => Exists(key(r)) /\ hash[key(r)] = req[r].payload
    /\ \A q, r \in Requests : Owner(q) /\ Owner(r) /\ key(q) = key(r) => q = r

\* No key has an owner before the first insert.
LEMMA InitOwnerInv == Init => OwnerInv
BY DEF Init, OwnerInv, Owner, Called

\* The insert is the only step that makes an owner or writes a payload.
LEMMA NoNewOwner ==
    ASSUME TypeOK, OwnerInv, UNCHANGED <<req, hash>>,
           \A r \in Requests : Owner(r)' => Owner(r)
    PROVE  OwnerInv'
BY DEF OwnerInv

\* No step gives a key a second owner or its owner a foreign payload.
LEMMA StepOwnerInv == TypeOK /\ OwnerInv /\ [Next]_vars => OwnerInv'
<1>. SUFFICES ASSUME TypeOK, OwnerInv, [Next]_vars PROVE OwnerInv'
  OBVIOUS
<1>. USE DEF Owner, Called
<1>1. ASSUME NEW r \in Requests, InsertIntent(r) PROVE OwnerInv'
  <2>1. CASE Exists(key(r))
    <3>1. ReplayOutcome(r) \notin OwnerSteps
      BY DEF ReplayOutcome
    <3>2. /\ UNCHANGED <<req, hash, sdk>>
          /\ pc' = [pc EXCEPT ![r] = ReplayOutcome(r)]
      BY <1>1, <2>1 DEF InsertIntent
    <3>. QED BY <3>1, <3>2, NoNewOwner DEF TypeOK
  <2>2. CASE ~Exists(key(r))
    <3>1. \A q \in Requests : Owner(q) => key(q) # key(r)
      BY <2>2 DEF OwnerInv
    <3>2. /\ UNCHANGED <<req, sdk>>
          /\ pc' = [pc EXCEPT ![r] = "prepared"]
          /\ hash' = [hash EXCEPT ![key(r)] = req[r].payload]
      BY <1>1, <2>2 DEF InsertIntent
    <3>3. key(r) \in Keys /\ req[r].payload \in Payloads /\ req[r].payload # NoPayload
      BY NoPayloadAssumption DEF TypeOK
    <3>4. \A q \in Requests : Owner(q)' <=> Owner(q) \/ q = r
      BY <3>2 DEF TypeOK
    <3>5. \A q \in Requests : Owner(q) => hash'[key(q)] = hash[key(q)]
      BY <3>1, <3>2 DEF TypeOK
    <3>6. hash'[key(r)] = req[r].payload
      BY <3>2, <3>3 DEF TypeOK
    <3>. QED BY <3>1, <3>2, <3>3, <3>4, <3>5, <3>6 DEF OwnerInv
  <2>. QED BY <2>1, <2>2
<1>2. ASSUME NEW r \in Requests, FindIntent(r) PROVE OwnerInv'
  <2>1. ReplayOutcome(r) \notin OwnerSteps
    BY DEF ReplayOutcome
  <2>. QED BY <1>2, <2>1, NoNewOwner DEF FindIntent, TypeOK
<1>3. ASSUME NEW r \in Requests,
             \/ MarkSubmitting(r) \/ StartCall(r) \/ CallNotStarted(r) \/ CallTimesOut(r)
             \/ Acknowledge(r) \/ Persist(r) \/ SettleUnknown(r) \/ SettleRejected(r)
             \/ LedgerFails(r)
      PROVE OwnerInv'
  <2>1. UNCHANGED <<req, hash>>
    BY <1>3 DEF MarkSubmitting, StartCall, CallNotStarted, CallTimesOut, Acknowledge,
                Persist, SettleUnknown, SettleRejected, LedgerFails
  <2>2. \A q \in Requests : q # r => pc'[q] = pc[q] /\ sdk'[q] = sdk[q]
    BY <1>3 DEF TypeOK, MarkSubmitting, StartCall, CallNotStarted, CallTimesOut,
                Acknowledge, Persist, SettleUnknown, SettleRejected, LedgerFails
  <2>3. \/ pc[r] \in OwnerSteps
        \/ pc'[r] \notin OwnerSteps /\ sdk'[r] = sdk[r]
    BY <1>3 DEF TypeOK, MarkSubmitting, StartCall, CallNotStarted, CallTimesOut,
                Acknowledge, Persist, SettleUnknown, SettleRejected, LedgerFails
  <2>. QED BY <2>1, <2>2, <2>3, NoNewOwner
<1>4. ASSUME NEW r \in Requests, BrokerAccepts(r) \/ CallEnds(r) PROVE OwnerInv'
  BY <1>4, NoNewOwner DEF TypeOK, BrokerAccepts, CallEnds, CallFails, CallReturns
<1>5. ASSUME UNCHANGED <<req, pc, sdk, hash>> PROVE OwnerInv'
  BY <1>5, NoNewOwner
<1>6. ASSUME ListUnresolved \/ LoadOrders \/ LoadFails \/ UNCHANGED vars PROVE OwnerInv'
  BY <1>5, <1>6 DEF ListUnresolved, LoadOrders, LoadFails, vars
<1>7. ASSUME NEW k \in Keys, ReconcileIntent(k) \/ ResolveIntentNoOrder(k) PROVE OwnerInv'
  BY <1>5, <1>7 DEF ReconcileIntent, ReconcileInconclusive, ReconcileZeroMatch,
                    ReconcilePersist, ReconcilePersistFails, ResolveIntentNoOrder
<1>8. ASSUME Crash PROVE OwnerInv'
  BY <1>8, NoNewOwner DEF TypeOK, Crash
<1>9. ASSUME NEW r \in Requests, OrderRowStep(r) PROVE OwnerInv'
  BY <1>5, <1>9 DEF OrderRowStep, ImportOrder, ReadOrder, MergeRemoteSnapshot
<1>. QED BY <1>1, <1>2, <1>3, <1>4, <1>6, <1>7, <1>8, <1>9 DEF Next, RequestStep

\* At most one request per Idempotency-Key ever calls the broker.
THEOREM OneBrokerCall == Spec => []AtMostOneBrokerCall
<1>1. OwnerInv => AtMostOneBrokerCall
  BY DEF OwnerInv, Owner, AtMostOneBrokerCall
<1>. QED BY <1>1, InitTypeOK, StepTypeOK, InitOwnerInv, StepOwnerInv, PTL DEF Spec

\* The broker is called only with an intent row on disk and with its payload.
THEOREM DurableIntent == Spec => []BrokerCallHasDurableIntent
<1>1. OwnerInv => BrokerCallHasDurableIntent
  BY DEF OwnerInv, Owner, BrokerCallHasDurableIntent
<1>. QED BY <1>1, InitTypeOK, StepTypeOK, InitOwnerInv, StepOwnerInv, PTL DEF Spec

-----------------------------------------------------------------------------
(* What the broker holds, and what the ledger and reconciliation know of it *)

\* An order exists only through a call that has placed it; whoever holds an
\* answer, and whatever reconciliation has read, is about such an order.
BrokerInv ==
    /\ \A r \in accepted : sdk[r] \in {"placed", "finished"}
    /\ \A r \in Requests : sdk[r] = "placed" => r \in accepted
    /\ \A r \in Requests : pc[r] \in {"answered", "acked", "unsure_id"} => r \in accepted
    /\ \A r \in Requests : pc[r] \in {"start", "absent", "prepared", "submitting"} =>
          sdk[r] = "unused"
    /\ seen \subseteq accepted

\* Reconciliation lists and treats only rows that exist.
RowInv ==
    /\ \A k \in Keys : ~Exists(k) => intent[k] = NewRow
    /\ todo \subseteq {k \in Keys : Exists(k)}

\* Answers, history reads and orders stay tied to calls that were made.
LEMMA StepBrokerInv == TypeOK /\ BrokerInv /\ [Next]_vars => BrokerInv'
<1>. SUFFICES ASSUME TypeOK, BrokerInv, [Next]_vars PROVE BrokerInv'
  OBVIOUS
<1>. USE DEF TypeOK, BrokerInv
<1>1. ASSUME NEW r \in Requests, FindIntent(r) \/ InsertIntent(r) PROVE BrokerInv'
  <2>1. ReplayOutcome(r) \in {"ok", "conflict", "rejected", "unknown"}
    BY DEF ReplayOutcome
  <2>. QED BY <1>1, <2>1 DEF FindIntent, InsertIntent, rvars
<1>2. ASSUME NEW r \in Requests,
             \/ MarkSubmitting(r) \/ StartCall(r) \/ CallNotStarted(r) \/ CallTimesOut(r)
             \/ SettleUnknown(r) \/ SettleRejected(r) \/ LedgerFails(r)
      PROVE BrokerInv'
  <2>1. CASE MarkSubmitting(r) \/ SettleUnknown(r) \/ SettleRejected(r)
    BY <2>1 DEF MarkSubmitting, SettleUnknown, SettleRejected, rvars
  <2>2. CASE StartCall(r)
    BY <2>2 DEF StartCall, rvars
  <2>3. CASE CallNotStarted(r) \/ CallTimesOut(r)
    BY <2>3 DEF CallNotStarted, CallTimesOut, rvars
  <2>4. CASE LedgerFails(r)
    BY <2>4 DEF LedgerFails, rvars
  <2>. QED BY <1>2, <2>1, <2>2, <2>3, <2>4
<1>3. ASSUME NEW r \in Requests, Acknowledge(r) PROVE BrokerInv'
  BY <1>3 DEF Acknowledge, rvars
<1>4. ASSUME NEW r \in Requests, Persist(r) PROVE BrokerInv'
  BY <1>4 DEF Persist, rvars
<1>5. ASSUME NEW r \in Requests, BrokerAccepts(r) PROVE BrokerInv'
  BY <1>5 DEF BrokerAccepts, rvars
<1>6. ASSUME NEW r \in Requests, CallEnds(r) \/ OrderRowStep(r) PROVE BrokerInv'
  <2>1. CASE CallFails(r)
    BY <2>1 DEF CallFails, rvars
  <2>2. CASE CallReturns(r)
    BY <2>2 DEF CallReturns, rvars
  <2>3. CASE OrderRowStep(r)
    BY <2>3 DEF OrderRowStep, ImportOrder, ReadOrder, MergeRemoteSnapshot, rvars
  <2>. QED BY <1>6, <2>1, <2>2, <2>3 DEF CallEnds
<1>7. ASSUME ListUnresolved \/ LoadOrders \/ LoadFails PROVE BrokerInv'
  BY <1>7 DEF ListUnresolved, LoadOrders, LoadFails
<1>8. ASSUME NEW k \in Keys, ReconcileIntent(k) \/ ResolveIntentNoOrder(k) PROVE BrokerInv'
  BY <1>8 DEF ReconcileIntent, ReconcileInconclusive, ReconcileZeroMatch, ReconcilePersist,
              ReconcilePersistFails, Treated, ResolveIntentNoOrder, rvars
<1>9. ASSUME Crash PROVE BrokerInv'
  BY <1>9 DEF Crash
<1>10. CASE UNCHANGED vars
  BY <1>10 DEF vars, rvars
<1>. QED BY <1>1, <1>2, <1>3, <1>4, <1>5, <1>6, <1>7, <1>8, <1>9, <1>10
         DEF Next, RequestStep

(***************************************************************************)
(* Seen from the tables and the broker, every step of the program opens an *)
(* intent, places an order, moves one row without persisting it, persists  *)
(* one open row together with its order, or changes none of them; no order *)
(* row disappears, and only the persisting step makes a new link: what the *)
(* others write is at most the link that the row or a held copy has.       *)
(***************************************************************************)
LinkSeen(r) == local[r] = "linked" \/ "linked" \in held[r]

Opens(r) ==
    /\ ~Exists(key(r))
    /\ hash' = [hash EXCEPT ![key(r)] = req[r].payload]
    /\ Update(key(r), NewRow)
    /\ UNCHANGED <<req, accepted, local, held>>

Places(r) ==
    /\ sdk[r] \in {"running", "orphan"}
    /\ accepted' = accepted \cup {r}
    /\ UNCHANGED <<req, hash, intent, local, held>>

Marks(k, row) ==
    /\ Exists(k)
    /\ row \in RowType(Requests)
    /\ \/ row = intent[k]
       \/ intent[k].state \notin TerminalStates /\ row.state # "persisted"
    /\ Update(k, row)
    /\ UNCHANGED <<req, hash, accepted, local, held>>

Records(r) ==
    /\ r \in accepted
    /\ hash[key(r)] = req[r].payload
    /\ intent[key(r)].state \notin TerminalStates
    /\ Update(key(r), PersistBrokerResult(intent[key(r)], r))
    /\ local' = [local EXCEPT ![r] = "linked"]
    /\ UNCHANGED <<req, hash, accepted, held>>

Keeps ==
    /\ UNCHANGED <<req, hash, intent, accepted>>
    /\ \A r \in Requests : /\ LinkSeen(r)' => LinkSeen(r)
                           /\ local[r] # "absent" => local'[r] # "absent"

\* Seen from the ledger, a step opens a row, places an order, records an
\* answer, marks an existing row, or leaves rows and orders alone.
LEMMA StepShapes ==
    ASSUME TypeOK, OwnerInv, BrokerInv, RowInv, [Next]_vars
    PROVE  \/ \E r \in Requests : Opens(r) \/ Places(r) \/ Records(r)
           \/ \E k \in Keys, row \in RowType(Requests) : Marks(k, row)
           \/ Keeps
<1>. DEFINE Shape == \/ \E r \in Requests : Opens(r) \/ Places(r) \/ Records(r)
                     \/ \E k \in Keys, row \in RowType(Requests) : Marks(k, row)
                     \/ Keeps
<1>. SUFFICES Shape
  OBVIOUS
<1>a. ASSUME NEW k \in Keys PROVE intent[k] \in RowType(Requests)
  BY DEF TypeOK
<1>1. ASSUME NEW r \in Requests, RequestStep(r) PROVE Shape
  <2>. DEFINE row == intent[key(r)]
  <2>a. key(r) \in Keys /\ row \in RowType(Requests)
    BY DEF TypeOK
  <2>b. pc[r] \in OwnerSteps => Exists(key(r)) /\ hash[key(r)] = req[r].payload
    BY DEF OwnerInv, Owner
  <2>c. /\ MarkState(row, "submitting") \in RowType(Requests)
        /\ MarkState(row, "rejected") \in RowType(Requests)
        /\ MarkBrokerAcknowledged(row, r) \in RowType(Requests)
        /\ MarkUnknown(row, r) \in RowType(Requests)
        /\ MarkUnknown(row, NoOrder) \in RowType(Requests)
    BY <2>a, LedgerRowTypes
  <2>1. CASE InsertIntent(r)
    BY <2>1 DEF InsertIntent, Opens, Keeps, LinkSeen
  <2>2. CASE MarkSubmitting(r)
    <3>1. Marks(key(r), MarkState(row, "submitting"))
      BY <2>2, <2>b, <2>c DEF MarkSubmitting, Marks, MarkState, RowType
    <3>. QED BY <3>1, <2>a, <2>c
  <2>3. CASE Acknowledge(r)
    <3>1. CASE IsLateResult(row, r)
      BY <2>3, <3>1 DEF Acknowledge, Keeps, LinkSeen
    <3>2. CASE ~IsLateResult(row, r)
      <4>1. Marks(key(r), MarkBrokerAcknowledged(row, r))
        BY <2>3, <3>2, <2>b, <2>c DEF Acknowledge, Marks, MarkBrokerAcknowledged, RowType
      <4>. QED BY <4>1, <2>a, <2>c
    <3>. QED BY <3>1, <3>2
  <2>4. CASE Persist(r)
    <3>1. CASE Keeps
      BY <3>1
    <3>2. CASE ~Keeps
      <4>1. /\ row.state \in UnresolvedStates
            /\ Update(key(r), PersistBrokerResult(row, r))
            /\ local' = [local EXCEPT ![r] = "linked"]
            /\ UNCHANGED <<req, hash, accepted, held>>
        BY <2>4, <3>2 DEF Persist, Keeps, LinkSeen
      <4>2. r \in accepted /\ hash[key(r)] = req[r].payload
        BY <2>4, <2>b DEF BrokerInv, Persist
      <4>3. row.state \notin TerminalStates
        BY <4>1
      <4>4. Records(r)
        BY <4>1, <4>2, <4>3 DEF Records
      <4>. QED BY <4>4
    <3>. QED BY <3>1, <3>2
  <2>5. CASE SettleUnknown(r)
    <3>1. PICK ext \in {r, NoOrder} : Update(key(r), MarkUnknown(row, ext))
      BY <2>5 DEF SettleUnknown
    <3>2. MarkUnknown(row, ext) \in RowType(Requests)
      BY <2>c, <3>1
    <3>3. row.state \in TerminalStates => MarkUnknown(row, ext) = row
      BY DEF MarkUnknown
    <3>4. row.state \notin TerminalStates => MarkUnknown(row, ext).state # "persisted"
      BY <2>a DEF MarkUnknown, RowType
    <3>5. Marks(key(r), MarkUnknown(row, ext))
      BY <2>5, <2>b, <3>1, <3>2, <3>3, <3>4 DEF SettleUnknown, Marks
    <3>. QED BY <3>2, <3>5, <2>a
  <2>6. CASE SettleRejected(r)
    <3>1. Marks(key(r), MarkState(row, "rejected"))
      BY <2>6, <2>b, <2>c DEF SettleRejected, Marks, MarkState, RowType
    <3>. QED BY <3>1, <2>a, <2>c
  <2>7. CASE \/ FindIntent(r) \/ StartCall(r) \/ CallNotStarted(r) \/ CallTimesOut(r)
             \/ LedgerFails(r)
    BY <2>7 DEF FindIntent, StartCall, CallNotStarted, CallTimesOut, LedgerFails, Keeps, LinkSeen
  <2>. QED BY <1>1, <2>1, <2>2, <2>3, <2>4, <2>5, <2>6, <2>7 DEF RequestStep
<1>2. ASSUME NEW r \in Requests, BrokerAccepts(r) PROVE Shape
  BY <1>2 DEF BrokerAccepts, Places
<1>3. ASSUME NEW r \in Requests, CallEnds(r) PROVE Shape
  BY <1>3 DEF CallEnds, CallFails, CallReturns, Keeps, LinkSeen
<1>4. ASSUME NEW r \in Requests, OrderRowStep(r) PROVE Shape
  <2>1. CASE ImportOrder(r)
    BY <2>1 DEF ImportOrder, Keeps, LinkSeen, TypeOK
  <2>2. CASE ReadOrder(r)
    BY <2>2 DEF ReadOrder, Keeps, LinkSeen, TypeOK
  <2>3. CASE MergeRemoteSnapshot(r)
    BY <2>3 DEF MergeRemoteSnapshot, Keeps, LinkSeen, TypeOK
  <2>. QED BY <1>4, <2>1, <2>2, <2>3 DEF OrderRowStep
<1>5. ASSUME NEW k \in Keys, ReconcileInconclusive(k) \/ ReconcilePersistFails(k)
                             \/ \E long \in BOOLEAN : ReconcileZeroMatch(k, long)
      PROVE Shape
  <2>1. PICK zeroMatch \in BOOLEAN, long \in BOOLEAN :
          /\ Update(k, RecordReconciliationAttempt(intent[k], zeroMatch, long))
          /\ k \in todo
          /\ UNCHANGED <<req, hash, accepted, local, held>>
    BY <1>5 DEF ReconcileInconclusive, ReconcilePersistFails, ReconcileZeroMatch
  <2>. DEFINE row == RecordReconciliationAttempt(intent[k], zeroMatch, long)
  <2>2. row \in RowType(Requests)
    BY <1>a, LedgerRowTypes
  <2>3. \/ row = intent[k]
        \/ intent[k].state \notin TerminalStates /\ row.state # "persisted"
    <3>1. CASE intent[k].state \in TerminalStates
      BY <3>1 DEF RecordReconciliationAttempt
    <3>2. CASE intent[k].state \notin TerminalStates
      BY <1>a, <3>2 DEF RecordReconciliationAttempt, RowType
    <3>. QED BY <3>1, <3>2
  <2>4. Marks(k, row)
    BY <2>1, <2>2, <2>3 DEF Marks, RowInv
  <2>. QED BY <2>2, <2>4
<1>6. ASSUME NEW k \in Keys, ReconcilePersist(k) PROVE Shape
  <2>1. PICK r \in Matches(k) :
          IF intent[k].state \in TerminalStates
          THEN UNCHANGED <<intent, local>>
          ELSE /\ Update(k, PersistBrokerResult(intent[k], r))
               /\ local' = [local EXCEPT ![r] = "linked"]
    BY <1>6 DEF ReconcilePersist
  <2>2. UNCHANGED <<req, hash, accepted, held>>
    BY <1>6 DEF ReconcilePersist
  <2>3. r \in Requests /\ r \in accepted /\ key(r) = k /\ req[r].payload = hash[k]
    BY <2>1 DEF Matches, BrokerInv, TypeOK
  <2>. QED BY <2>1, <2>2, <2>3 DEF Records, Keeps, LinkSeen
<1>7. ASSUME NEW k \in Keys, ResolveIntentNoOrder(k) PROVE Shape
  <2>1. ResolveNoOrder(intent[k]) \in RowType(Requests)
    BY <1>a, LedgerRowTypes
  <2>2. intent[k].state \notin TerminalStates
    BY <1>7 DEF ResolveIntentNoOrder, NoOrderEvidenceReady
  <2>3. ResolveNoOrder(intent[k]).state # "persisted"
    BY <1>a DEF ResolveNoOrder, RowType
  <2>4. Marks(k, ResolveNoOrder(intent[k]))
    BY <1>7, <2>1, <2>2, <2>3 DEF ResolveIntentNoOrder, Marks
  <2>. QED BY <2>1, <2>4
<1>8. ASSUME ListUnresolved \/ LoadOrders \/ LoadFails \/ Crash \/ UNCHANGED vars PROVE Shape
  BY <1>8 DEF ListUnresolved, LoadOrders, LoadFails, Crash, vars, Keeps, LinkSeen
<1>. HIDE DEF Shape
<1>. QED BY <1>1, <1>2, <1>3, <1>4, <1>5, <1>6, <1>7, <1>8 DEF Next, ReconcileIntent

\* The initial state satisfies the whole inductive invariant.
LEMMA InitInv == Init => OwnerInv /\ BrokerInv /\ RowInv
BY InitOwnerInv DEF Init, BrokerInv, RowInv, Owner, Called

\* Rows are never touched before their insert, and only listed if they exist.
LEMMA StepRowInv ==
    TypeOK /\ OwnerInv /\ BrokerInv /\ RowInv /\ [Next]_vars => RowInv'
<1>. SUFFICES ASSUME TypeOK, OwnerInv, BrokerInv, RowInv, [Next]_vars PROVE RowInv'
  OBVIOUS
<1>1. \A k \in Keys : (Exists(k) => Exists(k)') /\ (~Exists(k)' => intent'[k] = NewRow)
  <2>1. ASSUME NEW r \in Requests, Opens(r)
        PROVE  \A k \in Keys : (Exists(k) => Exists(k)') /\ (~Exists(k)' => intent'[k] = NewRow)
    BY <2>1, NoPayloadAssumption DEF Opens, RowInv, TypeOK
  <2>2. ASSUME \/ \E r \in Requests : Places(r) \/ Records(r)
               \/ \E k \in Keys, row \in RowType(Requests) : Marks(k, row)
               \/ Keeps
        PROVE  \A k \in Keys : (Exists(k) => Exists(k)') /\ (~Exists(k)' => intent'[k] = NewRow)
    BY <2>2, NoPayloadAssumption DEF Places, Records, Marks, Keeps, RowInv, TypeOK
  <2>. QED BY <2>1, <2>2, StepShapes
<1>2. todo' \subseteq todo \cup {k \in Keys : Unresolved(k)}
  <2>1. ASSUME NEW k \in Keys, ReconcileIntent(k) PROVE todo' \subseteq todo
    BY <2>1 DEF ReconcileIntent, ReconcileInconclusive, ReconcileZeroMatch,
                ReconcilePersist, ReconcilePersistFails, Treated
  <2>2. ASSUME ListUnresolved PROVE todo' = {k \in Keys : Unresolved(k)}
    BY <2>2 DEF ListUnresolved
  <2>3. ASSUME Crash PROVE todo' = {}
    BY <2>3 DEF Crash
  <2>4. ASSUME \/ \E r \in Requests : RequestStep(r) \/ BrokerAccepts(r) \/ CallEnds(r)
                                      \/ OrderRowStep(r)
               \/ \E k \in Keys : ResolveIntentNoOrder(k)
               \/ LoadOrders \/ LoadFails \/ UNCHANGED vars
        PROVE  todo' = todo
    BY <2>4 DEF RequestStep, FindIntent, InsertIntent, MarkSubmitting, StartCall,
                CallNotStarted, CallTimesOut, Acknowledge, Persist, SettleUnknown,
                SettleRejected, LedgerFails, BrokerAccepts, CallEnds, CallFails,
                CallReturns, OrderRowStep, ImportOrder, ReadOrder, MergeRemoteSnapshot,
                ResolveIntentNoOrder, LoadOrders, LoadFails, vars, rvars
  <2>. QED BY <2>1, <2>2, <2>3, <2>4 DEF Next
<1>. QED BY <1>1, <1>2 DEF RowInv, Unresolved

-----------------------------------------------------------------------------
(* Terminal rows, persisted orders, and the abstract promise               *)

Inv == TypeOK /\ OwnerInv /\ BrokerInv /\ RowInv

\* The inductive invariant holds in every behaviour.
LEMMA SpecInv == Spec => []Inv
<1>1. Init => Inv
  BY InitTypeOK, InitInv DEF Inv
<1>2. Inv /\ [Next]_vars => Inv'
  BY StepTypeOK, StepOwnerInv, StepBrokerInv, StepRowInv DEF Inv
<1>. QED BY <1>1, <1>2, PTL DEF Spec

\* A row that Records writes is persisted with the order that is recorded.
LEMMA RecordedRow ==
    ASSUME NEW row \in RowType(Requests), NEW r \in Requests, row.state \notin TerminalStates
    PROVE  /\ PersistBrokerResult(row, r) \in RowType(Requests)
           /\ PersistBrokerResult(row, r).state = "persisted"
           /\ PersistBrokerResult(row, r).ext = r
<1>1. PersistBrokerResult(row, r) \in RowType(Requests)
  BY LedgerRowTypes
<1>. QED BY <1>1 DEF PersistBrokerResult, RowType

\* Nothing that arrives late changes the outcome recorded in a terminal row.
THEOREM TerminalRowsAreFinal == Spec => TerminalOutcomeIsFinal
<1>. DEFINE Final(k) == Exists(k) /\ intent[k].state \in TerminalStates =>
                          /\ hash'[k] = hash[k]
                          /\ intent'[k].state = intent[k].state
                          /\ intent'[k].ext = intent[k].ext
<1>1. ASSUME Inv, [Next]_vars, NEW k \in Keys PROVE Final(k)
  <2>. USE <1>1 DEF Inv
  <2>1. ASSUME NEW r \in Requests, Opens(r) PROVE Final(k)
    BY <2>1 DEF Opens, TypeOK
  <2>2. ASSUME NEW r \in Requests, Records(r) PROVE Final(k)
    BY <2>2 DEF Records, TypeOK
  <2>3. ASSUME NEW r \in Requests, Places(r) PROVE Final(k)
    BY <2>3 DEF Places
  <2>4. ASSUME NEW l \in Keys, NEW row \in RowType(Requests), Marks(l, row) PROVE Final(k)
    BY <2>4 DEF Marks, TypeOK
  <2>5. ASSUME Keeps PROVE Final(k)
    BY <2>5 DEF Keeps
  <2>. QED BY <2>1, <2>2, <2>3, <2>4, <2>5, StepShapes
<1>2. Inv /\ [Next]_vars => [\A k \in Keys : Final(k)]_vars
  BY <1>1
<1>. QED BY <1>2, SpecInv, PTL DEF Spec, TerminalOutcomeIsFinal

(***************************************************************************)
(* PersistedIntentHasItsOrder is not inductive: a copy that carries a link *)
(* can be written at any later time.  The links in held copies obey the    *)
(* same law as the links in the rows.                                      *)
(***************************************************************************)
ForKey(k) ==
    Exists(k) /\ intent[k].state = "persisted" =>
        \E r \in accepted : /\ intent[k].ext = r
                            /\ key(r) = k /\ req[r].payload = hash[k]
                            /\ local[r] # "absent"

ForOrder(r) ==
    LinkSeen(r) => intent[key(r)].state = "persisted" /\ intent[key(r)].ext = r

LinkInv == (\A k \in Keys : ForKey(k)) /\ (\A r \in Requests : ForOrder(r))

\* Every step keeps the law of the links, whatever copy is written and when.
LEMMA StepLinkInv == Inv /\ LinkInv /\ [Next]_vars => LinkInv'
<1>. SUFFICES ASSUME Inv, LinkInv, [Next]_vars
     PROVE  (\A k \in Keys : ForKey(k)') /\ (\A r \in Requests : ForOrder(r)')
  BY DEF LinkInv
<1>. USE DEF Inv
<1>a. /\ \A k \in Keys : ForKey(k)
      /\ \A r \in Requests : ForOrder(r) /\ key(r) \in Keys
  BY DEF LinkInv, TypeOK
<1>. USE DEF ForKey, ForOrder, LinkSeen
<1>1. ASSUME NEW q \in Requests, Opens(q)
      PROVE  (\A k \in Keys : ForKey(k)') /\ (\A r \in Requests : ForOrder(r)')
  <2>1. intent[key(q)] = NewRow
    BY <1>1, <1>a DEF Opens, RowInv
  <2>2. UNCHANGED <<req, accepted, local, held, intent>>
    BY <1>1, <2>1 DEF Opens, TypeOK
  <2>3. \A k \in Keys : intent[k].state = "persisted" => k # key(q)
    BY <2>1 DEF NewRow
  <2>. QED BY <1>1, <1>a, <2>2, <2>3 DEF Opens, TypeOK
<1>2. ASSUME NEW q \in Requests, Records(q)
      PROVE  (\A k \in Keys : ForKey(k)') /\ (\A r \in Requests : ForOrder(r)')
  <2>. DEFINE row == PersistBrokerResult(intent[key(q)], q)
  <2>1. row.state = "persisted" /\ row.ext = q
    BY <1>2, RecordedRow DEF Records, TypeOK
  <2>2. /\ UNCHANGED <<req, hash, accepted, held>>
        /\ intent[key(q)].state # "persisted"
        /\ intent' = [intent EXCEPT ![key(q)] = row]
        /\ local' = [local EXCEPT ![q] = "linked"]
        /\ q \in accepted /\ hash[key(q)] = req[q].payload
    BY <1>2 DEF Records
  <2>. HIDE DEF row
  <2>3. ASSUME NEW k \in Keys PROVE ForKey(k)'
    <3>1. CASE k = key(q)
      BY <3>1, <1>a, <2>1, <2>2 DEF TypeOK
    <3>2. CASE k # key(q)
      BY <3>2, <1>a, <2>2 DEF TypeOK
    <3>. QED BY <3>1, <3>2
  <2>4. ASSUME NEW r \in Requests PROVE ForOrder(r)'
    <3>1. CASE r = q
      BY <3>1, <1>a, <2>1, <2>2 DEF TypeOK
    <3>2. CASE r # q /\ key(r) # key(q)
      BY <3>2, <1>a, <2>2 DEF TypeOK
    <3>3. CASE r # q /\ key(r) = key(q)
      \* no other order of this key has ever been linked: its row was open
      BY <3>3, <1>a, <2>2 DEF TypeOK
    <3>. QED BY <3>1, <3>2, <3>3
  <2>. QED BY <2>3, <2>4
<1>3. ASSUME NEW l \in Keys, NEW row \in RowType(Requests), Marks(l, row)
      PROVE  (\A k \in Keys : ForKey(k)') /\ (\A r \in Requests : ForOrder(r)')
  <2>1. intent[l].state = "persisted" => row = intent[l]
    BY <1>3 DEF Marks
  <2>2. row.state = "persisted" => row = intent[l]
    BY <1>3 DEF Marks
  <2>. QED BY <1>3, <1>a, <2>1, <2>2 DEF Marks, TypeOK
<1>4. ASSUME \E q \in Requests : Places(q)
      PROVE  (\A k \in Keys : ForKey(k)') /\ (\A r \in Requests : ForOrder(r)')
  BY <1>4, <1>a DEF Places
<1>5. ASSUME Keeps
      PROVE  (\A k \in Keys : ForKey(k)') /\ (\A r \in Requests : ForOrder(r)')
  BY <1>5, <1>a DEF Keeps, TypeOK
<1>. QED BY <1>1, <1>2, <1>3, <1>4, <1>5, StepShapes

\* A persisted intent always has its order, accepted for that key and payload,
\* in the orders table; and no order row ever names an intent that is not
\* persisted with it, although stale copies of the rows are written back.
THEOREM PersistedHasOrder == Spec => []PersistedIntentHasItsOrder
<1>1. Init => LinkInv
  BY DEF Init, LinkInv, ForKey, ForOrder, LinkSeen
<1>2. Inv /\ LinkInv => PersistedIntentHasItsOrder
  BY DEF LinkInv, ForKey, ForOrder, LinkSeen, PersistedIntentHasItsOrder
<1>. QED BY <1>1, <1>2, StepLinkInv, SpecInv, PTL DEF Spec

-----------------------------------------------------------------------------
(* Refinement of ExactlyOnceMutation                                       *)

\* Per key the ledger opens once, the broker performs once and the outcome
\* settles once: every step of the program is such a step or a stutter.
THEOREM LedgerImplementsExactlyOnce == Spec => ImplementsExactlyOnce
<1>. DEFINE perf == [k \in Keys |-> {r \in accepted : key(r) = k}]
            outc == [k \in Keys |-> IF intent[k].state \in TerminalStates
                                    THEN intent[k].state ELSE "blocked"]
<1>1. Init => Once!EInit
  BY DEF Init, Once!EInit, NewRow
<1>2. Inv /\ [Next]_vars => [Once!ENext]_(Once!evars)
  <2>. SUFFICES ASSUME Inv, [Next]_vars PROVE [Once!ENext]_(Once!evars)
    OBVIOUS
  <2>. USE DEF Inv
  <2>a. \A r \in Requests : key(r) \in Keys /\ intent[key(r)] \in RowType(Requests)
                            /\ req[r].payload \in Payloads
    BY DEF TypeOK
  <2>1. ASSUME NEW q \in Requests, Opens(q) PROVE Once!Open(key(q), req[q].payload)
    <3>1. intent' = intent
      BY <2>1, <2>a DEF Opens, RowInv, TypeOK
    <3>. QED BY <2>1, <3>1 DEF Opens, Once!Open
  <2>2. ASSUME NEW q \in Requests, Places(q) PROVE Once!ENext
    <3>1. q \notin accepted /\ Owner(q)
      BY <2>2 DEF Places, BrokerInv, Owner, Called
    <3>2. hash[key(q)] # NoPayload
      BY <3>1 DEF OwnerInv
    <3>3. ASSUME NEW r \in accepted, key(r) = key(q) PROVE FALSE
      <4>1. r \in Requests /\ Owner(r)
        BY DEF TypeOK, BrokerInv, Owner, Called
      <4>. QED BY <4>1, <3>1, <3>3 DEF OwnerInv
    <3>4. perf[key(q)] = {}
      BY <3>3, <2>a
    <3>5. perf' = [perf EXCEPT ![key(q)] = {q}]
      <4>1. \A k \in Keys : perf'[k] = IF k = key(q) THEN {q} ELSE perf[k]
        BY <2>2, <3>4 DEF Places
      <4>. QED BY <4>1
    <3>6. UNCHANGED <<hash, intent>>
      BY <2>2 DEF Places
    <3>7. key(q) \in Keys /\ UNCHANGED outc
      BY <2>a, <3>6
    <3>8. \E k \in Keys, o \in Requests : Once!Perform(k, o)
      <4>. HIDE DEF perf, outc, key
      <4>1. \E k \in Keys, o \in Requests :
              /\ hash[k] # NoPayload /\ perf[k] = {}
              /\ perf' = [perf EXCEPT ![k] = {o}]
              /\ UNCHANGED <<hash, outc>>
        BY <3>2, <3>4, <3>5, <3>6, <3>7
      <4>. USE DEF perf, outc, key
      <4>. QED BY <4>1 DEF Once!Perform
    <3>. QED BY <3>8 DEF Once!ENext
  <2>3. ASSUME NEW k \in Keys, NEW row \in RowType(Requests), Exists(k),
               intent' = [intent EXCEPT ![k] = row], UNCHANGED <<req, hash, accepted>>,
               intent[k].state \in TerminalStates => row = intent[k],
               row.state = "persisted" /\ row # intent[k] => perf[k] # {}
        PROVE  [Once!ENext]_(Once!evars)
    <3>1. CASE row.state \in TerminalStates /\ intent[k].state \notin TerminalStates
      <4>1. outc[k] = "blocked"
        BY <3>1
      <4>2. outc' = [outc EXCEPT ![k] = row.state]
        BY <2>3, <3>1 DEF TypeOK
      <4>3. row.state = "persisted" => perf[k] # {}
        BY <2>3, <3>1
      <4>4. Once!Settle(k, row.state)
        BY <2>3, <4>1, <4>2, <4>3 DEF Once!Settle
      <4>. QED BY <3>1, <4>4 DEF Once!ENext, Once!FinalOutcomes
    <3>2. CASE ~(row.state \in TerminalStates /\ intent[k].state \notin TerminalStates)
      <4>1. outc' = outc
        BY <2>3, <3>2 DEF TypeOK
      <4>. QED BY <2>3, <4>1 DEF Once!evars
    <3>. QED BY <3>1, <3>2
  <2>4. ASSUME NEW k \in Keys, NEW row \in RowType(Requests), Marks(k, row)
        PROVE  [Once!ENext]_(Once!evars)
    BY <2>3, <2>4 DEF Marks
  <2>5. ASSUME NEW r \in Requests, Records(r) PROVE [Once!ENext]_(Once!evars)
    <3>. DEFINE row == PersistBrokerResult(intent[key(r)], r)
    <3>1. row \in RowType(Requests) /\ intent[key(r)].state \notin TerminalStates
      BY <2>a, <2>5, RecordedRow DEF Records
    <3>2. perf[key(r)] # {}
      BY <2>a, <2>5 DEF Records
    <3>3. Exists(key(r))
      BY <2>a, <2>5, NoPayloadAssumption DEF Records
    <3>. HIDE DEF row, perf
    <3>4. intent' = [intent EXCEPT ![key(r)] = row] /\ UNCHANGED <<req, hash, accepted>>
      BY <2>5 DEF Records, row
    <3>. QED BY <2>3, <2>a, <3>1, <3>2, <3>3, <3>4
  <2>6. ASSUME Keeps PROVE UNCHANGED Once!evars
    BY <2>6 DEF Keeps, Once!evars
  <2>7. ASSUME NEW q \in Requests, Opens(q) PROVE Once!ENext
    <3>1. Once!Open(key(q), req[q].payload)
      BY <2>1, <2>7
    <3>. QED BY <3>1, <2>a DEF Once!ENext
  <2>. QED BY <2>4, <2>5, <2>6, <2>7, <2>2, StepShapes
<1>. QED BY <1>1, <1>2, SpecInv, PTL DEF Spec, ImplementsExactlyOnce, Once!ESpec
=============================================================================
