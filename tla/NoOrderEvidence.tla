--------------------------- MODULE NoOrderEvidence ---------------------------
(***************************************************************************)
(* Is "three zero-match reads over at least 60 seconds" proof that the     *)
(* broker has no order?  One SUBMIT intent in time: the thread of          *)
(* submit_order, its SDK call, the reconciler and the operator, with the   *)
(* clock that TradingIntents leaves out.  Time is counted in ticks from    *)
(* the insert of the intent row.  There is one API process: the adapter's  *)
(* quarantine of a running call does not reach into a second one.          *)
(***************************************************************************)
EXTENDS IntentLedger

CONSTANTS
    Order,      \* the broker order the call may create
    Span,       \* reconciliation span a resolution needs (60 s)
    Timeout,    \* longbridge_request_timeout_seconds (20 s)
    Reach,      \* a request cut off from its SDK call still arrives within this
                \* time from the start of the call
    MaxPause,   \* bound: from the insert of the row to the start of the call
    MaxHold,    \* bound: from the broker read to the record of its result
    MaxTime     \* bound: the clock

ASSUME TimesAssumption ==
    /\ {Span, Timeout, Reach, MaxPause, MaxHold, MaxTime} \subseteq Nat
    /\ Order # NoOrder

\* The evidence outlasts whatever may still create the order.  With the
\* defaults, 60 s against 20 s for the call and 20 s for the history read, it
\* does while the thread reaches its call within 20 s of the insert.
EvidenceOutlasts ==
    /\ MaxPause + Timeout + MaxHold < Span
    /\ MaxPause + Reach + MaxHold <= Span

VARIABLES
    now,       \* the clock
    row,       \* the intent row
    first,     \* its first_reconciled_at
    pc,        \* the thread of submit_order
    callAt,    \* when its broker call was started
    sdk,       \* the SDK call: unused, running, cut off ("orphan"), finished
    accepted,  \* the broker has the order
    rpc,       \* the reconciler: idle, or holding what it has read ("loaded")
    readAt,    \* when it read the broker's orders
    saw        \* whether the order was among them

wvars == <<pc, callAt, sdk>>
cvars == <<rpc, readAt, saw>>
vars == <<now, row, first, wvars, accepted, cvars>>

Init ==
    /\ now = 0 /\ row = NewRow /\ first = 0
    /\ pc = "prepared" /\ callAt = 0 /\ sdk = "unused"
    /\ accepted = FALSE
    /\ rpc = "idle" /\ readAt = 0 /\ saw = FALSE

\* What is scheduled does not overrun its bound: the thread reaches its call
\* within MaxPause, a call is given up after Timeout, a read is recorded
\* within MaxHold.
Tick ==
    /\ now < MaxTime
    /\ pc \in {"prepared", "submitting"} => now < MaxPause
    /\ pc = "calling" => now < callAt + Timeout
    /\ rpc = "loaded" => now < readAt + MaxHold
    /\ now' = now + 1
    /\ UNCHANGED <<row, first, wvars, accepted, cvars>>

-----------------------------------------------------------------------------
(* submit_order                                                            *)

MarkSubmitting ==
    /\ pc = "prepared" /\ pc' = "submitting"
    /\ row' = MarkState(row, "submitting")
    /\ UNCHANGED <<now, first, callAt, sdk, accepted, cvars>>

\* The call starts whatever mark_submitting found.
StartCall ==
    /\ pc = "submitting" /\ pc' = "calling"
    /\ sdk' = "running" /\ callAt' = now
    /\ UNCHANGED <<now, row, first, accepted, cvars>>

BrokerAccepts ==
    /\ ~accepted
    /\ \/ sdk = "running"
       \/ sdk = "orphan" /\ now < callAt + Reach
    /\ accepted' = TRUE
    /\ UNCHANGED <<now, row, first, wvars, cvars>>

\* The SDK call ends: refused before anything was sent, with the accepted
\* order, or with an error, the request possibly still on its way.
CallEnds ==
    /\ sdk = "running"
    /\ \/ sdk' = "finished"
          /\ pc' = IF pc = "calling" THEN IF accepted THEN "answered" ELSE "refused" ELSE pc
       \/ sdk' \in {"finished", "orphan"}
          /\ pc' = IF pc = "calling" THEN "unsure" ELSE pc
    /\ UNCHANGED <<now, row, first, callAt, accepted, cvars>>

CallTimesOut ==
    /\ pc = "calling" /\ now >= callAt + Timeout /\ pc' = "unsure"
    /\ UNCHANGED <<now, row, first, callAt, sdk, accepted, cvars>>

\* mark_broker_acknowledged and persist_broker_result; a late result is an
\* unknown outcome.
RecordAnswer ==
    /\ pc = "answered"
    /\ IF IsLateResult(row, Order)
       THEN pc' = "unsure" /\ UNCHANGED row
       ELSE pc' = "ok" /\ row' = PersistBrokerResult(row, Order)
    /\ UNCHANGED <<now, first, callAt, sdk, accepted, cvars>>

SettleRejected ==
    /\ pc = "refused" /\ pc' = "rejected"
    /\ row' = MarkState(row, "rejected")
    /\ UNCHANGED <<now, first, callAt, sdk, accepted, cvars>>

SettleUnknown ==
    /\ pc = "unsure" /\ pc' = "unknown"
    /\ row' = MarkUnknown(row, NoOrder)
    /\ UNCHANGED <<now, first, callAt, sdk, accepted, cvars>>

-----------------------------------------------------------------------------
(* Reconciliation, operator, crash                                         *)

Quarantined == sdk = "running" /\ pc # "calling"

\* A quarantine check left out: the adapter reads while a timed-out call runs.
LoadOrdersUnguarded ==
    /\ rpc = "idle" /\ row.state \in UnresolvedStates
    /\ rpc' = "loaded" /\ readAt' = now /\ saw' = accepted
    /\ UNCHANGED <<now, row, first, wvars, accepted>>

LoadOrders ==
    /\ rpc = "idle" /\ row.state \in UnresolvedStates
    /\ ~Quarantined
    /\ rpc' = "loaded" /\ readAt' = now /\ saw' = accepted
    /\ UNCHANGED <<now, row, first, wvars, accepted>>

\* A failed or quarantined read is recorded as an incomplete check.
LoadFails ==
    /\ rpc = "idle" /\ row.state \in UnresolvedStates
    /\ row' = RecordReconciliationAttempt(row, FALSE, FALSE)
    /\ UNCHANGED <<now, first, wvars, accepted, cvars>>

\* first_reconciled_at and last_reconciled_at are the times of the records,
\* not of the reads.
RecordZeroMatch ==
    /\ rpc = "loaded" /\ ~saw /\ rpc' = "idle"
    /\ row' = RecordReconciliationAttempt(row, TRUE, now >= first + Span)
    /\ first' = IF row.checks = 0 THEN now ELSE first
    /\ UNCHANGED <<now, wvars, accepted, readAt, saw>>

RecordMatch ==
    /\ rpc = "loaded" /\ saw /\ rpc' = "idle"
    /\ row' = IF IsLateResult(row, Order) THEN row ELSE PersistBrokerResult(row, Order)
    /\ UNCHANGED <<now, first, wvars, accepted, readAt, saw>>

ResolveIntentNoOrder ==
    /\ NoOrderEvidenceReady(row)
    /\ row' = ResolveNoOrder(row)
    /\ UNCHANGED <<now, first, wvars, accepted, cvars>>

Crash ==
    /\ pc' = IF pc \in {"ok", "rejected", "unknown"} THEN pc ELSE "crashed"
    /\ sdk' = IF sdk = "running" THEN "orphan" ELSE sdk
    /\ rpc' = "idle" /\ saw' = FALSE
    /\ UNCHANGED <<now, row, first, callAt, accepted, readAt>>

Next ==
    \/ Tick
    \/ MarkSubmitting \/ StartCall \/ BrokerAccepts \/ CallEnds \/ CallTimesOut
    \/ RecordAnswer \/ SettleRejected \/ SettleUnknown
    \/ LoadOrders \/ LoadFails \/ RecordZeroMatch \/ RecordMatch
    \/ ResolveIntentNoOrder \/ Crash

Spec == Init /\ [][Next]_vars

-----------------------------------------------------------------------------
(* Properties                                                              *)

\* The row, the thread and the reconciler only hold values of their types.
TypeOK ==
    /\ {now, first, callAt, readAt} \subseteq Nat
    /\ row \in RowType({Order})
    /\ pc \in {"prepared", "submitting", "calling", "refused", "answered", "unsure",
               "ok", "rejected", "unknown", "crashed"}
    /\ sdk \in {"unused", "running", "orphan", "finished"}
    /\ rpc \in {"idle", "loaded"}
    /\ accepted \in BOOLEAN /\ saw \in BOOLEAN

\* An intent that the ledger closes without an order has no order at the
\* broker, at the time of the resolution or ever after: the evidence chain
\* outlasts every request that could still arrive.
NoOrderMeansNoOrder ==
    row.state \in {"rejected", "resolved_no_order"} => ~accepted

\* The broker is called only for an intent that still blocks its account.
CallOnlyForOpenIntent == [][StartCall => row.state \in UnresolvedStates]_vars

Settled == INSTANCE SettledMutation WITH
    outcome <- IF row.state \in TerminalStates THEN row.state ELSE "blocked",
    performed <- accepted

\* Late answers, late timeouts, a stale read, the operator and a crash settle
\* the intent once and for good, as persisted exactly if the broker has the
\* order, and no order arrives behind that.
ImplementsSettled == Settled!MSpec
=============================================================================
