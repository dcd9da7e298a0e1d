---------------------------- MODULE IntentLedger ----------------------------
(***************************************************************************)
(* The row of the order_intents table and what each ledger operation does  *)
(* to it (repositories/sqlalchemy_trading_intent_ledger.py, together with  *)
(* the resolution policy of domain/intent_recovery.py).  The operations    *)
(* are pure: a module that holds rows in its state applies them inside an  *)
(* action, which is one committed transaction under the row's FOR UPDATE   *)
(* lock.                                                                   *)
(***************************************************************************)
EXTENDS Naturals

CONSTANTS
    NoOrder,        \* "external_order_id IS NULL"
    RequiredChecks  \* zero-match reads a no-order resolution needs (3)

ASSUME RequiredChecksAssumption == RequiredChecks \in Nat \ {0}

UnresolvedStates == {"prepared", "submitting", "broker_acknowledged", "unknown"}
TerminalStates == {"persisted", "rejected", "resolved_no_order"}
NoOrderResolutionStates == {"prepared", "submitting", "unknown"}

(***************************************************************************)
(* The evidence for "the broker has no such order" is a chain of zero-match*)
(* reads.  checks is reconciliation_attempts, cut off at RequiredChecks    *)
(* (the policy only compares it); long says whether first_reconciled_at    *)
(* and last_reconciled_at lie at least 60 seconds apart.  The recorded     *)
(* coverage starts at the oldest created_at of the reconciled intents and  *)
(* ends after they were listed, so it covers the intent exactly when       *)
(* checks > 0 and needs no field.                                          *)
(***************************************************************************)
NewRow == [state |-> "prepared", ext |-> NoOrder, checks |-> 0, long |-> FALSE]

\* Every row the table can hold when broker orders are named by the set Ids.
RowType(Ids) == [state : UnresolvedStates \cup TerminalStates,
                 ext : Ids \cup {NoOrder},
                 checks : 0 .. RequiredChecks,
                 long : BOOLEAN]

\* A state change that does not look at the row it finds.
MarkStateUnguarded(row, state) == [row EXCEPT !.state = state]

\* _mark_state for "submitting" and "rejected": a terminal row is left alone
\* and, as in the code, the caller is not told.
MarkState(row, state) ==
    IF row.state \in TerminalStates THEN row ELSE [row EXCEPT !.state = state]

\* A late timeout that reopens whatever it finds.
MarkUnknownUnguarded(row, ext) == [row EXCEPT !.state = "unknown"]

\* mark_unknown: an external id learned from the failed call is recorded too.
MarkUnknown(row, ext) ==
    IF row.state \in TerminalStates THEN row
    ELSE [row EXCEPT !.state = "unknown",
                     !.ext = IF ext = NoOrder THEN row.ext ELSE ext]

\* The condition under which mark_broker_acknowledged and
\* persist_broker_result refuse a broker result and audit it instead.
IsLateResult(row, ext) ==
    \/ row.state \in {"rejected", "resolved_no_order"}
    \/ row.state = "persisted" /\ row.ext # ext

MarkBrokerAcknowledged(row, ext) ==
    IF row.state \in TerminalStates THEN row
    ELSE [row EXCEPT !.state = "broker_acknowledged", !.ext = ext]

PersistBrokerResult(row, ext) ==
    IF row.state \in TerminalStates THEN row
    ELSE [row EXCEPT !.state = "persisted", !.ext = ext]

\* An attempt that writes first_reconciled_at anew every time.
RecordReconciliationAttemptNoSpan(row, zeroMatch, long) ==
    IF row.state \in TerminalStates THEN row
    ELSE [row EXCEPT !.state = "unknown", !.long = FALSE,
                     !.checks = IF ~zeroMatch THEN 0
                                ELSE IF @ < RequiredChecks THEN @ + 1 ELSE @]

\* record_reconciliation_attempt.  Anything but a complete zero-match read
\* clears the chain; long is the caller's reading of the clock for a chain
\* that already holds a check.
RecordReconciliationAttempt(row, zeroMatch, long) ==
    IF row.state \in TerminalStates THEN row
    ELSE IF zeroMatch
         THEN [row EXCEPT !.state = "unknown",
                          !.checks = IF @ < RequiredChecks THEN @ + 1 ELSE @,
                          !.long = row.checks > 0 /\ (row.long \/ long)]
         ELSE [row EXCEPT !.state = "unknown", !.checks = 0, !.long = FALSE]

\* A policy that counts the checks and forgets how far they lie apart.
NoOrderEvidenceReadyUnspanned(row) ==
    /\ row.ext = NoOrder
    /\ row.state \in NoOrderResolutionStates
    /\ row.checks >= RequiredChecks

\* evaluate_no_order_resolution for a paper SUBMIT intent with a standalone
\* parent.
NoOrderEvidenceReady(row) ==
    /\ row.ext = NoOrder
    /\ row.state \in NoOrderResolutionStates
    /\ row.checks >= RequiredChecks
    /\ row.long

ResolveNoOrder(row) == [row EXCEPT !.state = "resolved_no_order"]
=============================================================================
