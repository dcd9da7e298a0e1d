------------------------ MODULE NoOrderEvidenceProofs ------------------------
(***************************************************************************)
(* For all times and any number of checks: while the evidence chain        *)
(* outlasts pause, call and held read, a no-order resolution is right.     *)
(***************************************************************************)
EXTENDS NoOrderEvidence, TLAPS

USE DEF UnresolvedStates, TerminalStates

Rows == RowType({Order})

\* What the row operations do to the state and to the length of the evidence.
LEMMA MarkFacts ==
    ASSUME NEW r \in Rows
    PROVE  /\ \A s \in {"submitting", "rejected"} :
                /\ MarkState(r, s) \in Rows
                /\ MarkState(r, s).long = r.long
                /\ MarkState(r, s).state \in {r.state, s}
           /\ ResolveNoOrder(r) \in Rows
           /\ ResolveNoOrder(r).long = r.long
           /\ ResolveNoOrder(r).state = "resolved_no_order"
BY DEF Rows, RowType, MarkState, ResolveNoOrder

\* The same for a late timeout and for a match.
LEMMA ResultFacts ==
    ASSUME NEW r \in Rows
    PROVE  /\ MarkUnknown(r, NoOrder) \in Rows
           /\ MarkUnknown(r, NoOrder).long = r.long
           /\ MarkUnknown(r, NoOrder).state \in {r.state, "unknown"}
           /\ PersistBrokerResult(r, Order) \in Rows
           /\ PersistBrokerResult(r, Order).long = r.long
           /\ PersistBrokerResult(r, Order).state \in {r.state, "persisted"}
BY DEF Rows, RowType, MarkUnknown, PersistBrokerResult

\* The same for an attempt: only a zero match makes the evidence long.
LEMMA AttemptFacts ==
    ASSUME NEW r \in Rows, NEW zeroMatch \in BOOLEAN, NEW long \in BOOLEAN
    PROVE  /\ RecordReconciliationAttempt(r, zeroMatch, long) \in Rows
           /\ RecordReconciliationAttempt(r, zeroMatch, long).long
                 => r.long \/ (zeroMatch /\ long)
           /\ RecordReconciliationAttempt(r, zeroMatch, long).state \in {r.state, "unknown"}
<1>. DEFINE more == IF r.checks < RequiredChecks THEN r.checks + 1 ELSE r.checks
            span == r.checks > 0 /\ (r.long \/ long)
            zero == [r EXCEPT !.state = "unknown", !.checks = more, !.long = span]
            none == [r EXCEPT !.state = "unknown", !.checks = 0, !.long = FALSE]
<1>1. r.checks \in 0 .. RequiredChecks /\ r.long \in BOOLEAN /\ 0 \in 0 .. RequiredChecks
  BY RequiredChecksAssumption DEF Rows, RowType
<1>2. more \in 0 .. RequiredChecks
  BY <1>1, RequiredChecksAssumption
<1>3. span \in BOOLEAN /\ (span => r.long \/ long)
  OBVIOUS
<1>4. \/ RecordReconciliationAttempt(r, zeroMatch, long) = r
      \/ zeroMatch /\ RecordReconciliationAttempt(r, zeroMatch, long) = zero
      \/ RecordReconciliationAttempt(r, zeroMatch, long) = none
  BY DEF RecordReconciliationAttempt
<1>5. none \in Rows /\ none.long = FALSE /\ none.state = "unknown"
  BY <1>1 DEF Rows, RowType
<1>. HIDE DEF more, span
<1>6. zero \in Rows /\ zero.long = span /\ zero.state = "unknown"
  BY <1>2, <1>3 DEF Rows, RowType
<1>. HIDE DEF zero, none
<1>7. CASE RecordReconciliationAttempt(r, zeroMatch, long) = r
  BY <1>7
<1>8. CASE zeroMatch /\ RecordReconciliationAttempt(r, zeroMatch, long) = zero
  BY <1>3, <1>6, <1>8
<1>9. CASE RecordReconciliationAttempt(r, zeroMatch, long) = none
  BY <1>5, <1>9
<1>. QED BY <1>4, <1>7, <1>8, <1>9

-----------------------------------------------------------------------------
(* The inductive invariant                                                 *)

\* No order exists and none can arrive any more.
Gone ==
    /\ ~accepted
    /\ pc \notin {"prepared", "submitting", "calling"}
    /\ \/ sdk \in {"unused", "finished"}
       \/ sdk = "orphan" /\ now >= callAt + Reach

\* A read after this moment sees the order, or there will be none.
LateRead(t) == t > MaxPause + Timeout /\ t >= MaxPause + Reach

WorkerInv ==
    /\ pc \in {"prepared", "submitting"} => sdk = "unused" /\ ~accepted /\ now <= MaxPause
    /\ pc = "calling" => sdk = "running" /\ now <= callAt + Timeout
    /\ pc = "answered" => accepted
    /\ pc = "refused" => Gone
    /\ callAt <= MaxPause

ReadInv ==
    rpc = "loaded" => /\ readAt <= now /\ now <= readAt + MaxHold
                      /\ saw => accepted
                      /\ ~saw /\ LateRead(readAt) => Gone

RowInv ==
    /\ row.long => Gone
    /\ row.state \in {"rejected", "resolved_no_order"} => Gone
    /\ row.state = "persisted" => accepted

EInv == TypeOK /\ WorkerInv /\ ReadInv /\ RowInv

\* At time zero nothing has been called, read or recorded.
LEMMA InitEInv == Init => EInv
<1>. SUFFICES ASSUME Init PROVE EInv
  OBVIOUS
<1>1. NewRow \in Rows /\ NewRow.long = FALSE /\ NewRow.state = "prepared"
  BY RequiredChecksAssumption DEF NewRow, Rows, RowType
<1>2. TypeOK
  <2>1. {now, first, callAt, readAt} \subseteq Nat
    BY DEF Init
  <2>2. accepted \in BOOLEAN /\ saw \in BOOLEAN
    BY DEF Init
  <2>3. row \in RowType({Order})
    BY <1>1 DEF Init, Rows
  <2>. QED BY <2>1, <2>2, <2>3, Zenon DEF Init, TypeOK
<1>. RowInv
  BY <1>1 DEF Init, RowInv
<1>3. WorkerInv /\ ReadInv
  BY TimesAssumption DEF Init, WorkerInv, ReadInv
<1>. QED BY <1>2, <1>3 DEF EInv

\* Once no order can arrive any more, none ever does.
LEMMA GoneStays == TypeOK /\ Gone /\ [Next]_vars => Gone'
<1>. SUFFICES ASSUME TypeOK, Gone, [Next]_vars PROVE Gone'
  OBVIOUS
<1>. USE DEF Gone, wvars, cvars
<1>1. CASE Tick
  BY <1>1, TimesAssumption DEF Tick, TypeOK
<1>2. CASE MarkSubmitting \/ StartCall \/ CallEnds \/ CallTimesOut
  BY <1>2, Zenon DEF MarkSubmitting, StartCall, CallEnds, CallTimesOut
<1>7. CASE BrokerAccepts
  <2>1. now \in Nat /\ callAt + Reach \in Nat
    BY TimesAssumption DEF TypeOK
  <2>. QED BY <1>7, <2>1 DEF BrokerAccepts
<1>3. CASE RecordAnswer \/ SettleRejected \/ SettleUnknown
  BY <1>3 DEF RecordAnswer, SettleRejected, SettleUnknown
<1>4. CASE LoadOrders \/ LoadFails \/ RecordZeroMatch \/ RecordMatch \/ ResolveIntentNoOrder
  <2>1. UNCHANGED <<now, pc, callAt, sdk, accepted>>
    BY <1>4 DEF LoadOrders, LoadFails, RecordZeroMatch, RecordMatch, ResolveIntentNoOrder
  <2>. QED BY <2>1
<1>5. CASE Crash
  BY <1>5 DEF Crash
<1>6. CASE UNCHANGED vars
  BY <1>6 DEF vars
<1>. QED BY <1>1, <1>2, <1>3, <1>4, <1>5, <1>6, <1>7 DEF Next

\* Types need no assumption on the times: each ledger method returns a row,
\* and every time recorded is a reading of the clock.
LEMMA StepTypes == TypeOK /\ [Next]_vars => TypeOK'
<1>. SUFFICES ASSUME TypeOK, [Next]_vars PROVE TypeOK'
  OBVIOUS
<1>. USE DEF TypeOK, Rows, wvars, cvars
<1>0. row \in Rows /\ {now, first, callAt, readAt} \subseteq Nat
  OBVIOUS
<1>1. CASE Tick
  BY <1>0, <1>1 DEF Tick
<1>2. CASE MarkSubmitting \/ SettleRejected
  BY <1>0, <1>2, MarkFacts DEF MarkSubmitting, SettleRejected
<1>3. CASE StartCall \/ BrokerAccepts \/ CallTimesOut
  BY <1>0, <1>3 DEF StartCall, BrokerAccepts, CallTimesOut
<1>4. CASE CallEnds
  BY <1>0, <1>4 DEF CallEnds
<1>5. CASE RecordAnswer \/ SettleUnknown
  BY <1>0, <1>5, ResultFacts DEF RecordAnswer, SettleUnknown
<1>6. CASE LoadOrders
  BY <1>0, <1>6 DEF LoadOrders
<1>7. CASE LoadFails
  BY <1>0, <1>7, AttemptFacts DEF LoadFails
<1>8. CASE RecordZeroMatch
  <2>. DEFINE long == now >= first + Span
  <2>1. long \in BOOLEAN /\ row' = RecordReconciliationAttempt(row, TRUE, long)
    BY <1>8 DEF RecordZeroMatch
  <2>. HIDE DEF long
  <2>2. row' \in Rows
    BY <1>0, <2>1, AttemptFacts
  <2>. QED BY <1>0, <1>8, <2>2 DEF RecordZeroMatch
<1>9. CASE RecordMatch
  BY <1>0, <1>9, ResultFacts DEF RecordMatch
<1>10. CASE ResolveIntentNoOrder
  BY <1>0, <1>10, MarkFacts DEF ResolveIntentNoOrder
<1>11. CASE Crash
  BY <1>0, <1>11 DEF Crash
<1>12. CASE UNCHANGED vars
  BY <1>0, <1>12 DEF vars
<1>. QED BY <1>1, <1>2, <1>3, <1>4, <1>5, <1>6, <1>7, <1>8, <1>9, <1>10, <1>11, <1>12 DEF Next

\* Row, thread, call and reconciler keep their types, whatever the times are.
THEOREM TypeCorrect == Spec => []TypeOK
<1>1. Init => TypeOK
  BY InitEInv DEF EInv
<1>2. TypeOK /\ [Next]_vars => TypeOK'
  BY StepTypes
<1>3. QED  BY <1>1, <1>2, PTL DEF Spec

\* The inductive invariant survives every step while the evidence outlasts
\* pause, call and held read.
LEMMA StepEInv == EvidenceOutlasts /\ EInv /\ [Next]_vars => EInv'
<1>. SUFFICES ASSUME EvidenceOutlasts, EInv, [Next]_vars PROVE EInv'
  OBVIOUS
<1>. USE DEF EInv, TypeOK, WorkerInv, ReadInv, RowInv, Rows, wvars, cvars
<1>0. row \in Rows /\ (Gone => Gone')
  BY GoneStays
<1>1. CASE Tick
  BY <1>0, <1>1, TimesAssumption DEF Tick
<1>2. CASE MarkSubmitting
  BY <1>0, <1>2, MarkFacts DEF MarkSubmitting
<1>3. CASE StartCall
  BY <1>0, <1>3, TimesAssumption DEF StartCall
<1>4. CASE BrokerAccepts
  BY <1>0, <1>4 DEF BrokerAccepts
<1>5. CASE CallEnds
  <2>1. pc' = "refused" => Gone'
    BY <1>0, <1>5 DEF CallEnds, Gone
  <2>. QED BY <1>0, <1>5, <2>1 DEF CallEnds
<1>6. CASE CallTimesOut
  BY <1>0, <1>6 DEF CallTimesOut
<1>7. CASE RecordAnswer
  <2>1. row' \in {row, PersistBrokerResult(row, Order)} /\ accepted /\ pc' \in {"unsure", "ok"}
    BY <1>7 DEF RecordAnswer
  <2>2. /\ row' \in Rows /\ (row'.long => row.long)
        /\ row'.state \in {row.state, "persisted"}
    BY <1>0, <2>1, ResultFacts
  <2>. QED BY <1>0, <1>7, <2>1, <2>2 DEF RecordAnswer
<1>8. CASE SettleRejected
  BY <1>0, <1>8, MarkFacts DEF SettleRejected
<1>9. CASE SettleUnknown
  <2>1. /\ row' \in Rows /\ (row'.long => row.long)
        /\ row'.state \in {row.state, "unknown"}
    BY <1>0, <1>9, ResultFacts DEF SettleUnknown
  <2>. QED BY <1>0, <1>9, <2>1 DEF SettleUnknown
<1>10. CASE LoadOrders
  <2>1. ~accepted /\ LateRead(now) => Gone
    BY <1>10, TimesAssumption DEF LoadOrders, Quarantined, LateRead, Gone
  <2>2. /\ now' = now /\ readAt' = now /\ saw' = accepted /\ accepted' = accepted
        /\ LateRead(readAt)' => LateRead(now)
    BY <1>10 DEF LoadOrders, LateRead
  <2>. QED BY <1>0, <1>10, <2>1, <2>2, TimesAssumption DEF LoadOrders
<1>11. CASE LoadFails
  <2>1. /\ row' \in Rows /\ (row'.long => row.long)
        /\ row'.state \in {row.state, "unknown"}
    BY <1>0, <1>11, AttemptFacts DEF LoadFails
  <2>2. now' = now /\ accepted' = accepted /\ UNCHANGED <<wvars, cvars>>
    BY <1>11 DEF LoadFails
  <2>3. Gone' = Gone
    BY <2>2 DEF Gone
  <2>4. WorkerInv'
    BY <1>0, <2>2, <2>3 DEF wvars
  <2>5. ReadInv'
    BY <1>0, <2>2, <2>3 DEF cvars, LateRead
  <2>6. RowInv'
    BY <1>0, <2>1, <2>2, <2>3
  <2>7. TypeOK'
    BY StepTypes
  <2>. QED BY <2>4, <2>5, <2>6, <2>7
<1>12. CASE RecordZeroMatch
  <2>1. now >= first + Span => Gone
    <3>. SUFFICES ASSUME now >= first + Span PROVE Gone
      OBVIOUS
    <3>1. rpc = "loaded" /\ ~saw /\ now <= readAt + MaxHold
      BY <1>12 DEF RecordZeroMatch
    <3>2. LateRead(readAt)
      BY <3>1, TimesAssumption DEF EvidenceOutlasts, LateRead
    <3>. QED BY <3>1, <3>2
  <2>. DEFINE long == now >= first + Span
  <2>2. long \in BOOLEAN /\ row' = RecordReconciliationAttempt(row, TRUE, long)
    BY <1>12 DEF RecordZeroMatch
  <2>. HIDE DEF long
  <2>3. /\ row' \in Rows /\ (row'.long => row.long \/ long)
        /\ row'.state \in {row.state, "unknown"}
    BY <1>0, <2>2, AttemptFacts
  <2>. USE DEF long
  <2>. QED BY <1>0, <1>12, <2>1, <2>2, <2>3 DEF RecordZeroMatch
<1>13. CASE RecordMatch
  <2>1. row' \in {row, PersistBrokerResult(row, Order)} /\ accepted
    BY <1>13 DEF RecordMatch
  <2>2. /\ row' \in Rows /\ (row'.long => row.long)
        /\ row'.state \in {row.state, "persisted"}
    BY <1>0, <2>1, ResultFacts
  <2>. QED BY <1>0, <1>13, <2>1, <2>2 DEF RecordMatch
<1>14. CASE ResolveIntentNoOrder
  <2>1. row.long /\ row' = ResolveNoOrder(row)
    BY <1>14 DEF ResolveIntentNoOrder, NoOrderEvidenceReady
  <2>. QED BY <1>0, <1>14, <2>1, MarkFacts DEF ResolveIntentNoOrder, LateRead
<1>15. CASE Crash
  BY <1>0, <1>15 DEF Crash
<1>16. CASE UNCHANGED vars
  BY <1>0, <1>16 DEF vars, LateRead
<1>. QED BY <1>1, <1>2, <1>3, <1>4, <1>5, <1>6, <1>7, <1>8, <1>9, <1>10, <1>11, <1>12,
            <1>13, <1>14, <1>15, <1>16 DEF Next

\* The inductive invariant holds in every behaviour.
LEMMA SpecEInv == ASSUME EvidenceOutlasts PROVE Spec => []EInv
BY InitEInv, StepEInv, PTL DEF Spec

\* With evidence that outlasts the call, an intent closed without an order has
\* no order at the broker, now or later.
THEOREM ResolutionIsRight == ASSUME EvidenceOutlasts PROVE Spec => []NoOrderMeansNoOrder
<1>1. EInv => NoOrderMeansNoOrder
  BY DEF EInv, RowInv, Gone, NoOrderMeansNoOrder
<1>. QED BY <1>1, SpecEInv, PTL

\* Under the same condition no thread calls the broker for a closed intent.
THEOREM CallsAreForOpenIntents == ASSUME EvidenceOutlasts PROVE Spec => CallOnlyForOpenIntent
<1>1. EInv => [StartCall => row.state \in UnresolvedStates]_vars
  BY DEF EInv, RowInv, WorkerInv, Gone, StartCall, TypeOK, RowType
<1>. QED BY <1>1, SpecEInv, PTL DEF Spec, CallOnlyForOpenIntent

-----------------------------------------------------------------------------
(* The refinement                                                          *)

\* What the account sees of the row.
Verdict(r) == IF r.state \in TerminalStates THEN r.state ELSE "blocked"

\* No row operation changes a verdict, and only three of them give one.
LEMMA Verdicts ==
    ASSUME NEW r \in Rows
    PROVE  /\ Verdict(MarkState(r, "submitting")) = Verdict(r)
           /\ Verdict(MarkUnknown(r, NoOrder)) = Verdict(r)
           /\ \A zeroMatch, long \in BOOLEAN :
                Verdict(RecordReconciliationAttempt(r, zeroMatch, long)) = Verdict(r)
           /\ Verdict(MarkState(r, "rejected"))
                = IF Verdict(r) = "blocked" THEN "rejected" ELSE Verdict(r)
           /\ Verdict(PersistBrokerResult(r, Order))
                = IF Verdict(r) = "blocked" THEN "persisted" ELSE Verdict(r)
           /\ NoOrderEvidenceReady(r) =>
                /\ Verdict(r) = "blocked"
                /\ Verdict(ResolveNoOrder(r)) = "resolved_no_order"
<1>1. /\ Verdict(MarkState(r, "submitting")) = Verdict(r)
      /\ Verdict(MarkUnknown(r, NoOrder)) = Verdict(r)
  BY DEF Verdict, MarkState, MarkUnknown, Rows, RowType
<1>2. ASSUME NEW zeroMatch \in BOOLEAN, NEW long \in BOOLEAN
      PROVE  Verdict(RecordReconciliationAttempt(r, zeroMatch, long)) = Verdict(r)
  BY DEF Verdict, RecordReconciliationAttempt, Rows, RowType
<1>3. Verdict(MarkState(r, "rejected"))
        = IF Verdict(r) = "blocked" THEN "rejected" ELSE Verdict(r)
  BY DEF Verdict, MarkState, Rows, RowType
<1>4. Verdict(PersistBrokerResult(r, Order))
        = IF Verdict(r) = "blocked" THEN "persisted" ELSE Verdict(r)
  BY DEF Verdict, PersistBrokerResult, Rows, RowType
<1>5. NoOrderEvidenceReady(r) => /\ Verdict(r) = "blocked"
                                 /\ Verdict(ResolveNoOrder(r)) = "resolved_no_order"
  BY DEF Verdict, NoOrderEvidenceReady, NoOrderResolutionStates, ResolveNoOrder, Rows, RowType
<1>. QED BY <1>1, <1>2, <1>3, <1>4, <1>5

\* A step performs the mutation, settles it by what the broker has, or shows
\* nothing of either.
LEMMA StepSettles == EInv /\ EInv' /\ [Next]_vars => [Settled!MNext]_(Settled!mvars)
<1>. SUFFICES ASSUME EInv, EInv', [Next]_vars PROVE [Settled!MNext]_(Settled!mvars)
  OBVIOUS
<1>0. row \in Rows /\ accepted \in BOOLEAN
  BY DEF EInv, TypeOK, Rows
<1>1. ASSUME Verdict(row') = Verdict(row), accepted' = accepted
      PROVE  [Settled!MNext]_(Settled!mvars)
  BY <1>1 DEF Settled!mvars, Verdict
<1>2. ASSUME NEW final \in Settled!FinalOutcomes, accepted' = accepted,
             Verdict(row') = IF Verdict(row) = "blocked" THEN final ELSE Verdict(row),
             final = "persisted" <=> accepted
      PROVE  [Settled!MNext]_(Settled!mvars)
  <2>1. CASE Verdict(row) # "blocked"
    BY <1>1, <1>2, <2>1
  <2>2. CASE Verdict(row) = "blocked"
    <3>1. Settled!Settle(final)
      BY <1>2, <2>2 DEF Settled!Settle, Verdict
    <3>. QED BY <3>1 DEF Settled!MNext
  <2>. QED BY <2>1, <2>2
<1>3. {"persisted", "rejected", "resolved_no_order"} = Settled!FinalOutcomes
  BY DEF Settled!FinalOutcomes
<1>4. CASE Tick \/ StartCall \/ CallEnds \/ CallTimesOut \/ LoadOrders \/ Crash \/ UNCHANGED vars
  <2>1. row' = row /\ accepted' = accepted
    BY <1>4 DEF Tick, StartCall, CallEnds, CallTimesOut, LoadOrders, Crash, vars, wvars, cvars
  <2>. QED BY <1>1, <2>1
<1>5. CASE MarkSubmitting \/ SettleUnknown
  BY <1>0, <1>1, <1>5, Verdicts DEF MarkSubmitting, SettleUnknown
<1>6. CASE BrokerAccepts
  <2>1. ~accepted /\ accepted' = TRUE /\ row' = row
    BY <1>6 DEF BrokerAccepts
  <2>2. Verdict(row) = "blocked"
    BY <1>0, <2>1 DEF EInv, RowInv, Gone, Verdict, Rows, RowType
  <2>3. Settled!Perform
    BY <1>0, <2>1, <2>2 DEF Settled!Perform, Verdict
  <2>. QED BY <2>3 DEF Settled!MNext
<1>7. CASE RecordAnswer
  <2>1. accepted /\ accepted' = accepted
    BY <1>7 DEF RecordAnswer, EInv, WorkerInv
  <2>2. row' = row \/ row' = PersistBrokerResult(row, Order)
    BY <1>7 DEF RecordAnswer
  <2>. QED BY <1>0, <1>1, <1>2, <1>3, <2>1, <2>2, Verdicts
<1>8. CASE SettleRejected
  <2>1. ~accepted /\ accepted' = accepted /\ row' = MarkState(row, "rejected")
    BY <1>8 DEF SettleRejected, EInv, WorkerInv, Gone
  <2>. QED BY <1>0, <1>2, <1>3, <2>1, Verdicts
<1>9. CASE LoadFails
  BY <1>0, <1>1, <1>9, Verdicts DEF LoadFails
<1>10. CASE RecordZeroMatch
  <2>. DEFINE long == now >= first + Span
  <2>1. row' = RecordReconciliationAttempt(row, TRUE, long) /\ accepted' = accepted
    BY <1>10 DEF RecordZeroMatch
  <2>2. long \in BOOLEAN
    OBVIOUS
  <2>. HIDE DEF long
  <2>. QED BY <1>0, <1>1, <2>1, <2>2, Verdicts
<1>11. CASE RecordMatch
  <2>1. accepted /\ accepted' = accepted
    BY <1>11 DEF RecordMatch, EInv, ReadInv
  <2>2. row' = row \/ row' = PersistBrokerResult(row, Order)
    BY <1>11 DEF RecordMatch
  <2>. QED BY <1>0, <1>1, <1>2, <1>3, <2>1, <2>2, Verdicts
<1>12. CASE ResolveIntentNoOrder
  <2>1. ~accepted
    BY <1>12 DEF ResolveIntentNoOrder, NoOrderEvidenceReady, EInv, RowInv, Gone
  <2>. QED BY <1>0, <1>2, <1>3, <1>12, <2>1, Verdicts DEF ResolveIntentNoOrder
<1>. QED BY <1>4, <1>5, <1>6, <1>7, <1>8, <1>9, <1>10, <1>11, <1>12 DEF Next

\* While the evidence outlasts pause, call and held read, thread, SDK call,
\* reconciler, operator and crashes settle the intent once, as persisted
\* exactly if the broker has the order, which never arrives later.
THEOREM ImplementsSettledMutation == ASSUME EvidenceOutlasts PROVE Spec => ImplementsSettled
<1>1. Init => Settled!MInit
  BY DEF Init, NewRow, Settled!MInit
<1>. QED BY <1>1, SpecEInv, StepSettles, PTL DEF Spec, ImplementsSettled, Settled!MSpec
=============================================================================
