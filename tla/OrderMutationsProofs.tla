----------------------- MODULE OrderMutationsProofs -----------------------
(***************************************************************************)
(* What the row of one order shows, for any requests, readers and fills.   *)
(* No write compares what it holds with the row, so the invariant speaks   *)
(* of every snapshot that someone holds: a final one can only have been    *)
(* read after the order ended, and then the order no longer moves.         *)
(***************************************************************************)
EXTENDS OrderMutations, TLAPS

\* A snapshot that may be old, but shows nothing that did not happen.
Faithful(s) ==
    /\ s.status \in FinalStatuses => s = Snapshot(broker)
    /\ s.executed <= broker.executed
    /\ \A r \in Replaces : s.terms = r => call[r] = "applied"

\* The snapshots somebody holds: the row, threads and the reconciler.
Held ==
    {row} \cup {request[m].held : m \in Mutations}
          \cup {reader[t].held : t \in Readers}
          \cup {entry[2] : entry \in todo}

OrderInv ==
    /\ TypeOK
    /\ \A s \in Held : Faithful(s)
    /\ \A r \in Replaces : broker.terms = r => call[r] = "applied"
    /\ \A m \in Mutations : request[m].at = "idle" => call[m] = "none"
    /\ ConfirmedIsReal

\* The order stands still or, while it works, goes on; what the broker did
\* stays done.
BrokerGoesOn ==
    /\ \/ broker' = broker
       \/ broker.status = "working" /\ broker.executed <= broker'.executed
    /\ \A m \in Mutations : call[m] = "applied" => call'[m] = "applied"

\* Whatever is held after a step was held before, was read from the broker,
\* or is the snapshot a thread has when it holds none.
HeldAfter == Held' \subseteq Held \cup {Snapshot(broker), Submitted}

-----------------------------------------------------------------------------
\* The adapter maps every broker status to one that the row knows.
LEMMA SnapshotTypes ==
    ASSUME TypeOK
    PROVE  Snapshot(broker) \in Snapshots /\ Submitted \in Snapshots
  BY OrderMutationsConstants
     DEF TypeOK, Snapshot, LocalStatus, BrokerStatuses, Snapshots, Statuses,
         Submitted, Terms

\* Threads that hold nothing and threads that just read hold typed snapshots,
\* and every write goes to the row that is written, so types are kept.
LEMMA TypesKept ==
    ASSUME TypeOK, [Next]_vars
    PROVE  TypeOK'
<1> USE SnapshotTypes DEF TypeOK
<1>1. CASE BrokerFills
  <2>1. PICK s \in {"working", "filled"} :
            broker' = [broker EXCEPT !.status = s, !.executed = @ + 1]
    BY <1>1 DEF BrokerFills
  <2>2. broker' = [status |-> s, executed |-> broker.executed + 1,
                   terms |-> broker.terms]
    BY <2>1
  <2>3. broker.executed + 1 \in 0..MaxFills
    BY <1>1, OrderMutationsConstants DEF BrokerFills
  <2>4. QED  BY <1>1, <2>2, <2>3 DEF BrokerFills, BrokerStatuses
<1>2. CASE BrokerEnds
  BY <1>2 DEF BrokerEnds, BrokerStatuses
<1>3. ASSUME NEW m \in Mutations, BrokerApplies(m)
      PROVE  TypeOK'
  BY <1>3 DEF BrokerApplies, BrokerStatuses, Calls, Terms
<1>4. ASSUME NEW m \in Mutations, RequestStep(m) \/ PersistFails(m) \/ Crash(m)
      PROVE  TypeOK'
  <2>1. request' \in [Mutations -> [at: RequestPlaces, held: Snapshots]]
    <3>1. PICK at \in RequestPlaces, s \in Snapshots :
              request' = [request EXCEPT ![m] = [at |-> at, held |-> s]]
      BY <1>4 DEF RequestStep, Submit, NotSent, Acknowledge, Unanswered,
                  Persist, PersistFails, Crash, MoveTo, RequestPlaces
    <3>2. [at |-> at, held |-> s] \in [at: RequestPlaces, held: Snapshots]
      OBVIOUS
    <3>3. QED  BY <3>1, <3>2
  <2>2. intent' \in [Mutations -> States]
    BY <1>4 DEF RequestStep, Submit, NotSent, Acknowledge, Unanswered, Persist,
                PersistFails, Crash, MarkState, PersistBrokerResult, States
  <2>3. call' \in [Mutations -> Calls]
    BY <1>4 DEF RequestStep, Submit, NotSent, Acknowledge, Unanswered, Persist,
                PersistFails, Crash, Calls
  <2>4. row' \in Snapshots /\ UNCHANGED <<broker, reader, todo, confirmed>>
    BY <1>4 DEF RequestStep, Submit, NotSent, Acknowledge, Unanswered, Persist,
                PersistFails, Crash, PersistBrokerResult
  <2>5. QED  BY <2>1, <2>2, <2>3, <2>4
<1>5. ASSUME NEW t \in Readers, ReadOrder(t) \/ MergeSnapshot(t) \/ LoseReader(t)
      PROVE  TypeOK'
  BY <1>5 DEF ReadOrder, MergeSnapshot, LoseReader, ReaderPlaces
<1>6. CASE Look
  BY <1>6 DEF Look, UnresolvedIntents
<1>7. ASSUME NEW m \in Mutations, Confirm(m)
      PROVE  TypeOK'
  BY <1>7 DEF Confirm, PersistBrokerResult, States
<1>8. ASSUME NEW m \in Mutations, RecordAttempt(m)
       PROVE  TypeOK'
  BY <1>8 DEF RecordAttempt, MarkState, States
<1>9. CASE AbortReconciliation
  BY <1>9 DEF AbortReconciliation
<1>10. CASE UNCHANGED vars
  BY <1>10 DEF vars
<1>11. QED
  BY <1>1, <1>2, <1>3, <1>4, <1>5, <1>6, <1>7, <1>8, <1>9, <1>10
     DEF Next, ReaderStep, Treat

-----------------------------------------------------------------------------
\* What the adapter shows of the order is faithful, and so is the snapshot of
\* a thread that holds none.
LEMMA ReadsAreFaithful ==
    ASSUME TypeOK, \A r \in Replaces : broker.terms = r => call[r] = "applied"
    PROVE  Faithful(Snapshot(broker)) /\ Faithful(Submitted)
<1>1. Snapshot(broker).executed = broker.executed
      /\ Snapshot(broker).terms = broker.terms
  BY DEF Snapshot
<1>2. broker.executed \in 0..MaxFills
  BY DEF TypeOK
<1>3. Faithful(Snapshot(broker))
  BY <1>1, <1>2, OrderMutationsConstants DEF Faithful
<1>4. Faithful(Submitted)
  BY <1>2, OrderMutationsConstants DEF Faithful, Submitted, FinalStatuses
<1>5. QED  BY <1>3, <1>4

\* A snapshot of a working order shows no end.
LEMMA WorkingShowsNoEnd ==
    ASSUME broker.status = "working"
    PROVE  Snapshot(broker).status \notin FinalStatuses
  BY Zenon, SMT DEF Snapshot, LocalStatus, FinalStatuses

\* A snapshot that shows the end of a canceled order shows its executions.
LEMMA CanceledShows ==
    ASSUME TypeOK, Snapshot(broker).status = "canceled"
    PROVE  broker.status = "canceled"
<1>1. Snapshot(broker).status = LocalStatus(broker)
  BY DEF Snapshot
<1>2. CASE broker.status = "withdrawn"
  <2>1. LocalStatus(broker) = "partial"
    BY <1>2 DEF LocalStatus
  <2>2. QED  BY <1>1, <2>1
<1>3. CASE broker.status = "working"
  <2>1. LocalStatus(broker) \in {"partial", "submitted"}
    BY <1>3 DEF LocalStatus
  <2>2. QED  BY <1>1, <2>1
<1>4. CASE broker.status \in {"filled", "canceled"}
  <2>1. LocalStatus(broker) = broker.status
    BY <1>4 DEF LocalStatus
  <2>2. QED  BY <1>1, <2>1
<1>5. QED  BY <1>2, <1>3, <1>4 DEF TypeOK, BrokerStatuses

\* However long a snapshot is held, it stays faithful: one that shows the end
\* was read when the order no longer moved.
LEMMA HeldStaysFaithful ==
    ASSUME TypeOK, TypeOK', BrokerGoesOn, NEW s \in Snapshots, Faithful(s)
    PROVE  Faithful(s)'
<1>1. broker.executed \in Int /\ broker'.executed \in Int /\ s.executed \in Int
  BY DEF TypeOK, Snapshots
<1>2. s.executed <= broker'.executed
  BY <1>1 DEF Faithful, BrokerGoesOn
<1>3. s.status \in FinalStatuses => s = Snapshot(broker')
  BY WorkingShowsNoEnd DEF Faithful, BrokerGoesOn
<1>4. \A r \in Replaces : s.terms = r => call'[r] = "applied"
  BY DEF Faithful, BrokerGoesOn, Mutations
<1>5. QED  BY <1>2, <1>3, <1>4 DEF Faithful

\* The broker's own steps never take back an execution, an end or an applied
\* mutation, and no thread moves the order.
LEMMA BrokerSteps ==
    ASSUME OrderInv, [Next]_vars
    PROVE  /\ BrokerGoesOn
           /\ \A r \in Replaces : broker'.terms = r => call'[r] = "applied"
           /\ \A m \in Mutations : request'[m].at = "idle" => call'[m] = "none"
<1> USE DEF OrderInv, BrokerGoesOn
<1>0. broker.executed \in Int /\ call \in [Mutations -> Calls]
      /\ request \in [Mutations -> [at: RequestPlaces, held: Snapshots]]
      /\ broker \in [status: BrokerStatuses, executed: 0..MaxFills, terms: Terms]
  BY DEF TypeOK
<1>1. CASE BrokerFills
  BY <1>0, <1>1 DEF BrokerFills
<1>2. CASE BrokerEnds
  BY <1>0, <1>2 DEF BrokerEnds
<1>3. ASSUME NEW m \in Mutations, BrokerApplies(m)
      PROVE  /\ BrokerGoesOn
             /\ \A r \in Replaces : broker'.terms = r => call'[r] = "applied"
             /\ \A n \in Mutations : request'[n].at = "idle" => call'[n] = "none"
  BY <1>0, <1>3 DEF BrokerApplies, Mutations
<1>4. ASSUME NEW m \in Mutations, RequestStep(m) \/ PersistFails(m) \/ Crash(m)
      PROVE  /\ BrokerGoesOn
             /\ \A r \in Replaces : broker'.terms = r => call'[r] = "applied"
             /\ \A n \in Mutations : request'[n].at = "idle" => call'[n] = "none"
  <2>1. broker' = broker /\ \A n \in Mutations \ {m} : call'[n] = call[n]
    BY <1>0, <1>4 DEF RequestStep, Submit, NotSent, Acknowledge, Unanswered,
                      Persist, PersistFails, Crash
  <2>2. call[m] = "applied" => call'[m] = "applied"
    BY <1>0, <1>4 DEF RequestStep, Submit, NotSent, Acknowledge, Unanswered,
                      Persist, PersistFails, Crash
  <2>3. request'[m].at # "idle"
    BY <1>0, <1>4 DEF RequestStep, Submit, NotSent, Acknowledge, Unanswered,
                      Persist, PersistFails, Crash, MoveTo
  <2>4. \A n \in Mutations \ {m} : request'[n] = request[n]
    BY <1>0, <1>4 DEF RequestStep, Submit, NotSent, Acknowledge, Unanswered,
                      Persist, PersistFails, Crash, MoveTo
  <2>5. QED  BY <2>1, <2>2, <2>3, <2>4 DEF Mutations
<1>5. ASSUME NEW t \in Readers, ReaderStep(t) \/ LoseReader(t)
      PROVE  UNCHANGED <<broker, call, request>>
  BY <1>5 DEF ReaderStep, ReadOrder, MergeSnapshot, LoseReader
<1>6. ASSUME Look \/ AbortReconciliation \/ \E m \in Mutations : Treat(m)
      PROVE  UNCHANGED <<broker, call, request>>
  BY <1>6 DEF Look, AbortReconciliation, Treat, Confirm, RecordAttempt
<1>7. QED
  BY <1>1, <1>2, <1>3, <1>4, <1>5, <1>6 DEF Next, vars

\* No step makes up a snapshot: a write hands on what its thread holds.
LEMMA HeldSteps ==
    ASSUME TypeOK, [Next]_vars
    PROVE  HeldAfter
<1> DEFINE Known == Held \cup {Snapshot(broker), Submitted}
<1>0. /\ row \in Known
      /\ \A m \in Mutations : request[m].held \in Known
      /\ \A t \in Readers : reader[t].held \in Known
      /\ \A entry \in todo : entry[2] \in Known
      /\ Snapshot(broker) \in Known /\ Submitted \in Known
  BY DEF Held
<1>t. /\ request \in [Mutations -> [at: RequestPlaces, held: Snapshots]]
      /\ reader \in [Readers -> [at: ReaderPlaces, held: Snapshots]]
  BY DEF TypeOK
<1> SUFFICES /\ row' \in Known
             /\ \A m \in Mutations : request'[m].held \in Known
             /\ \A t \in Readers : reader'[t].held \in Known
             /\ \A entry \in todo' : entry[2] \in Known
  BY DEF HeldAfter, Held
<1> HIDE DEF Known
<1>1. CASE BrokerFills \/ BrokerEnds \/ \E m \in Mutations : BrokerApplies(m)
  <2>1. UNCHANGED <<row, request, reader, todo>>
    BY <1>1 DEF BrokerFills, BrokerEnds, BrokerApplies
  <2>2. QED  BY <1>0, <2>1
<1>2. ASSUME NEW m \in Mutations, RequestStep(m) \/ PersistFails(m) \/ Crash(m)
      PROVE  /\ row' \in Known
             /\ \A n \in Mutations : request'[n].held \in Known
             /\ UNCHANGED <<reader, todo>>
  <2>1. PICK at \in RequestPlaces, s \in {Submitted, Snapshot(broker)} :
            request' = [request EXCEPT ![m] = [at |-> at, held |-> s]]
    BY <1>2 DEF RequestStep, Submit, NotSent, Acknowledge, Unanswered,
                Persist, PersistFails, Crash, MoveTo, RequestPlaces
  <2>2. \A n \in Mutations : request'[n].held \in Known
    BY <1>0, <1>t, <2>1
  <2>3. row' \in {row, request[m].held} /\ UNCHANGED <<reader, todo>>
    BY <1>2 DEF RequestStep, Submit, NotSent, Acknowledge, Unanswered, Persist,
                PersistFails, Crash, PersistBrokerResult
  <2>4. QED  BY <1>0, <2>2, <2>3
<1>3. ASSUME NEW t \in Readers, ReaderStep(t) \/ LoseReader(t)
      PROVE  /\ row' \in Known
             /\ \A u \in Readers : reader'[u].held \in Known
             /\ UNCHANGED <<request, todo>>
  BY <1>0, <1>t, <1>3 DEF ReaderStep, ReadOrder, MergeSnapshot, LoseReader
<1>4. CASE Look
  <2>1. UNCHANGED <<row, request, reader>>
        /\ todo' = UnresolvedIntents \X {Snapshot(broker)}
    BY <1>4 DEF Look
  <2>2. \A entry \in todo' : entry[2] = Snapshot(broker)
    BY <2>1
  <2>3. QED  BY <1>0, <2>1, <2>2
<1>5. ASSUME NEW m \in Mutations, Treat(m)
      PROVE  /\ row' \in Known /\ todo' \subseteq todo
             /\ UNCHANGED <<request, reader>>
  BY <1>0, <1>5 DEF Treat, Confirm, RecordAttempt, PersistBrokerResult
<1>6. CASE AbortReconciliation
  BY <1>0, <1>6 DEF AbortReconciliation
<1>7. CASE UNCHANGED vars
  BY <1>0, <1>7 DEF vars
<1>8. QED
  BY <1>0, <1>1, <1>2, <1>3, <1>4, <1>5, <1>6, <1>7 DEF Next

\* The reconciler settles what its snapshot shows: a canceled order without
\* executions, or the terms of a replacement.  Neither is ever taken back.
LEMMA ConfirmedStays ==
    ASSUME OrderInv, [Next]_vars
    PROVE  ConfirmedIsReal'
<1>1. \A m \in confirmed :
         IF m \in Cancels THEN broker'.status = "canceled" /\ broker'.executed = 0
         ELSE call'[m] = "applied"
  BY BrokerSteps DEF OrderInv, ConfirmedIsReal, BrokerGoesOn, TypeOK
<1>2. ASSUME NEW m \in Mutations, Confirm(m)
      PROVE  ConfirmedIsReal'
  <2>1. PICK entry \in todo : entry[1] = m /\ SnapshotMatchesIntent(m, entry[2])
    BY <1>2 DEF Confirm
  <2>2. UNCHANGED <<broker, call>> /\ confirmed' \subseteq confirmed \cup {m}
    BY <1>2 DEF Confirm
  <2>3. Faithful(entry[2])
    BY DEF OrderInv, Held
  <2>4. CASE m \in Cancels
    <3>1. entry[2].status = "canceled" /\ entry[2].executed = 0
      BY <2>1, <2>4 DEF SnapshotMatchesIntent
    <3>2. entry[2] = Snapshot(broker)
      BY <2>3, <3>1 DEF Faithful, FinalStatuses
    <3>3. broker.status = "canceled"
      BY <3>1, <3>2, CanceledShows DEF OrderInv
    <3>4. broker.executed = 0
      BY <3>1, <3>2 DEF Snapshot
    <3>5. QED  BY <1>1, <2>2, <2>4, <3>3, <3>4 DEF ConfirmedIsReal
  <2>5. CASE m \notin Cancels
    <3>1. m \in Replaces /\ entry[2].terms = m
      BY <2>1, <2>5 DEF SnapshotMatchesIntent, Mutations
    <3>2. call[m] = "applied"
      BY <2>3, <3>1 DEF Faithful
    <3>3. QED  BY <1>1, <2>2, <2>5, <3>2 DEF ConfirmedIsReal
  <2>6. QED  BY <2>4, <2>5
<1>3. ASSUME ~\E m \in Mutations : Confirm(m)
      PROVE  UNCHANGED confirmed
  BY <1>3 DEF Next, vars, BrokerFills, BrokerEnds, BrokerApplies, RequestStep,
     Submit, NotSent, Acknowledge, Unanswered, Persist, PersistFails, Crash,
     ReaderStep, ReadOrder, MergeSnapshot, LoseReader, Treat, RecordAttempt,
     Look, AbortReconciliation
<1>4. QED  BY <1>1, <1>2, <1>3 DEF ConfirmedIsReal

-----------------------------------------------------------------------------
\* The invariant holds of every behaviour.
LEMMA OrderInvariant == Spec => []OrderInv
<1>1. Init => OrderInv
  <2> SUFFICES ASSUME Init PROVE OrderInv
    OBVIOUS
  <2>1. TypeOK
    BY OrderMutationsConstants DEF Init, TypeOK, Submitted, Snapshots, Statuses,
       BrokerStatuses, Terms, Calls, States, RequestPlaces, ReaderPlaces
  <2>2. \A r \in Replaces : broker.terms # r
    BY OrderMutationsConstants DEF Init
  <2>3. Held \subseteq {Submitted}
    BY DEF Init, Held
  <2>4. \A s \in Held : Faithful(s)
    BY <2>1, <2>2, <2>3, ReadsAreFaithful
  <2>5. ConfirmedIsReal /\ \A m \in Mutations : call[m] = "none"
    BY DEF Init, ConfirmedIsReal
  <2>6. QED  BY <2>1, <2>2, <2>4, <2>5 DEF OrderInv
<1>2. OrderInv /\ [Next]_vars => OrderInv'
  <2> SUFFICES ASSUME OrderInv, [Next]_vars PROVE OrderInv'
    OBVIOUS
  <2>1. TypeOK /\ TypeOK'
    BY TypesKept DEF OrderInv
  <2>2. ASSUME NEW s \in Held'
        PROVE  Faithful(s)'
    <3>1. s \in Held \cup {Snapshot(broker), Submitted}
      BY <2>1, HeldSteps DEF HeldAfter
    <3>2. Faithful(s)
      BY <2>1, <3>1, ReadsAreFaithful DEF OrderInv
    <3>3. s \in Snapshots
      BY <2>1, <3>1, SnapshotTypes DEF Held, TypeOK
    <3>4. QED  BY <2>1, <3>2, <3>3, BrokerSteps, HeldStaysFaithful
  <2>3. QED  BY <2>1, <2>2, BrokerSteps, ConfirmedStays DEF OrderInv
<1>3. QED  BY <1>1, <1>2, PTL DEF Spec

\* Rows, calls, threads and what the reconciler has read keep their types:
\* the adapter maps whatever the broker says to a status that the row knows.
THEOREM TypesHold == Spec => []TypeOK
  BY OrderInvariant, PTL DEF OrderInv

\* A row with a final status shows the end the order really had, and no row
\* an execution or terms that it does not have, with any number of threads
\* that write any old snapshots over each other.
THEOREM RowsAreTruthful == Spec => []RowIsTruthful
<1>1. OrderInv => RowIsTruthful
  BY DEF OrderInv, Held, Faithful, RowIsTruthful
<1>2. QED  BY <1>1, OrderInvariant, PTL

\* A cancellation that the reconciler settled left an order without an
\* execution, a replacement was applied, with any number of mutations.
THEOREM ConfirmationsAreReal == Spec => []ConfirmedIsReal
  BY OrderInvariant, PTL DEF OrderInv
=============================================================================
