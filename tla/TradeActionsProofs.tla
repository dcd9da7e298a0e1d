------------------------- MODULE TradeActionsProofs -------------------------
(***************************************************************************)
(* What holds of composite trade actions for any number of them.  The      *)
(* inductive invariant has three layers: where a worker is and what rows   *)
(* its action can have there (PhaseInv), how children and parent agree     *)
(* (SettleInv), and, when no worker outlives its evidence, what the        *)
(* account gate relies on (GateInv).                                       *)
(***************************************************************************)
EXTENDS TradeActions, TLAPS

Row == RowType({BrokerOrder})

\* A row operator keeps the type and leaves a terminal row as it is.
RowStep(row, next) ==
    /\ next \in Row
    /\ row.state \in TerminalStates => next = row

\* What every operation the model applies to a child does to its row.
LEMMA RowOperations ==
    ASSUME NEW row \in Row
    PROVE  /\ RowStep(row, MarkState(row, "submitting"))
           /\ RowStep(row, MarkState(row, "rejected"))
           /\ RowStep(row, MarkBrokerAcknowledged(row, BrokerOrder))
           /\ RowStep(row, PersistBrokerResult(row, BrokerOrder))
           /\ \A ext \in {NoOrder, BrokerOrder} : RowStep(row, MarkUnknown(row, ext))
<1>1. RowStep(row, MarkState(row, "submitting"))
  BY DEF RowStep, MarkState, Row, RowType, UnresolvedStates, TerminalStates
<1>2. RowStep(row, MarkState(row, "rejected"))
  BY DEF RowStep, MarkState, Row, RowType, UnresolvedStates, TerminalStates
<1>3. RowStep(row, MarkBrokerAcknowledged(row, BrokerOrder))
  BY DEF RowStep, MarkBrokerAcknowledged, Row, RowType, UnresolvedStates, TerminalStates
<1>4. RowStep(row, PersistBrokerResult(row, BrokerOrder))
  BY DEF RowStep, PersistBrokerResult, Row, RowType, UnresolvedStates, TerminalStates
<1>5. ASSUME NEW ext \in {NoOrder, BrokerOrder}
      PROVE  RowStep(row, MarkUnknown(row, ext))
  BY DEF RowStep, MarkUnknown, Row, RowType, UnresolvedStates, TerminalStates
<1>6. QED  BY <1>1, <1>2, <1>3, <1>4, <1>5

\* A reconciliation attempt leaves an open row unknown; its evidence is long
\* only after a zero match.
LEMMA AttemptRow ==
    ASSUME NEW row \in Row, NEW zeroMatch \in BOOLEAN, NEW long \in BOOLEAN,
           row.state \in UnresolvedStates
    PROVE  LET next == RecordReconciliationAttempt(row, zeroMatch, long)
           IN /\ next \in Row
              /\ next.state = "unknown"
              /\ next.ext = row.ext
              /\ next.long => zeroMatch /\ (row.long \/ long)
<1> DEFINE n == IF row.checks < RequiredChecks THEN row.checks + 1 ELSE row.checks
<1>1. RequiredChecks \in Nat \ {0}
  BY RequiredChecksAssumption
<1>2. row.checks \in 0 .. RequiredChecks /\ n \in 0 .. RequiredChecks
  BY <1>1 DEF Row, RowType
<1>3. row.state \notin TerminalStates
  BY DEF UnresolvedStates, TerminalStates
<1>4. CASE zeroMatch
  <2>1. RecordReconciliationAttempt(row, zeroMatch, long)
          = [row EXCEPT !.state = "unknown", !.checks = n,
                        !.long = row.checks > 0 /\ (row.long \/ long)]
    BY <1>3, <1>4 DEF RecordReconciliationAttempt
  <2> DEFINE lg == row.checks > 0 /\ (row.long \/ long)
  <2>2. lg \in BOOLEAN /\ (lg => row.long \/ long)
    OBVIOUS
  <2> HIDE DEF n, lg
  <2>3. QED  BY <1>2, <1>4, <2>1, <2>2 DEF Row, RowType, UnresolvedStates, lg
<1>5. CASE ~zeroMatch
  <2>1. RecordReconciliationAttempt(row, zeroMatch, long)
          = [row EXCEPT !.state = "unknown", !.checks = 0, !.long = FALSE]
    BY <1>3, <1>5 DEF RecordReconciliationAttempt
  <2>2. 0 \in 0 .. RequiredChecks
    BY <1>1
  <2>3. QED  BY <2>1, <2>2 DEF Row, RowType, UnresolvedStates
<1>6. QED  BY <1>4, <1>5

\* ResolveNoOrder gives a well-formed row.
LEMMA ResolvedRow ==
    ASSUME NEW row \in Row
    PROVE  /\ ResolveNoOrder(row) \in Row
           /\ ResolveNoOrder(row).state = "resolved_no_order"
           /\ ResolveNoOrder(row).long = row.long
  BY DEF ResolveNoOrder, Row, RowType, TerminalStates

\* The row a new child starts with.
LEMMA NewRowFacts ==
    /\ NewRow \in Row
    /\ NewRow.state = "prepared" /\ NewRow.long = FALSE
  BY RequiredChecksAssumption DEF NewRow, Row, RowType, UnresolvedStates

\* The missing row is no row, and is neither open nor terminal.
LEMMA NoRowFacts ==
    /\ NoRow.state \notin UnresolvedStates \cup TerminalStates
    /\ \A row \in Row : row.state \in UnresolvedStates \cup TerminalStates /\ row # NoRow
  BY DEF NoRow, Row, RowType, UnresolvedStates, TerminalStates

States == UnresolvedStates \cup TerminalStates \cup {"none"}

\* The settlement of a parent gives it a legal state.
LEMMA SettledStateType ==
    ASSUME NEW state \in States, NEW rows
    PROVE  SettledState(state, rows) \in States
  BY DEF SettledState, States, UnresolvedStates, TerminalStates

\* A child transaction of action a on leg l, told leg by leg.
ChildMoves(a, l, row) ==
    /\ child' \in [Actions -> [Legs -> Row \cup {NoRow}]]
    /\ child'[a][l] = row
    /\ \A m \in Legs \ {l} : child'[a][m] = child[a][m]
    /\ \A b \in Actions \ {a} : child'[b] = child[b]
    /\ action' \in [Actions -> States]
    /\ \A b \in Actions \ {a} : action'[b] = action[b]
    /\ audit' \subseteq Actions
    /\ \A b \in Actions \ {a} : b \in audit' <=> b \in audit

\* SetChild touches one row, its parent and its parent's audit event only.
LEMMA SetChildMoves ==
    ASSUME TypeOK, NEW a \in Actions, NEW l \in Legs, NEW row \in Row,
           SetChild(a, l, row)
    PROVE  ChildMoves(a, l, row)
<1> DEFINE rows == [child[a] EXCEPT ![l] = row]
<1>1. rows \in [Legs -> Row \cup {NoRow}]
  BY DEF TypeOK, Row
<1>2. child' = [child EXCEPT ![a] = rows]
  BY DEF SetChild
<1>3. SettledState(action[a], rows) \in States
  BY SettledStateType DEF TypeOK, States
<1>4. /\ action' \in [Actions -> States]
      /\ \A b \in Actions \ {a} : action'[b] = action[b]
  BY <1>3 DEF SetChild, TypeOK, States
<1>5. /\ audit' \subseteq Actions
      /\ \A b \in Actions \ {a} : b \in audit' <=> b \in audit
  BY DEF SetChild, TypeOK
<1>6. /\ child' \in [Actions -> [Legs -> Row \cup {NoRow}]]
      /\ child'[a][l] = row
      /\ \A m \in Legs \ {l} : child'[a][m] = child[a][m]
      /\ \A b \in Actions \ {a} : child'[b] = child[b]
  BY <1>1, <1>2 DEF TypeOK, Row
<1>7. QED  BY <1>4, <1>5, <1>6 DEF ChildMoves

\* A child that stays as it is, or stays open, leaves its parent alone.
LEMMA OpenChildNoSettlement ==
    ASSUME TypeOK, NEW a \in Actions, NEW l \in Legs, NEW row \in Row,
           SetChild(a, l, row),
           row = child[a][l] \/ row.state \in UnresolvedStates
    PROVE  action' = action /\ audit' = audit
  BY DEF SetChild, UnresolvedStates, TerminalStates

\* A child that becomes terminal beside settled siblings: a parent with a
\* child resolved as no order is rejected and audited, any other is kept.
LEMMA TerminalChildSettles ==
    ASSUME TypeOK, NEW a \in Actions, NEW l \in Legs, NEW row \in Row,
           SetChild(a, l, row),
           row # child[a][l], row.state \in TerminalStates,
           \A m \in Legs \ {l} :
             child[a][m] = NoRow \/ child[a][m].state \in TerminalStates
    PROVE  \/ /\ \A m \in Legs : child'[a][m].state # "resolved_no_order"
              /\ action' = action /\ audit' = audit
           \/ /\ AllSettledWithNoOrder(child'[a])
              /\ action'[a] = IF action[a] = "persisted" THEN "persisted" ELSE "rejected"
              /\ a \in audit'
<1> DEFINE rows == [child[a] EXCEPT ![l] = row]
<1>1. child'[a] = rows /\ rows[l] = row /\ \A m \in Legs \ {l} : rows[m] = child[a][m]
  BY DEF SetChild, TypeOK
<1>2. \A m \in Legs : rows[m] # NoRow => rows[m].state \in TerminalStates
  BY <1>1
<1>3. /\ action' = [action EXCEPT ![a] = SettledState(action[a], rows)]
      /\ audit' = IF AllSettledWithNoOrder(rows) THEN audit \cup {a} ELSE audit
  BY DEF SetChild
<1>4. CASE \A m \in Legs : rows[m].state # "resolved_no_order"
  <2>1. SettledState(action[a], rows) = action[a] /\ ~AllSettledWithNoOrder(rows)
    BY <1>4 DEF SettledState, AllSettledWithNoOrder
  <2>2. action' = action
    BY <1>3, <2>1 DEF TypeOK
  <2>3. QED  BY <1>1, <1>3, <1>4, <2>1, <2>2
<1>5. CASE ~\A m \in Legs : rows[m].state # "resolved_no_order"
  <2>1. AllSettledWithNoOrder(rows)
    BY <1>2, <1>5 DEF AllSettledWithNoOrder
  <2>2. SettledState(action[a], rows)
          = IF action[a] = "persisted" THEN "persisted" ELSE "rejected"
    BY <1>5, <2>1 DEF SettledState
  <2>3. QED  BY <1>1, <1>3, <2>1, <2>2 DEF TypeOK
<1>6. QED  BY <1>4, <1>5

-----------------------------------------------------------------------------
(* The shape of a step, and where workers can be.                          *)

\* The states of a worker that has not reached its first leg.
Early == {"idle", "prepared", "gate", "children_clear", "authorized", "refuse"}

\* No order intent, or a settled one.
Closed(row) == row = NoRow \/ row.state \in TerminalStates

PhaseOK(a) ==
    /\ worker[a] = "idle" => action[a] = "none"
    /\ worker[a] = "prepared" => action[a] = "prepared"
    /\ worker[a] \in {"gate", "children_clear", "authorized", "refuse"} =>
         action[a] = "submitting"
    /\ worker[a] \in Early => \A l \in Legs : child[a][l] = NoRow
    /\ \A m \in Legs \ {leg[a]} : Closed(child[a][m])
    /\ worker[a] \in {"leg", "complete"} => Closed(child[a][leg[a]])
    /\ worker[a] \in {"prepared_leg", "calling", "acknowledged"} =>
         child[a][leg[a]] \in Row

PhaseInv == TypeOK /\ \A a \in Actions : PhaseOK(a)

\* Everything that belongs to other actions stays as it is.
Frame(a) ==
    \A b \in Actions \ {a} :
      /\ action'[b] = action[b]
      /\ child'[b] = child[b]
      /\ worker'[b] = worker[b]
      /\ leg'[b] = leg[b]
      /\ b \in audit' <=> b \in audit
      /\ \A l \in Legs : <<b, l>> \in placed' <=> <<b, l>> \in placed

\* A row that is persisted or rejected by its worker is settled.
LEMMA SettlingOperations ==
    ASSUME NEW row \in Row
    PROVE  /\ PersistBrokerResult(row, BrokerOrder).state \in TerminalStates
           /\ MarkState(row, "rejected").state \in TerminalStates
<1>1. row \in [state : UnresolvedStates \cup TerminalStates, ext : {BrokerOrder} \cup {NoOrder},
               checks : 0..RequiredChecks, long : BOOLEAN]
  BY DEF Row, RowType
<1>2. PersistBrokerResult(row, BrokerOrder).state \in TerminalStates
  BY <1>1 DEF PersistBrokerResult, UnresolvedStates, TerminalStates
<1>3. MarkState(row, "rejected").state \in TerminalStates
  BY <1>1 DEF MarkState, UnresolvedStates, TerminalStates
<1>4. QED  BY <1>2, <1>3

\* An open child is the one its worker is, or was last, at.
LEMMA OpenChildIsCurrent ==
    ASSUME PhaseInv, NEW a \in Actions, NEW l \in Legs, UnresolvedChild(a, l)
    PROVE  l = leg[a] /\ child[a][l] \in Row /\ worker[a] \notin Early
<1>1. child[a][l] # NoRow /\ child[a][l].state \notin TerminalStates
  BY NoRowFacts DEF UnresolvedChild, UnresolvedStates, TerminalStates
<1>2. child[a][l] \in Row \cup {NoRow}
  <2>1. child \in [Actions -> [Legs -> Row \cup {NoRow}]]
    BY DEF PhaseInv, TypeOK, Row
  <2>2. QED  BY <2>1
<1>3. PhaseOK(a)
  BY DEF PhaseInv
<1>4. QED  BY <1>1, <1>2, <1>3 DEF PhaseOK, Closed

\* A step that changes the rows of one child by SetChild keeps the types.
LEMMA ChildMovesType ==
    ASSUME TypeOK, NEW a \in Actions, NEW l \in Legs, NEW row,
           ChildMoves(a, l, row),
           worker' \in [Actions -> WorkerStates], leg' \in [Actions -> Legs],
           placed' \subseteq Actions \X Legs
    PROVE  TypeOK'
  BY DEF TypeOK, ChildMoves, Row, States

\* A worker that only moves, together with its parent's state.
WorkerMoves(a) ==
    /\ \E state \in WorkerStates : worker' = [worker EXCEPT ![a] = state]
    /\ \E state \in States : action' = [action EXCEPT ![a] = state]
    /\ UNCHANGED <<child, leg, placed, audit>>

\* A transaction on the child of leg l with what it may do to the row.
ChildStep(a, l) ==
    \E row \in Row :
      /\ SetChild(a, l, row)
      /\ worker' \in [Actions -> WorkerStates]
      /\ leg' \in [Actions -> Legs]
      /\ \A b \in Actions \ {a} : worker'[b] = worker[b] /\ leg'[b] = leg[b]
      /\ UNCHANGED placed

\* The steps that leave the children alone.
LEMMA ParentStepShape ==
    ASSUME PhaseInv, NEW a \in Actions,
           \/ PrepareAction(a) \/ MarkActionSubmitting(a) \/ GateReadChildren(a)
           \/ GateReadActions(a) \/ StartEntry(a) \/ CompleteAction(a)
           \/ RefuseAction(a) \/ StopAction(a) \/ LedgerFails(a) \/ Crash(a)
    PROVE  WorkerMoves(a)
<1>1. /\ TypeOK
      /\ action[a] \in States
      /\ action = [action EXCEPT ![a] = action[a]]
  BY DEF PhaseInv, TypeOK, States
<1>2. {"prepared", "submitting", "persisted", "rejected", "unknown"} \subseteq States
  BY DEF States, UnresolvedStates, TerminalStates
<1>3. ASSUME NEW state \in {"rejected", "unknown"}, MarkActionState(a, state)
      PROVE  \E s \in States : action' = [action EXCEPT ![a] = s]
  BY <1>1, <1>2, <1>3 DEF MarkActionState
<1>4. CASE PrepareAction(a)
  BY <1>1, <1>2, <1>4 DEF PrepareAction, Goto, WorkerMoves, WorkerStates
<1>5. CASE MarkActionSubmitting(a)
  BY <1>1, <1>2, <1>5 DEF MarkActionSubmitting, Goto, WorkerMoves, WorkerStates
<1>6. CASE GateReadChildren(a)
  BY <1>1, <1>2, <1>6 DEF GateReadChildren, Goto, WorkerMoves, WorkerStates
<1>7. CASE GateReadActions(a)
  BY <1>1, <1>2, <1>7 DEF GateReadActions, Goto, WorkerMoves, WorkerStates
<1>8. CASE StartEntry(a)
  BY <1>1, <1>2, <1>8 DEF StartEntry, Goto, WorkerMoves, WorkerStates
<1>9. CASE CompleteAction(a)
  BY <1>1, <1>2, <1>9 DEF CompleteAction, Goto, WorkerMoves, WorkerStates
<1>10. CASE RefuseAction(a)
  BY <1>1, <1>3, <1>10 DEF RefuseAction, Goto, WorkerMoves, WorkerStates
<1>11. CASE StopAction(a)
  BY <1>1, <1>3, <1>11 DEF StopAction, Goto, WorkerMoves, WorkerStates
<1>12. CASE LedgerFails(a) \/ Crash(a)
  BY <1>1, <1>2, <1>12 DEF LedgerFails, Crash, Goto, WorkerMoves, WorkerStates
<1>13. QED
  BY <1>4, <1>5, <1>6, <1>7, <1>8, <1>9, <1>10, <1>11, <1>12

\* The worker's transactions on the child it is at.
LEMMA WorkerChildShape ==
    ASSUME PhaseInv, NEW a \in Actions,
           \/ MarkSubmitting(a) \/ Acknowledge(a) \/ CallFails(a)
           \/ CallRejected(a) \/ PersistLeg(a)
    PROVE  ChildStep(a, leg[a])
<1>1. TypeOK /\ leg[a] \in Legs
  BY DEF PhaseInv, TypeOK
<1>2. worker[a] \in {"prepared_leg", "calling", "acknowledged"}
  BY DEF MarkSubmitting, Acknowledge, CallFails, CallRejected, PersistLeg
<1>3. child[a][leg[a]] \in Row
  BY <1>2 DEF PhaseInv, PhaseOK
<1>4. ASSUME NEW state \in WorkerStates, Goto(a, state)
      PROVE  /\ worker' \in [Actions -> WorkerStates]
             /\ \A b \in Actions \ {a} : worker'[b] = worker[b]
  BY <1>1, <1>4 DEF Goto, TypeOK
<1>5. {"calling", "acknowledged", "complete", "stop", "leg"} \subseteq WorkerStates
  BY DEF WorkerStates
<1>6. ASSUME leg' = leg \/ \E l \in Legs : leg' = [leg EXCEPT ![a] = l]
      PROVE  /\ leg' \in [Actions -> Legs]
             /\ \A b \in Actions \ {a} : leg'[b] = leg[b]
  BY <1>1, <1>6 DEF TypeOK
<1>7. NoOrder \in {NoOrder, BrokerOrder} /\ BrokerOrder \in {NoOrder, BrokerOrder}
  OBVIOUS
<1>8. CASE MarkSubmitting(a)
  <2>1. MarkState(child[a][leg[a]], "submitting") \in Row
    BY <1>3, RowOperations DEF RowStep
  <2>2. QED
    BY <1>4, <1>5, <1>6, <1>8, <2>1 DEF MarkSubmitting, ChildStep
<1>9. CASE Acknowledge(a)
  <2>1. MarkBrokerAcknowledged(child[a][leg[a]], BrokerOrder) \in Row
    BY <1>3, RowOperations DEF RowStep
  <2>2. QED
    BY <1>4, <1>5, <1>6, <1>9, <2>1 DEF Acknowledge, ChildStep
<1>10. CASE CallFails(a)
  <2>1. \A ext \in {NoOrder, BrokerOrder} : MarkUnknown(child[a][leg[a]], ext) \in Row
    BY <1>3, RowOperations DEF RowStep
  <2>2. QED
    BY <1>4, <1>5, <1>6, <1>10, <2>1 DEF CallFails, ChildStep
<1>11. CASE CallRejected(a)
  <2>1. MarkState(child[a][leg[a]], "rejected") \in Row
    BY <1>3, RowOperations DEF RowStep
  <2>2. /\ SetChild(a, leg[a], MarkState(child[a][leg[a]], "rejected"))
        /\ UNCHANGED placed
    BY <1>11 DEF CallRejected
  <2>3. \/ Goto(a, "complete") /\ leg' = leg
        \/ Goto(a, "leg") /\ \E l \in Legs : leg' = [leg EXCEPT ![a] = l]
        \/ Goto(a, "stop") /\ leg' = leg
    BY <1>1, <1>11 DEF CallRejected, Legs
  <2>4. QED
    BY <1>4, <1>5, <1>6, <2>1, <2>2, <2>3 DEF ChildStep
<1>12. CASE PersistLeg(a)
  <2>1. /\ MarkUnknown(child[a][leg[a]], NoOrder) \in Row
        /\ PersistBrokerResult(child[a][leg[a]], BrokerOrder) \in Row
    BY <1>3, <1>7, RowOperations DEF RowStep
  <2>2. \E row \in Row : SetChild(a, leg[a], row)
    BY <1>12, <2>1 DEF PersistLeg
  <2>3. \E state \in {"stop", "leg", "complete"} : Goto(a, state)
    BY <1>12 DEF PersistLeg
  <2>4. (leg' = leg \/ \E l \in Legs : leg' = [leg EXCEPT ![a] = l]) /\ UNCHANGED placed
    BY <1>12 DEF PersistLeg, Legs
  <2>5. QED
    BY <1>4, <1>5, <1>6, <2>2, <2>3, <2>4 DEF ChildStep
<1>13. QED  BY <1>8, <1>9, <1>10, <1>11, <1>12

\* The reconciler's and the operator's transactions on an open child.
LEMMA OutsideChildShape ==
    ASSUME PhaseInv, NEW a \in Actions, NEW l \in Legs,
           ReconcileMatch(a, l) \/ ReconcileAttempt(a, l) \/ ResolveChildNoOrder(a, l)
    PROVE  ChildStep(a, l) /\ worker' = worker /\ leg' = leg
<1>1. UnresolvedChild(a, l)
  BY DEF ReconcileMatch, ReconcileAttempt, ResolveChildNoOrder
<1>2. TypeOK /\ child[a][l] \in Row /\ child[a][l].state \in UnresolvedStates
  BY <1>1, OpenChildIsCurrent DEF PhaseInv, UnresolvedChild
<1>3. /\ worker' = worker /\ leg' = leg /\ placed' = placed
      /\ worker \in [Actions -> WorkerStates] /\ leg \in [Actions -> Legs]
  BY <1>2 DEF ReconcileMatch, ReconcileAttempt, ResolveChildNoOrder, TypeOK
<1>4. \E row \in Row : SetChild(a, l, row)
  <2>1. CASE ReconcileMatch(a, l)
    BY <1>2, <2>1, RowOperations DEF ReconcileMatch, RowStep
  <2>2. CASE ReconcileAttempt(a, l)
    BY <1>2, <2>2, AttemptRow DEF ReconcileAttempt
  <2>3. CASE ResolveChildNoOrder(a, l)
    BY <1>2, <2>3, ResolvedRow DEF ResolveChildNoOrder
  <2>4. QED  BY <2>1, <2>2, <2>3
<1>5. QED  BY <1>3, <1>4 DEF ChildStep

\* One step belongs to one action: it keeps the types and the other actions.
Step(a) ==
    \/ WorkerMoves(a)
    \/ PrepareChild(a)
    \/ BrokerAccepts(a)
    \/ \E l \in Legs : ChildStep(a, l)

\* Every step of the specification is the step of one action.
LEMMA StepIsStep ==
    ASSUME PhaseInv, NEW a \in Actions,
           \/ WorkerStep(a) \/ BrokerAccepts(a) \/ Crash(a)
           \/ \E l \in Legs : ReconcileAttempt(a, l) \/ Settling(a, l)
    PROVE  Step(a)
<1>1. leg[a] \in Legs
  BY DEF PhaseInv, TypeOK
<1>2. CASE WorkerStep(a) \/ Crash(a)
  BY <1>1, <1>2, ParentStepShape, WorkerChildShape DEF WorkerStep, Step
<1>3. CASE BrokerAccepts(a)
  BY <1>3 DEF Step
<1>4. CASE \E l \in Legs : ReconcileAttempt(a, l) \/ Settling(a, l)
  BY <1>4, OutsideChildShape DEF Settling, Step
<1>5. QED  BY <1>2, <1>3, <1>4

\* Type correctness is kept, and the other actions do not move.
LEMMA StepTypeAndFrame ==
    ASSUME TypeOK, NEW a \in Actions, Step(a)
    PROVE  TypeOK' /\ Frame(a)
<1>1. CASE WorkerMoves(a)
  BY <1>1 DEF WorkerMoves, TypeOK, Frame, States
<1>2. CASE PrepareChild(a)
  <2>1. /\ child' \in [Actions -> [Legs -> Row \cup {NoRow}]]
        /\ \A b \in Actions \ {a} : child'[b] = child[b]
    <3>1. /\ child \in [Actions -> [Legs -> Row \cup {NoRow}]]
          /\ leg[a] \in Legs
          /\ NewRow \in Row \cup {NoRow}
      BY NewRowFacts DEF TypeOK, Row
    <3> DEFINE new == NewRow
    <3>2. child' = [child EXCEPT ![a][leg[a]] = new] \/ child' = child
      BY <1>2 DEF PrepareChild
    <3>3. new \in Row \cup {NoRow}
      BY <3>1
    <3> HIDE DEF new
    <3>4. QED  BY <3>1, <3>2, <3>3
  <2>2. /\ worker' \in [Actions -> WorkerStates]
        /\ \A b \in Actions \ {a} : worker'[b] = worker[b]
    BY <1>2 DEF PrepareChild, Goto, TypeOK, WorkerStates
  <2>3. UNCHANGED <<action, leg, placed, audit>>
    BY <1>2 DEF PrepareChild
  <2>4. QED  BY <2>1, <2>2, <2>3 DEF TypeOK, Frame, Row
<1>3. CASE BrokerAccepts(a)
  <2>1. leg[a] \in Legs /\ placed' = placed \cup {<<a, leg[a]>>}
    BY <1>3 DEF BrokerAccepts, TypeOK
  <2>2. UNCHANGED <<action, child, worker, leg, audit>>
    BY <1>3 DEF BrokerAccepts
  <2>3. placed' \subseteq Actions \X Legs
    BY <2>1 DEF TypeOK
  <2>4. \A b \in Actions \ {a}, l \in Legs : <<b, l>> \in placed' <=> <<b, l>> \in placed
    BY <2>1
  <2>5. QED  BY <2>2, <2>3, <2>4 DEF TypeOK, Frame
<1>4. ASSUME NEW l \in Legs, ChildStep(a, l)
      PROVE  TypeOK' /\ Frame(a)
  <2>1. PICK row \in Row :
          /\ SetChild(a, l, row)
          /\ worker' \in [Actions -> WorkerStates]
          /\ leg' \in [Actions -> Legs]
          /\ \A b \in Actions \ {a} : worker'[b] = worker[b] /\ leg'[b] = leg[b]
          /\ UNCHANGED placed
    BY <1>4 DEF ChildStep
  <2>2. ChildMoves(a, l, row)
    BY <2>1, SetChildMoves
  <2>3. TypeOK'
    BY <2>1, <2>2, ChildMovesType DEF TypeOK
  <2>4. Frame(a)
    BY <2>1, <2>2 DEF ChildMoves, Frame
  <2>5. QED  BY <2>3, <2>4
<1>5. QED  BY <1>1, <1>2, <1>3, <1>4 DEF Step

\* What an action relies on about its worker survives the steps of others.
LEMMA PhaseFramed ==
    ASSUME NEW a \in Actions, NEW b \in Actions \ {a}, Frame(a), PhaseOK(b)
    PROVE  PhaseOK(b)'
  BY DEF Frame, PhaseOK

\* The steps that leave the children alone keep the worker's phase.
LEMMA ParentStepPhase ==
    ASSUME PhaseInv, NEW a \in Actions,
           \/ PrepareAction(a) \/ MarkActionSubmitting(a) \/ GateReadChildren(a)
           \/ GateReadActions(a) \/ StartEntry(a) \/ CompleteAction(a)
           \/ RefuseAction(a) \/ StopAction(a) \/ LedgerFails(a) \/ Crash(a)
    PROVE  PhaseOK(a)'
<1>1. TypeOK /\ PhaseOK(a)
  BY DEF PhaseInv
<1>2. /\ child' = child /\ leg' = leg
      /\ worker'[a] \in WorkerStates
      /\ action \in [Actions -> States] /\ worker \in [Actions -> WorkerStates]
      /\ leg[a] \in Legs
  BY <1>1, ParentStepShape, StepTypeAndFrame DEF WorkerMoves, Step, TypeOK, States
<1>3. CASE PrepareAction(a)
  BY <1>1, <1>2, <1>3 DEF PrepareAction, Goto, PhaseOK, Early
<1>4. CASE MarkActionSubmitting(a)
  BY <1>1, <1>2, <1>4 DEF MarkActionSubmitting, Goto, PhaseOK, Early
<1>5. CASE GateReadChildren(a)
  BY <1>1, <1>2, <1>5 DEF GateReadChildren, Goto, PhaseOK, Early
<1>6. CASE GateReadActions(a)
  BY <1>1, <1>2, <1>6 DEF GateReadActions, Goto, PhaseOK, Early
<1>7. CASE StartEntry(a)
  BY <1>1, <1>2, <1>7 DEF StartEntry, Goto, PhaseOK, Early, Closed
<1>8. CASE CompleteAction(a)
  BY <1>1, <1>2, <1>8 DEF CompleteAction, Goto, PhaseOK, Early
<1>9. CASE RefuseAction(a)
  BY <1>1, <1>2, <1>9 DEF RefuseAction, Goto, PhaseOK, Early
<1>10. CASE StopAction(a)
  BY <1>1, <1>2, <1>10 DEF StopAction, Goto, PhaseOK, Early
<1>11. CASE LedgerFails(a) \/ Crash(a)
  BY <1>1, <1>2, <1>11 DEF LedgerFails, Crash, Goto, PhaseOK, Early
<1>12. QED
  BY <1>3, <1>4, <1>5, <1>6, <1>7, <1>8, <1>9, <1>10, <1>11

\* So do the worker's own transactions on its child.
LEMMA WorkerChildPhase ==
    ASSUME PhaseInv, NEW a \in Actions,
           \/ PrepareChild(a) \/ MarkSubmitting(a) \/ Acknowledge(a)
           \/ CallFails(a) \/ CallRejected(a) \/ PersistLeg(a)
    PROVE  PhaseOK(a)'
<1> DEFINE row == child[a][leg[a]]
<1>1. /\ TypeOK /\ PhaseOK(a) /\ leg[a] \in Legs
      /\ \A m \in Legs \ {leg[a]} : Closed(child[a][m])
      /\ worker \in [Actions -> WorkerStates] /\ leg \in [Actions -> Legs]
  BY DEF PhaseInv, PhaseOK, TypeOK
<1>2. ASSUME NEW next \in Row, SetChild(a, leg[a], next)
      PROVE  /\ child'[a][leg[a]] = next
             /\ \A m \in Legs \ {leg[a]} : Closed(child'[a][m])
  BY <1>1, <1>2, SetChildMoves DEF ChildMoves
<1>3. CASE PrepareChild(a)
  <2>1. CASE ParentAcceptsChild(a)
    <3>1. /\ child'[a][leg[a]] = NewRow /\ worker'[a] = "prepared_leg" /\ leg' = leg
          /\ \A m \in Legs \ {leg[a]} : child'[a][m] = child[a][m]
      BY <1>1, <1>3, <2>1 DEF PrepareChild, Goto, TypeOK
    <3>2. QED  BY <1>1, <3>1, NewRowFacts DEF PhaseOK, Early
  <2>2. CASE ~ParentAcceptsChild(a)
    <3>1. child' = child /\ worker'[a] = "stop" /\ leg' = leg
      BY <1>1, <1>3, <2>2 DEF PrepareChild, Goto, TypeOK
    <3>2. QED  BY <1>1, <3>1 DEF PhaseOK, Early
  <2>3. QED  BY <2>1, <2>2
<1>4. ASSUME worker[a] \in {"prepared_leg", "calling", "acknowledged"}
      PROVE  row \in Row
  BY <1>1, <1>4 DEF PhaseOK
<1>5. CASE MarkSubmitting(a)
  <2>1. row \in Row
    BY <1>4, <1>5 DEF MarkSubmitting
  <2>2. MarkState(row, "submitting") \in Row
    BY <2>1, RowOperations DEF RowStep
  <2>3. worker'[a] = "calling" /\ leg' = leg
    BY <1>1, <1>5 DEF MarkSubmitting, Goto
  <2>4. child'[a][leg[a]] \in Row /\ \A m \in Legs \ {leg[a]} : Closed(child'[a][m])
    BY <1>2, <1>5, <2>2 DEF MarkSubmitting
  <2>5. QED  BY <2>3, <2>4 DEF PhaseOK, Early
<1>6. CASE Acknowledge(a)
  <2>1. row \in Row
    BY <1>4, <1>6 DEF Acknowledge
  <2>2. MarkBrokerAcknowledged(row, BrokerOrder) \in Row
    BY <2>1, RowOperations DEF RowStep
  <2>3. worker'[a] \in {"stop", "acknowledged"} /\ leg' = leg
    BY <1>1, <1>6 DEF Acknowledge, Goto
  <2>4. child'[a][leg[a]] \in Row /\ \A m \in Legs \ {leg[a]} : Closed(child'[a][m])
    BY <1>2, <1>6, <2>2 DEF Acknowledge
  <2>5. QED  BY <2>3, <2>4 DEF PhaseOK, Early
<1>7. CASE CallFails(a)
  <2>1. row \in Row
    BY <1>4, <1>7 DEF CallFails
  <2>2. \A ext \in {NoOrder, BrokerOrder} : MarkUnknown(row, ext) \in Row
    BY <2>1, RowOperations DEF RowStep
  <2>3. worker'[a] = "stop" /\ leg' = leg
    BY <1>1, <1>7 DEF CallFails, Goto
  <2>4. \A m \in Legs \ {leg[a]} : Closed(child'[a][m])
    BY <1>2, <1>7, <2>2 DEF CallFails
  <2>5. QED  BY <2>3, <2>4 DEF PhaseOK, Early
<1>8. CASE CallRejected(a)
  <2>1. row \in Row
    BY <1>4, <1>8 DEF CallRejected
  <2>2. MarkState(row, "rejected") \in Row /\ Closed(MarkState(row, "rejected"))
    BY <2>1, RowOperations, SettlingOperations DEF RowStep, Closed
  <2>3. \A m \in Legs : Closed(child'[a][m])
    BY <1>2, <1>8, <2>2 DEF CallRejected
  <2>4. worker'[a] \in {"complete", "leg", "stop"} /\ leg'[a] \in Legs
    BY <1>1, <1>8 DEF CallRejected, Goto, Legs
  <2>5. QED  BY <2>3, <2>4 DEF PhaseOK, Early
<1>9. CASE PersistLeg(a)
  <2>1. row \in Row
    BY <1>4, <1>9 DEF PersistLeg
  <2>2. /\ PersistBrokerResult(row, BrokerOrder) \in Row
        /\ Closed(PersistBrokerResult(row, BrokerOrder))
        /\ MarkUnknown(row, NoOrder) \in Row
    BY <2>1, RowOperations, SettlingOperations DEF RowStep, Closed
  <2>3. CASE SetChild(a, leg[a], MarkUnknown(row, NoOrder)) /\ Goto(a, "stop") /\ leg' = leg
    <3>1. worker'[a] = "stop" /\ \A m \in Legs \ {leg[a]} : Closed(child'[a][m])
      BY <1>1, <1>2, <2>2, <2>3 DEF Goto
    <3>2. QED  BY <2>3, <3>1 DEF PhaseOK, Early
  <2>4. CASE SetChild(a, leg[a], PersistBrokerResult(row, BrokerOrder))
    <3>1. \A m \in Legs : Closed(child'[a][m])
      BY <1>2, <2>2, <2>4
    <3>2. worker'[a] \in {"complete", "leg", "stop"} /\ leg'[a] \in Legs
      BY <1>1, <1>9 DEF PersistLeg, Goto, Legs
    <3>3. QED  BY <3>1, <3>2 DEF PhaseOK, Early
  <2>5. QED  BY <1>9, <2>3, <2>4 DEF PersistLeg
<1>10. QED  BY <1>3, <1>5, <1>6, <1>7, <1>8, <1>9

\* And so do the reconciler and the operator.
LEMMA OutsideChildPhase ==
    ASSUME PhaseInv, NEW a \in Actions, NEW l \in Legs,
           ReconcileMatch(a, l) \/ ReconcileAttempt(a, l) \/ ResolveChildNoOrder(a, l)
    PROVE  PhaseOK(a)'
<1>1. TypeOK /\ PhaseOK(a)
  BY DEF PhaseInv
<1>2. UnresolvedChild(a, l)
  BY DEF ReconcileMatch, ReconcileAttempt, ResolveChildNoOrder
<1>3. l = leg[a] /\ worker[a] \notin Early
  BY <1>2, OpenChildIsCurrent
<1>4. worker[a] \notin {"leg", "complete"}
  BY <1>1, <1>2, <1>3, NoRowFacts
     DEF PhaseOK, Closed, UnresolvedChild, UnresolvedStates, TerminalStates
<1>5. PICK row \in Row : SetChild(a, l, row)
  BY OutsideChildShape DEF ChildStep
<1>6. /\ child'[a][l] = row
      /\ \A m \in Legs \ {l} : child'[a][m] = child[a][m]
  BY <1>1, <1>5, SetChildMoves DEF ChildMoves
<1>7. worker' = worker /\ leg' = leg
  BY OutsideChildShape
<1>8. QED  BY <1>1, <1>3, <1>4, <1>6, <1>7 DEF PhaseOK, Early

\* PhaseInv is inductive.
LEMMA StepPhaseInv ==
    ASSUME PhaseInv, [Next]_vars
    PROVE  PhaseInv'
<1>1. CASE UNCHANGED vars
  BY <1>1 DEF PhaseInv, PhaseOK, TypeOK, vars
<1>2. CASE Next
  <2>1. PICK a \in Actions :
          \/ WorkerStep(a) \/ BrokerAccepts(a) \/ Crash(a)
          \/ \E l \in Legs : ReconcileAttempt(a, l) \/ Settling(a, l)
    BY <1>2 DEF Next
  <2>2. TypeOK' /\ Frame(a)
    BY <2>1, StepIsStep, StepTypeAndFrame DEF PhaseInv
  <2>3. PhaseOK(a)'
    <3>1. CASE WorkerStep(a) \/ Crash(a)
      BY <3>1, ParentStepPhase, WorkerChildPhase DEF WorkerStep
    <3>2. CASE BrokerAccepts(a)
      BY <3>2 DEF BrokerAccepts, PhaseInv, PhaseOK
    <3>3. CASE \E l \in Legs : ReconcileAttempt(a, l) \/ Settling(a, l)
      BY <3>3, OutsideChildPhase DEF Settling
    <3>4. QED  BY <2>1, <3>1, <3>2, <3>3
  <2>4. \A b \in Actions \ {a} : PhaseOK(b)'
    BY <2>2, PhaseFramed DEF PhaseInv
  <2>5. QED  BY <2>2, <2>3, <2>4 DEF PhaseInv
<1>3. QED  BY <1>1, <1>2

\* The initial states satisfy it.
LEMMA InitPhaseInv == Init => PhaseInv
<1> SUFFICES ASSUME Init PROVE PhaseInv
  OBVIOUS
<1>1. "long_entry" \in Legs
  BY DEF Legs
<1>2. TypeOK
  BY <1>1 DEF Init, TypeOK, WorkerStates
<1>3. \A a \in Actions : PhaseOK(a)
  BY <1>1 DEF Init, PhaseOK, Closed, Early
<1>4. QED  BY <1>2, <1>3 DEF PhaseInv

\* Every reachable state is well-typed: no interleaving of workers,
\* reconciler and operator leaves a row in a state the ledger does not know.
THEOREM ActionTypesCorrect == Spec => []TypeOK
<1>1. PhaseInv => TypeOK
  BY DEF PhaseInv
<1>2. QED  BY <1>1, InitPhaseInv, StepPhaseInv, PTL DEF Spec

-----------------------------------------------------------------------------
(* Children and parent agree.                                              *)

SettleOK(a) ==
    /\ (\E l \in Legs : UnresolvedChild(a, l)) => UnresolvedAction(a)
    /\ a \in audit <=> AllSettledWithNoOrder(child[a])
    /\ AllSettledWithNoOrder(child[a]) => action[a] = "rejected"

SettleInv == PhaseInv /\ \A a \in Actions : SettleOK(a)

\* The agreement of one action survives the steps of others.
LEMMA SettleFramed ==
    ASSUME NEW a \in Actions, NEW b \in Actions \ {a}, Frame(a), SettleOK(b)
    PROVE  SettleOK(b)'
  BY DEF Frame, SettleOK, UnresolvedChild, UnresolvedAction, AllSettledWithNoOrder

\* An open sibling means that nothing is settled yet.
LEMMA OpenNotSettled ==
    ASSUME NEW rows, NEW l \in Legs, rows[l].state \in UnresolvedStates
    PROVE  ~AllSettledWithNoOrder(rows)
  BY NoRowFacts DEF AllSettledWithNoOrder, UnresolvedStates, TerminalStates

\* A transaction on a child keeps children and parent in agreement, as long
\* as a settled row stays as it is.
LEMMA ChildStepSettles ==
    ASSUME SettleInv, NEW a \in Actions, NEW row \in Row,
           child[a][leg[a]] \in Row,
           child[a][leg[a]].state \in TerminalStates => row = child[a][leg[a]],
           SetChild(a, leg[a], row)
    PROVE  SettleOK(a)'
<1> DEFINE l == leg[a]
<1>1. /\ TypeOK /\ PhaseOK(a) /\ SettleOK(a) /\ l \in Legs
      /\ \A m \in Legs \ {l} : Closed(child[a][m])
  BY DEF SettleInv, PhaseInv, PhaseOK, TypeOK
<1>2. ChildMoves(a, l, row)
  BY <1>1, SetChildMoves
<1>3. CASE row = child[a][l]
  <2>1. action' = action /\ audit' = audit
    BY <1>1, <1>3, OpenChildNoSettlement
  <2>2. \A m \in Legs : child'[a][m] = child[a][m]
    BY <1>2, <1>3 DEF ChildMoves
  <2>3. QED
    BY <1>1, <2>1, <2>2 DEF SettleOK, UnresolvedChild, UnresolvedAction, AllSettledWithNoOrder
<1>4. CASE row # child[a][l]
  <2>1. child[a][l].state \in UnresolvedStates
    BY <1>4, NoRowFacts
  <2>2. UnresolvedAction(a) /\ ~AllSettledWithNoOrder(child[a]) /\ a \notin audit
    BY <1>1, <2>1, OpenNotSettled DEF SettleOK, UnresolvedChild
  <2>3. CASE row.state \in UnresolvedStates
    <3>1. action' = action /\ audit' = audit
      BY <1>1, <2>3, OpenChildNoSettlement
    <3>2. ~AllSettledWithNoOrder(child'[a])
      BY <1>1, <1>2, <2>3, OpenNotSettled DEF ChildMoves
    <3>3. QED  BY <2>2, <3>1, <3>2 DEF SettleOK, UnresolvedAction
  <2>4. CASE row.state \in TerminalStates
    <3>1. \A m \in Legs : child'[a][m] = NoRow \/ child'[a][m].state \in TerminalStates
      BY <1>1, <1>2, <2>4 DEF ChildMoves, Closed
    <3>2. \A m \in Legs : child'[a][m].state \notin UnresolvedStates
      BY <3>1, NoRowFacts DEF UnresolvedStates, TerminalStates
    <3>3. \/ /\ \A m \in Legs : child'[a][m].state # "resolved_no_order"
             /\ action' = action /\ audit' = audit
          \/ /\ AllSettledWithNoOrder(child'[a])
             /\ action'[a] = IF action[a] = "persisted" THEN "persisted" ELSE "rejected"
             /\ a \in audit'
      BY <1>1, <1>4, <2>4, TerminalChildSettles DEF Closed
    <3>4. action[a] # "persisted"
      BY <2>2 DEF UnresolvedAction, UnresolvedStates
    <3>5. QED
      BY <2>2, <3>2, <3>3, <3>4
         DEF SettleOK, UnresolvedChild, UnresolvedAction, AllSettledWithNoOrder
  <2>5. QED  BY <2>3, <2>4, NoRowFacts
<1>5. QED  BY <1>3, <1>4

\* Every transaction a step makes on a child is one that leaves a settled
\* row as it is.
LEMMA ChildStepRow ==
    ASSUME PhaseInv, NEW a \in Actions,
           \/ MarkSubmitting(a) \/ Acknowledge(a) \/ CallFails(a)
           \/ CallRejected(a) \/ PersistLeg(a)
           \/ \E l \in Legs : ReconcileAttempt(a, l) \/ Settling(a, l)
    PROVE  /\ child[a][leg[a]] \in Row
           /\ \E row \in Row : /\ SetChild(a, leg[a], row)
                               /\ RowStep(child[a][leg[a]], row)
<1>1. CASE \/ MarkSubmitting(a) \/ Acknowledge(a) \/ CallFails(a)
           \/ CallRejected(a) \/ PersistLeg(a)
  <2>1. child[a][leg[a]] \in Row
    BY <1>1 DEF PhaseInv, PhaseOK, MarkSubmitting, Acknowledge, CallFails, CallRejected, PersistLeg
  <2>2. \A row : RowStep(child[a][leg[a]], row) => row \in Row
    BY DEF RowStep
  <2>3. CASE MarkSubmitting(a)
    BY <2>1, <2>2, <2>3, RowOperations DEF MarkSubmitting
  <2>4. CASE Acknowledge(a)
    BY <2>1, <2>2, <2>4, RowOperations DEF Acknowledge
  <2>5. CASE CallFails(a)
    BY <2>1, <2>2, <2>5, RowOperations DEF CallFails
  <2>6. CASE CallRejected(a)
    BY <2>1, <2>2, <2>6, RowOperations DEF CallRejected
  <2>7. CASE PersistLeg(a)
    <3>1. NoOrder \in {NoOrder, BrokerOrder}
      OBVIOUS
    <3>2. QED  BY <2>1, <2>2, <2>7, <3>1, RowOperations DEF PersistLeg
  <2>8. QED  BY <1>1, <2>3, <2>4, <2>5, <2>6, <2>7
<1>2. ASSUME NEW l \in Legs, ReconcileAttempt(a, l) \/ Settling(a, l)
      PROVE  /\ child[a][leg[a]] \in Row
             /\ \E row \in Row : /\ SetChild(a, leg[a], row)
                                 /\ RowStep(child[a][leg[a]], row)
  <2>1. UnresolvedChild(a, l)
    BY <1>2 DEF ReconcileMatch, ReconcileAttempt, ResolveChildNoOrder, Settling
  <2>2. l = leg[a] /\ child[a][l] \in Row /\ child[a][l].state \in UnresolvedStates
    BY <2>1, OpenChildIsCurrent DEF UnresolvedChild
  <2>3. child[a][l].state \notin TerminalStates
    BY <2>2 DEF UnresolvedStates, TerminalStates
  <2>4. ChildStep(a, l)
    BY <1>2, OutsideChildShape DEF Settling
  <2>5. QED  BY <2>2, <2>3, <2>4 DEF ChildStep, RowStep
<1>3. QED  BY <1>1, <1>2

\* A settled parent is never changed again, and the agreement is kept: the
\* steps that leave the children alone.
LEMMA ParentStepSettles ==
    ASSUME SettleInv, NEW a \in Actions,
           \/ PrepareAction(a) \/ MarkActionSubmitting(a) \/ GateReadChildren(a)
           \/ GateReadActions(a) \/ StartEntry(a) \/ CompleteAction(a)
           \/ RefuseAction(a) \/ StopAction(a) \/ LedgerFails(a) \/ Crash(a)
    PROVE  /\ SettleOK(a)'
           /\ action[a] \in TerminalStates => action'[a] = action[a]
<1>1. PhaseInv /\ TypeOK /\ PhaseOK(a) /\ SettleOK(a)
  BY DEF SettleInv, PhaseInv
<1>2. child' = child /\ audit' = audit
  BY <1>1, ParentStepShape DEF WorkerMoves
<1>3. action \in [Actions -> States] /\ leg[a] \in Legs
  BY <1>1 DEF TypeOK, States
<1>4. ASSUME action'[a] = action[a]
      PROVE  SettleOK(a)'
  BY <1>1, <1>2, <1>4 DEF SettleOK, UnresolvedChild, UnresolvedAction
<1>5. ASSUME \A l \in Legs : ~UnresolvedChild(a, l), ~AllSettledWithNoOrder(child[a])
      PROVE  SettleOK(a)'
  BY <1>1, <1>2, <1>5 DEF SettleOK, UnresolvedChild
<1>6. ASSUME worker[a] \in Early
      PROVE  SettleOK(a)'
  <2>1. \A l \in Legs : child[a][l] = NoRow
    BY <1>1, <1>6 DEF PhaseOK
  <2>2. \A l \in Legs : ~UnresolvedChild(a, l)
    BY <2>1, NoRowFacts DEF UnresolvedChild
  <2>3. ~AllSettledWithNoOrder(child[a])
    BY <2>1, NoRowFacts DEF AllSettledWithNoOrder, TerminalStates
  <2>4. QED  BY <1>5, <2>2, <2>3
<1>7. CASE PrepareAction(a)
  BY <1>6, <1>7 DEF PrepareAction, Early, TerminalStates
<1>8. CASE MarkActionSubmitting(a)
  BY <1>1, <1>6, <1>8 DEF MarkActionSubmitting, Early, PhaseOK, TerminalStates
<1>9. CASE \/ GateReadChildren(a) \/ GateReadActions(a) \/ StartEntry(a)
           \/ LedgerFails(a) \/ Crash(a)
  BY <1>4, <1>9 DEF GateReadChildren, GateReadActions, StartEntry, LedgerFails, Crash
<1>10. CASE CompleteAction(a)
  <2>1. \A m \in Legs : Closed(child[a][m])
    BY <1>1, <1>10 DEF CompleteAction, PhaseOK
  <2>2. \A m \in Legs : ~UnresolvedChild(a, m)
    BY <2>1, NoRowFacts DEF Closed, UnresolvedChild, UnresolvedStates, TerminalStates
  <2>3. CASE action[a] = "rejected"
    BY <1>3, <1>4, <1>10, <2>3 DEF CompleteAction
  <2>4. CASE action[a] # "rejected"
    <3>1. ~AllSettledWithNoOrder(child[a])
      BY <1>1, <2>4 DEF SettleOK
    <3>2. action[a] \in TerminalStates => action'[a] = action[a]
      BY <1>3, <1>10, <2>4 DEF CompleteAction, TerminalStates
    <3>3. QED  BY <1>5, <2>2, <3>1, <3>2
  <2>5. QED  BY <2>3, <2>4
<1>11. CASE RefuseAction(a)
  BY <1>6, <1>11 DEF RefuseAction, Early, MarkActionState
<1>12. CASE StopAction(a)
  <2>1. \/ action' = action
        \/ action[a] \notin TerminalStates /\ action'[a] = "unknown"
    BY <1>3, <1>12 DEF StopAction, MarkActionState
  <2>2. CASE action' = action
    BY <1>4, <2>2
  <2>3. CASE action[a] \notin TerminalStates /\ action'[a] = "unknown"
    <3>1. ~AllSettledWithNoOrder(child[a])
      BY <1>1, <2>3 DEF SettleOK, TerminalStates
    <3>2. QED
      BY <1>1, <1>2, <2>3, <3>1 DEF SettleOK, UnresolvedAction, UnresolvedStates
  <2>4. QED  BY <2>1, <2>2, <2>3
<1>13. QED
  BY <1>7, <1>8, <1>9, <1>10, <1>11, <1>12

\* The same for the steps that touch a child.
LEMMA ChildSettles ==
    ASSUME SettleInv, NEW a \in Actions,
           \/ PrepareChild(a) \/ MarkSubmitting(a) \/ Acknowledge(a)
           \/ CallFails(a) \/ CallRejected(a) \/ PersistLeg(a)
           \/ \E l \in Legs : ReconcileAttempt(a, l) \/ Settling(a, l)
    PROVE  /\ SettleOK(a)'
           /\ action[a] \in TerminalStates => action'[a] = action[a]
<1>1. PhaseInv /\ TypeOK /\ SettleOK(a) /\ leg[a] \in Legs
  BY DEF SettleInv, PhaseInv, TypeOK
<1>2. CASE PrepareChild(a)
  <2>1. action' = action /\ audit' = audit
    BY <1>2 DEF PrepareChild
  <2>2. CASE ParentAcceptsChild(a)
    <3>1. child'[a][leg[a]] = NewRow
      BY <1>1, <1>2, <2>2 DEF PrepareChild, TypeOK
    <3>2. ~AllSettledWithNoOrder(child'[a])
      BY <1>1, <3>1, NewRowFacts, OpenNotSettled DEF UnresolvedStates
    <3>3. a \notin audit /\ UnresolvedAction(a)
      BY <1>1, <2>2 DEF ParentAcceptsChild, SettleOK, UnresolvedAction, UnresolvedStates
    <3>4. QED  BY <2>1, <3>2, <3>3 DEF SettleOK, UnresolvedAction
  <2>3. CASE ~ParentAcceptsChild(a)
    BY <1>1, <1>2, <2>1, <2>3
       DEF PrepareChild, SettleOK, UnresolvedChild, UnresolvedAction
  <2>4. QED  BY <2>1, <2>2, <2>3
<1>3. CASE ~PrepareChild(a)
  <2>1. child[a][leg[a]] \in Row
    BY <1>1, <1>3, ChildStepRow
  <2>2. PICK row \in Row : SetChild(a, leg[a], row) /\ RowStep(child[a][leg[a]], row)
    BY <1>1, <1>3, ChildStepRow
  <2>3. SettleOK(a)'
    BY <2>1, <2>2, ChildStepSettles DEF RowStep
  <2>4. CASE row = child[a][leg[a]]
    BY <1>1, <2>2, <2>3, <2>4, OpenChildNoSettlement
  <2>5. CASE row # child[a][leg[a]]
    <3>1. UnresolvedChild(a, leg[a])
      BY <2>1, <2>2, <2>5, NoRowFacts DEF RowStep, UnresolvedChild
    <3>2. action[a] \notin TerminalStates
      BY <1>1, <3>1 DEF SettleOK, UnresolvedAction, UnresolvedStates, TerminalStates
    <3>3. QED  BY <2>3, <3>2
  <2>6. QED  BY <2>4, <2>5
<1>4. QED  BY <1>2, <1>3

\* SettleInv is inductive, and a step never changes a settled parent.
LEMMA StepSettleInv ==
    ASSUME SettleInv, [Next]_vars
    PROVE  /\ SettleInv'
           /\ \A a \in Actions : action[a] \in TerminalStates => action'[a] = action[a]
<1>1. PhaseInv'
  BY StepPhaseInv DEF SettleInv
<1>2. CASE UNCHANGED vars
  <2>1. \A a \in Actions : SettleOK(a)'
    BY <1>2 DEF SettleInv, SettleOK, UnresolvedChild, UnresolvedAction, vars
  <2>2. QED  BY <1>1, <1>2, <2>1 DEF SettleInv, vars
<1>3. CASE Next
  <2>1. PICK a \in Actions :
          \/ WorkerStep(a) \/ BrokerAccepts(a) \/ Crash(a)
          \/ \E l \in Legs : ReconcileAttempt(a, l) \/ Settling(a, l)
    BY <1>3 DEF Next
  <2>2. Frame(a)
    BY <2>1, StepIsStep, StepTypeAndFrame DEF SettleInv, PhaseInv
  <2>3. SettleOK(a)' /\ (action[a] \in TerminalStates => action'[a] = action[a])
    <3>1. CASE WorkerStep(a) \/ Crash(a)
      BY <3>1, ParentStepSettles, ChildSettles DEF WorkerStep
    <3>2. CASE BrokerAccepts(a)
      BY <3>2 DEF BrokerAccepts, SettleInv, SettleOK, UnresolvedChild, UnresolvedAction
    <3>3. CASE \E l \in Legs : ReconcileAttempt(a, l) \/ Settling(a, l)
      BY <3>3, ChildSettles
    <3>4. QED  BY <2>1, <3>1, <3>2, <3>3
  <2>4. \A b \in Actions \ {a} : SettleOK(b)' /\ action'[b] = action[b]
    BY <2>2, SettleFramed DEF SettleInv, Frame
  <2>5. QED  BY <1>1, <2>3, <2>4 DEF SettleInv
<1>4. QED  BY <1>2, <1>3

\* The initial states satisfy it.
LEMMA InitSettleInv == Init => SettleInv
<1> SUFFICES ASSUME Init PROVE SettleInv
  OBVIOUS
<1>1. \A a \in Actions, l \in Legs : child[a][l] = NoRow
  BY DEF Init
<1>2. \A a \in Actions : SettleOK(a)
  BY <1>1, NoRowFacts
     DEF Init, SettleOK, UnresolvedChild, AllSettledWithNoOrder, TerminalStates
<1>3. QED  BY <1>2, InitPhaseInv DEF SettleInv

\* An order intent whose outcome is open keeps its composite parent, and so
\* the account, unresolved, for any number of actions and for workers of any
\* speed.
THEOREM OpenChildBlocks == Spec => []OpenChildKeepsParentOpen
<1>1. SettleInv => OpenChildKeepsParentOpen
  BY DEF SettleInv, SettleOK, OpenChildKeepsParentOpen
<1>2. QED  BY <1>1, InitSettleInv, StepSettleInv, PTL DEF Spec

\* An action with a child resolved as no order, once its children are
\* settled, is rejected and has its audit event, whatever settles last.
THEOREM NoOrderIsAudited == Spec => []NoOrderEndsRejectedAndAudited
<1>1. SettleInv => NoOrderEndsRejectedAndAudited
  BY DEF SettleInv, SettleOK, NoOrderEndsRejectedAndAudited
<1>2. QED  BY <1>1, InitSettleInv, StepSettleInv, PTL DEF Spec

\* A settled parent row, from which retries are answered, never changes.
THEOREM ActionsAreFinal == Spec => SettledActionIsFinal
<1>1. SettleInv /\ [Next]_vars =>
        [\A a \in Actions : action[a] \in TerminalStates => action'[a] = action[a]]_vars
  BY StepSettleInv
<1>2. QED  BY <1>1, InitSettleInv, StepSettleInv, PTL DEF Spec, SettledActionIsFinal

-----------------------------------------------------------------------------
(* The account gate, when no worker outlives its evidence.                 *)

AtChild == {"prepared_leg", "calling", "acknowledged"}

GateOK(a) ==
    /\ Trading(a) => UnresolvedAction(a)
    /\ Trading(a) => \A l \in Legs : child[a][l].state # "resolved_no_order"
    /\ worker[a] \in AtChild => child[a][leg[a]].state # "rejected"
    /\ worker[a] \in {"prepared_leg", "calling"} => child[a][leg[a]].long = FALSE
    /\ worker[a] = "acknowledged" => child[a][leg[a]].ext # NoOrder
    /\ \A l \in Legs : <<a, l>> \in placed =>
         /\ child[a][l] \in Row
         /\ child[a][l].state \notin {"rejected", "resolved_no_order"}
         /\ child[a][l].long = FALSE

GateInv == SettleInv /\ (\A a \in Actions : GateOK(a)) /\ EntryOnlyWhenSettled

\* What the row operators do to the fields the gate looks at.
LEMMA RowFields ==
    ASSUME NEW row \in Row
    PROVE  /\ MarkState(row, "submitting").long = row.long
           /\ MarkState(row, "submitting").state \in {row.state, "submitting"}
           /\ MarkState(row, "rejected").state \in {"persisted", "rejected", "resolved_no_order"}
           /\ MarkState(row, "rejected").state = "resolved_no_order" =>
                row.state = "resolved_no_order"
           /\ MarkBrokerAcknowledged(row, BrokerOrder).long = row.long
           /\ MarkBrokerAcknowledged(row, BrokerOrder).state \in
                {row.state, "broker_acknowledged"}
           /\ ~IsLateResult(row, BrokerOrder) =>
                MarkBrokerAcknowledged(row, BrokerOrder).ext = BrokerOrder
           /\ PersistBrokerResult(row, BrokerOrder).long = row.long
           /\ row.state \notin {"rejected", "resolved_no_order"} =>
                PersistBrokerResult(row, BrokerOrder).state = "persisted"
           /\ \A ext \in {NoOrder, BrokerOrder} :
                /\ MarkUnknown(row, ext).long = row.long
                /\ MarkUnknown(row, ext).state \in {row.state, "unknown"}
<1>1. /\ MarkState(row, "submitting").long = row.long
      /\ MarkState(row, "submitting").state \in {row.state, "submitting"}
  BY DEF MarkState, Row, RowType
<1>2. /\ MarkState(row, "rejected").state \in {"persisted", "rejected", "resolved_no_order"}
      /\ MarkState(row, "rejected").state = "resolved_no_order" =>
           row.state = "resolved_no_order"
  BY DEF MarkState, Row, RowType, TerminalStates
<1>3. /\ MarkBrokerAcknowledged(row, BrokerOrder).long = row.long
      /\ MarkBrokerAcknowledged(row, BrokerOrder).state \in {row.state, "broker_acknowledged"}
  BY DEF MarkBrokerAcknowledged, Row, RowType
<1>4. ~IsLateResult(row, BrokerOrder) =>
         MarkBrokerAcknowledged(row, BrokerOrder).ext = BrokerOrder
  BY DEF IsLateResult, MarkBrokerAcknowledged, Row, RowType, TerminalStates
<1>5. /\ PersistBrokerResult(row, BrokerOrder).long = row.long
      /\ row.state \notin {"rejected", "resolved_no_order"} =>
           PersistBrokerResult(row, BrokerOrder).state = "persisted"
  BY DEF PersistBrokerResult, Row, RowType, TerminalStates
<1>6. ASSUME NEW ext \in {NoOrder, BrokerOrder}
      PROVE  /\ MarkUnknown(row, ext).long = row.long
             /\ MarkUnknown(row, ext).state \in {row.state, "unknown"}
  BY DEF MarkUnknown, Row, RowType
<1>7. QED  BY <1>1, <1>2, <1>3, <1>4, <1>5, <1>6

\* The same for mark_unknown, as a whole row.
LEMMA MarkUnknownRow ==
    ASSUME NEW row \in Row, NEW ext \in {NoOrder, BrokerOrder}
    PROVE  /\ MarkUnknown(row, ext) \in Row
           /\ MarkUnknown(row, ext).long = row.long
           /\ MarkUnknown(row, ext).state \in {row.state, "unknown"}
<1>1. RowStep(row, MarkUnknown(row, ext))
  BY RowOperations
<1>2. /\ MarkUnknown(row, ext).long = row.long
      /\ MarkUnknown(row, ext).state \in {row.state, "unknown"}
  BY RowFields
<1>3. QED  BY <1>1, <1>2 DEF RowStep

\* As long as nothing is resolved as no order, a child that settles in
\* another way does not touch its parent.
LEMMA PlainChildKeepsParent ==
    ASSUME PhaseInv, NEW a \in Actions, NEW row \in Row,
           SetChild(a, leg[a], row),
           row.state # "resolved_no_order",
           \A l \in Legs : child[a][l].state # "resolved_no_order"
    PROVE  /\ action' = action
           /\ \A l \in Legs : child'[a][l].state # "resolved_no_order"
<1>1. /\ TypeOK /\ leg[a] \in Legs
      /\ \A m \in Legs \ {leg[a]} : Closed(child[a][m])
  BY DEF PhaseInv, PhaseOK, TypeOK
<1>2. ChildMoves(a, leg[a], row)
  BY <1>1, SetChildMoves
<1>3. \A l \in Legs : child'[a][l].state # "resolved_no_order"
  BY <1>1, <1>2 DEF ChildMoves
<1>4. ~AllSettledWithNoOrder(child'[a])
  BY <1>3 DEF AllSettledWithNoOrder
<1>5. CASE row = child[a][leg[a]] \/ row.state \in UnresolvedStates
  BY <1>1, <1>3, <1>5, OpenChildNoSettlement
<1>6. CASE row # child[a][leg[a]] /\ row.state \in TerminalStates
  BY <1>1, <1>3, <1>4, <1>6, TerminalChildSettles DEF Closed
<1>7. QED  BY <1>5, <1>6, NoRowFacts

\* The gate's facts about one action survive the steps of others.
LEMMA GateFramed ==
    ASSUME NEW a \in Actions, NEW b \in Actions \ {a}, Frame(a), GateOK(b)
    PROVE  GateOK(b)'
  BY DEF Frame, GateOK, Trading, UnresolvedAction, AtChild

\* The steps that leave the children alone.
LEMMA ParentStepGate ==
    ASSUME PhaseInv, NEW a \in Actions, GateOK(a),
           \/ PrepareAction(a) \/ MarkActionSubmitting(a) \/ GateReadChildren(a)
           \/ GateReadActions(a) \/ StartEntry(a) \/ CompleteAction(a)
           \/ RefuseAction(a) \/ StopAction(a) \/ LedgerFails(a) \/ Crash(a)
    PROVE  GateOK(a)'
<1>1. TypeOK /\ PhaseOK(a)
  BY DEF PhaseInv
<1>2. /\ child' = child /\ leg' = leg /\ placed' = placed
      /\ worker \in [Actions -> WorkerStates]
  BY <1>1, ParentStepShape DEF WorkerMoves, TypeOK
<1>3. ASSUME ~Trading(a)'
      PROVE  GateOK(a)'
  BY <1>2, <1>3 DEF GateOK, Trading, AtChild
<1>4. CASE PrepareAction(a) \/ MarkActionSubmitting(a) \/ GateReadChildren(a)
           \/ CompleteAction(a) \/ RefuseAction(a) \/ StopAction(a)
           \/ LedgerFails(a) \/ Crash(a)
  <2>1. ~Trading(a)'
    BY <1>2, <1>4 DEF PrepareAction, MarkActionSubmitting, GateReadChildren,
       CompleteAction, RefuseAction, StopAction, LedgerFails, Crash, Goto, Trading
  <2>2. QED  BY <1>3, <2>1
<1>5. CASE GateReadActions(a)
  <2>1. /\ action[a] = "submitting" /\ action' = action
        /\ \A l \in Legs : child[a][l] = NoRow
    BY <1>1, <1>5 DEF GateReadActions, PhaseOK, Early
  <2>2. worker'[a] \in {"refuse", "authorized"}
    BY <1>2, <1>5 DEF GateReadActions, Goto
  <2>3. QED
    BY <1>2, <2>1, <2>2, NoRowFacts
       DEF GateOK, Trading, AtChild, UnresolvedAction, UnresolvedStates, TerminalStates
<1>6. CASE StartEntry(a)
  <2>1. action' = action /\ worker'[a] \in {"refuse", "complete", "leg"} /\ Trading(a)
    BY <1>2, <1>6 DEF StartEntry, Goto, Trading
  <2>2. QED  BY <1>2, <2>1 DEF GateOK, Trading, AtChild, UnresolvedAction
<1>7. QED  BY <1>4, <1>5, <1>6

\* The worker's own transactions on its child.
LEMMA WorkerChildGate ==
    ASSUME PhaseInv, NEW a \in Actions, GateOK(a),
           \/ PrepareChild(a) \/ MarkSubmitting(a) \/ Acknowledge(a)
           \/ CallFails(a) \/ CallRejected(a) \/ PersistLeg(a)
    PROVE  GateOK(a)'
<1> DEFINE l == leg[a]
           old == child[a][l]
<1>1. /\ TypeOK /\ PhaseOK(a) /\ l \in Legs
      /\ worker \in [Actions -> WorkerStates] /\ leg \in [Actions -> Legs]
  BY DEF PhaseInv, TypeOK
<1>2. /\ Trading(a) /\ UnresolvedAction(a)
      /\ \A m \in Legs : child[a][m].state # "resolved_no_order"
  BY DEF GateOK, Trading, PrepareChild, MarkSubmitting, Acknowledge, CallFails,
     CallRejected, PersistLeg
<1>3. placed' = placed
  BY DEF PrepareChild, MarkSubmitting, Acknowledge, CallFails, CallRejected, PersistLeg
<1>4. CASE PrepareChild(a)
  <2>1. CASE ParentAcceptsChild(a)
    <3>1. /\ child'[a][l] = NewRow /\ worker'[a] = "prepared_leg"
          /\ leg' = leg /\ action' = action
          /\ \A m \in Legs \ {l} : child'[a][m] = child[a][m]
      BY <1>1, <1>4, <2>1 DEF PrepareChild, Goto, TypeOK
    <3>2. QED
      BY <1>1, <1>2, <1>3, <3>1, NewRowFacts
         DEF GateOK, Trading, AtChild, UnresolvedAction
  <2>2. CASE ~ParentAcceptsChild(a)
    <3>1. child' = child /\ worker'[a] = "stop"
      BY <1>1, <1>4, <2>2 DEF PrepareChild, Goto
    <3>2. QED  BY <1>3, <3>1 DEF GateOK, Trading, AtChild
  <2>3. QED  BY <2>1, <2>2
<1>5. CASE ~PrepareChild(a)
  <2>1. /\ worker[a] \in AtChild /\ old \in Row /\ old.state # "rejected"
        /\ old.state # "resolved_no_order"
    BY <1>1, <1>2, <1>5 DEF AtChild, PhaseOK, GateOK, MarkSubmitting, Acknowledge,
       CallFails, CallRejected, PersistLeg
  <2>2. ASSUME NEW row \in Row, SetChild(a, l, row), row.state # "resolved_no_order"
        PROVE  /\ action' = action
               /\ child'[a][l] = row
               /\ \A m \in Legs \ {l} : child'[a][m] = child[a][m]
               /\ \A m \in Legs : child'[a][m].state # "resolved_no_order"
    BY <1>1, <1>2, <2>2, PlainChildKeepsParent, SetChildMoves DEF ChildMoves
  <2>3. ASSUME NEW row \in Row, SetChild(a, l, row),
               row.state # "resolved_no_order",
               <<a, l>> \in placed => row.state # "rejected" /\ row.long = old.long,
               worker'[a] \in AtChild => leg' = leg /\ row.state # "rejected",
               worker'[a] \in {"prepared_leg", "calling"} => row.long = FALSE,
               worker'[a] = "acknowledged" => row.ext # NoOrder
        PROVE  GateOK(a)'
    <3>1. /\ action' = action
          /\ child'[a][l] = row
          /\ \A m \in Legs \ {l} : child'[a][m] = child[a][m]
          /\ \A m \in Legs : child'[a][m].state # "resolved_no_order"
      BY <2>2, <2>3
    <3>2. \A m \in Legs : <<a, m>> \in placed' =>
            /\ child'[a][m] \in Row
            /\ child'[a][m].state \notin {"rejected", "resolved_no_order"}
            /\ child'[a][m].long = FALSE
      BY <1>3, <2>1, <2>3, <3>1 DEF GateOK
    <3>3. (worker'[a] \in AtChild => child'[a][leg'[a]].state # "rejected")
      BY <2>3, <3>1
    <3>4. (worker'[a] \in {"prepared_leg", "calling"} => child'[a][leg'[a]].long = FALSE)
      BY <2>3, <3>1 DEF AtChild
    <3>5. (worker'[a] = "acknowledged" => child'[a][leg'[a]].ext # NoOrder)
      BY <2>3, <3>1 DEF AtChild
    <3>6. QED
      BY <1>2, <3>1, <3>2, <3>3, <3>4, <3>5 DEF GateOK, UnresolvedAction
  <2>4. CASE MarkSubmitting(a)
    <3> DEFINE row == MarkState(old, "submitting")
    <3>1. /\ row \in Row /\ row.long = old.long /\ row.state \in {old.state, "submitting"}
      BY <2>1, RowOperations, RowFields DEF RowStep
    <3>2. SetChild(a, l, row) /\ worker'[a] = "calling" /\ leg' = leg /\ old.long = FALSE
      BY <1>1, <2>4 DEF MarkSubmitting, Goto, GateOK
    <3> HIDE DEF row
    <3>3. QED  BY <2>1, <2>3, <3>1, <3>2
  <2>5. CASE Acknowledge(a)
    <3> DEFINE row == MarkBrokerAcknowledged(old, BrokerOrder)
    <3>1. /\ row \in Row /\ row.long = old.long
          /\ row.state \in {old.state, "broker_acknowledged"}
          /\ ~IsLateResult(old, BrokerOrder) => row.ext = BrokerOrder
      BY <2>1, RowOperations, RowFields DEF RowStep
    <3>2. /\ SetChild(a, l, row) /\ leg' = leg
          /\ worker'[a] = IF IsLateResult(old, BrokerOrder) THEN "stop" ELSE "acknowledged"
      BY <1>1, <2>5 DEF Acknowledge, Goto
    <3> HIDE DEF row
    <3>3. QED  BY <2>1, <2>3, <3>1, <3>2, ActionConstants DEF AtChild
  <2>6. CASE CallFails(a)
    <3>1. PICK ext \in {NoOrder, BrokerOrder} : SetChild(a, l, MarkUnknown(old, ext))
      BY <2>6 DEF CallFails
    <3> DEFINE row == MarkUnknown(old, ext)
    <3>2. row \in Row /\ row.long = old.long /\ row.state \in {old.state, "unknown"}
      BY <2>1, <3>1, MarkUnknownRow
    <3>3. SetChild(a, l, row) /\ worker'[a] = "stop"
      BY <1>1, <2>6, <3>1 DEF CallFails, Goto
    <3> HIDE DEF row
    <3>4. QED  BY <2>1, <2>3, <3>2, <3>3 DEF AtChild
  <2>7. CASE CallRejected(a)
    <3> DEFINE row == MarkState(old, "rejected")
    <3>1. row \in Row /\ row.state # "resolved_no_order"
      BY <2>1, RowOperations, RowFields DEF RowStep
    <3>2. SetChild(a, l, row) /\ <<a, l>> \notin placed
      BY <2>7 DEF CallRejected
    <3>3. worker'[a] \in {"complete", "leg", "stop"}
      BY <1>1, <2>7 DEF CallRejected, Goto, Legs
    <3> HIDE DEF row
    <3>4. QED  BY <2>3, <3>1, <3>2, <3>3 DEF AtChild
  <2>8. CASE PersistLeg(a)
    <3>1. worker'[a] \in {"stop", "leg", "complete"}
      BY <1>1, <2>8 DEF PersistLeg, Goto
    <3>2. CASE SetChild(a, l, MarkUnknown(old, NoOrder))
      <4> DEFINE row == MarkUnknown(old, NoOrder)
      <4>1. NoOrder \in {NoOrder, BrokerOrder}
        OBVIOUS
      <4>2. row \in Row /\ row.long = old.long /\ row.state \in {old.state, "unknown"}
        BY <2>1, <4>1, MarkUnknownRow
      <4>3. SetChild(a, l, row)
        BY <3>2
      <4> HIDE DEF row
      <4>4. QED  BY <2>1, <2>3, <3>1, <4>2, <4>3 DEF AtChild
    <3>3. CASE SetChild(a, l, PersistBrokerResult(old, BrokerOrder))
      <4> DEFINE row == PersistBrokerResult(old, BrokerOrder)
      <4>1. row \in Row /\ row.long = old.long /\ row.state = "persisted"
        BY <2>1, RowOperations, RowFields DEF RowStep
      <4>2. SetChild(a, l, row)
        BY <3>3
      <4> HIDE DEF row
      <4>3. QED  BY <2>3, <3>1, <4>1, <4>2 DEF AtChild
    <3>4. QED  BY <2>8, <3>2, <3>3 DEF PersistLeg
  <2>9. QED  BY <1>5, <2>4, <2>5, <2>6, <2>7, <2>8
<1>6. QED  BY <1>4, <1>5

\* The reconciler and the operator: no child of a trading action has the
\* evidence for a resolution, because a call is over before the evidence is.
LEMMA OutsideGate ==
    ASSUME PhaseInv, ~SlowWorkers, NEW a \in Actions, GateOK(a), NEW l \in Legs,
           ReconcileMatch(a, l) \/ ReconcileAttempt(a, l) \/ ResolveChildNoOrder(a, l)
    PROVE  GateOK(a)'
<1> DEFINE old == child[a][l]
<1>1. UnresolvedChild(a, l) /\ TypeOK /\ PhaseOK(a)
  BY DEF ReconcileMatch, ReconcileAttempt, ResolveChildNoOrder, PhaseInv
<1>2. /\ l = leg[a] /\ old \in Row /\ worker[a] \notin Early
      /\ old.state \in UnresolvedStates
  BY <1>1, OpenChildIsCurrent DEF UnresolvedChild
<1>3. old.state \notin {"rejected", "resolved_no_order", "persisted"}
  BY <1>2 DEF UnresolvedStates
<1>4. worker' = worker /\ leg' = leg /\ placed' = placed
  BY DEF ReconcileMatch, ReconcileAttempt, ResolveChildNoOrder
<1>5. worker[a] \notin {"leg", "complete", "authorized"}
  BY <1>1, <1>2, NoRowFacts DEF PhaseOK, Closed, Early, UnresolvedStates, TerminalStates
<1>6. ASSUME NEW row \in Row, SetChild(a, l, row),
             row.state \notin {"rejected", "resolved_no_order"},
             <<a, l>> \in placed => row.long = FALSE,
             worker[a] \in {"prepared_leg", "calling"} => row.long = FALSE,
             worker[a] = "acknowledged" => row.ext # NoOrder
      PROVE  GateOK(a)'
  <2>1. ChildMoves(a, l, row)
    BY <1>1, <1>6, SetChildMoves
  <2>2. Trading(a) => /\ action' = action
                      /\ \A m \in Legs : child'[a][m].state # "resolved_no_order"
    BY <1>2, <1>6, PlainChildKeepsParent DEF GateOK
  <2>3. \A m \in Legs : <<a, m>> \in placed' =>
          /\ child'[a][m] \in Row
          /\ child'[a][m].state \notin {"rejected", "resolved_no_order"}
          /\ child'[a][m].long = FALSE
    BY <1>4, <1>6, <2>1 DEF ChildMoves, GateOK
  <2>4. child'[a][leg'[a]] = row
    BY <1>2, <1>4, <2>1 DEF ChildMoves
  <2>5. Trading(a)' => Trading(a) /\ UnresolvedAction(a)'
    BY <1>4, <2>2 DEF Trading, UnresolvedAction, GateOK
  <2>6. QED  BY <1>4, <1>6, <2>2, <2>3, <2>4, <2>5 DEF GateOK
<1>7. CASE ReconcileMatch(a, l)
  <2> DEFINE row == PersistBrokerResult(old, BrokerOrder)
  <2>1. row \in Row /\ row.long = old.long /\ row.state = "persisted"
    BY <1>2, <1>3, RowOperations, RowFields DEF RowStep
  <2>2. row.ext = BrokerOrder
    BY <1>2, <1>3 DEF PersistBrokerResult, Row, RowType, UnresolvedStates, TerminalStates
  <2>3. SetChild(a, l, row) /\ old.long = FALSE
    BY <1>7 DEF ReconcileMatch, GateOK
  <2> HIDE DEF row
  <2>4. QED  BY <1>6, <2>1, <2>2, <2>3, ActionConstants
<1>8. CASE ReconcileAttempt(a, l)
  <2>1. PICK zeroMatch \in BOOLEAN, long \in BOOLEAN :
          /\ zeroMatch => <<a, l>> \notin placed
          /\ zeroMatch /\ long /\ InCall(a, l) => SlowWorkers
          /\ SetChild(a, l, RecordReconciliationAttempt(old, zeroMatch, long))
    BY <1>8 DEF ReconcileAttempt
  <2> DEFINE row == RecordReconciliationAttempt(old, zeroMatch, long)
  <2>2. /\ row \in Row /\ row.state = "unknown" /\ row.ext = old.ext
        /\ row.long => zeroMatch /\ (old.long \/ long)
    BY <1>2, AttemptRow
  <2>3. SetChild(a, l, row)
    BY <2>1
  <2> HIDE DEF row
  <2>4. row.long \in BOOLEAN /\ old.long \in BOOLEAN
    BY <1>2, <2>2 DEF Row, RowType
  <2>5. <<a, l>> \in placed => row.long = FALSE
    BY <2>1, <2>2, <2>4
  <2>6. worker[a] \in {"prepared_leg", "calling"} => row.long = FALSE
    BY <1>2, <2>1, <2>2, <2>4 DEF InCall, GateOK
  <2>7. worker[a] = "acknowledged" => row.ext # NoOrder
    BY <1>2, <2>2 DEF GateOK
  <2>8. QED  BY <1>6, <2>2, <2>3, <2>5, <2>6, <2>7
<1>9. CASE ResolveChildNoOrder(a, l)
  <2>1. old.ext = NoOrder /\ old.long
    BY <1>9 DEF ResolveChildNoOrder, NoOrderEvidenceReady
  <2>2. worker[a] \notin AtChild
    BY <1>2, <2>1 DEF GateOK, AtChild
  <2>3. ~Trading(a) /\ ~Trading(a)'
    BY <1>4, <1>5, <2>2 DEF Trading, AtChild
  <2>4. <<a, l>> \notin placed
    BY <2>1 DEF GateOK
  <2>5. PICK row \in Row : SetChild(a, l, row)
    BY OutsideChildShape DEF ChildStep
  <2>6. ChildMoves(a, l, row)
    BY <1>1, <2>5, SetChildMoves
  <2>7. \A m \in Legs : <<a, m>> \in placed' => child'[a][m] = child[a][m]
    BY <1>4, <2>4, <2>6 DEF ChildMoves
  <2>8. QED  BY <1>4, <2>2, <2>3, <2>7 DEF GateOK, AtChild
<1>10. QED  BY <1>7, <1>8, <1>9

\* While an action is not trading and has nothing open, its step neither
\* opens a child nor sends an order, and only the gate makes it trade.
LEMMA QuietStep ==
    ASSUME PhaseInv, NEW a \in Actions, ~Trading(a),
           \A l \in Legs : ~UnresolvedChild(a, l),
           \/ WorkerStep(a) \/ BrokerAccepts(a) \/ Crash(a)
           \/ \E l \in Legs : ReconcileAttempt(a, l) \/ Settling(a, l)
    PROVE  /\ child'[a] = child[a]
           /\ placed' = placed
           /\ Trading(a)' => GateReadActions(a)
<1>1. TypeOK
  BY DEF PhaseInv
<1>2. ~\E l \in Legs : ReconcileAttempt(a, l) \/ Settling(a, l)
  BY DEF ReconcileAttempt, Settling, ReconcileMatch, ResolveChildNoOrder
<1>3. ~(\/ BrokerAccepts(a) \/ PrepareChild(a) \/ MarkSubmitting(a) \/ Acknowledge(a)
        \/ CallFails(a) \/ CallRejected(a) \/ PersistLeg(a) \/ StartEntry(a)
        \/ LedgerFails(a) \/ CompleteAction(a))
  BY DEF Trading, BrokerAccepts, PrepareChild, MarkSubmitting, Acknowledge,
     CallFails, CallRejected, PersistLeg, StartEntry, LedgerFails, CompleteAction
<1>4. \/ PrepareAction(a) \/ MarkActionSubmitting(a) \/ GateReadChildren(a)
      \/ GateReadActions(a) \/ RefuseAction(a) \/ StopAction(a) \/ Crash(a)
  BY <1>2, <1>3 DEF WorkerStep
<1>5. child' = child /\ placed' = placed
  BY <1>4 DEF PrepareAction, MarkActionSubmitting, GateReadChildren, GateReadActions,
     RefuseAction, StopAction, Crash
<1>6. Trading(a)' => GateReadActions(a)
  BY <1>1, <1>4 DEF TypeOK, Trading, PrepareAction, MarkActionSubmitting,
     GateReadChildren, RefuseAction, StopAction, Crash, Goto
<1>7. QED  BY <1>5, <1>6

\* What the account gate sees of an action whose parent is settled.
LEMMA SettledIsClear ==
    ASSUME SettleInv, NEW b \in Actions, GateOK(b), ~UnresolvedAction(b)
    PROVE  /\ ~Trading(b)
           /\ \A l \in Legs :
                /\ ~UnresolvedChild(b, l)
                /\ <<b, l>> \in placed => child[b][l].state = "persisted"
<1>1. ~Trading(b) /\ \A l \in Legs : ~UnresolvedChild(b, l)
  BY DEF SettleInv, SettleOK, GateOK
<1>2. ASSUME NEW l \in Legs, <<b, l>> \in placed
      PROVE  child[b][l].state = "persisted"
  BY <1>1, <1>2, NoRowFacts DEF GateOK, UnresolvedChild, TerminalStates
<1>3. QED  BY <1>1, <1>2

\* The account gate holds after every step.
LEMMA StepEntryOnlyWhenSettled ==
    ASSUME GateInv, NEW a \in Actions, Frame(a),
           GateOK(a)',
           \/ WorkerStep(a) \/ BrokerAccepts(a) \/ Crash(a)
           \/ \E l \in Legs : ReconcileAttempt(a, l) \/ Settling(a, l)
    PROVE  EntryOnlyWhenSettled'
<1> SUFFICES ASSUME NEW x \in Actions, NEW y \in Actions \ {x}, Trading(x)'
             PROVE  /\ ~Trading(y)'
                    /\ \A l \in Legs :
                         /\ ~UnresolvedChild(y, l)'
                         /\ <<y, l>> \in placed' => child'[y][l].state = "persisted"
  BY DEF EntryOnlyWhenSettled
<1>1. PhaseInv /\ SettleInv /\ \A b \in Actions : GateOK(b)
  BY DEF GateInv, SettleInv
<1>2. \A b \in Actions \ {a} :
        /\ Trading(b)' <=> Trading(b)
        /\ \A l \in Legs : /\ UnresolvedChild(b, l)' <=> UnresolvedChild(b, l)
                           /\ <<b, l>> \in placed' <=> <<b, l>> \in placed
                           /\ child'[b][l] = child[b][l]
  BY DEF Frame, Trading, UnresolvedChild
<1>3. CASE Trading(x)
  <2>1. /\ ~Trading(y)
        /\ \A l \in Legs :
             /\ ~UnresolvedChild(y, l)
             /\ <<y, l>> \in placed => child[y][l].state = "persisted"
    BY <1>3 DEF GateInv, EntryOnlyWhenSettled
  <2>2. CASE y # a
    BY <1>2, <2>1, <2>2
  <2>3. CASE y = a
    <3>1. /\ child'[a] = child[a] /\ placed' = placed
          /\ Trading(a)' => GateReadActions(a)
      BY <1>1, <2>1, <2>3, QuietStep
    <3>2. ~Trading(a)'
      <4>1. UnresolvedAction(x) /\ x \in Actions \ {a}
        BY <1>1, <1>3, <2>3 DEF GateOK
      <4>2. GateReadActions(a) => worker'[a] = "refuse"
        BY <1>1, <4>1 DEF GateReadActions, Goto, PhaseInv, TypeOK
      <4>3. QED  BY <3>1, <4>2 DEF Trading
    <3>3. QED  BY <2>1, <2>3, <3>1, <3>2 DEF UnresolvedChild
  <2>4. QED  BY <2>2, <2>3
<1>4. CASE ~Trading(x)
  <2>1. x = a
    BY <1>2, <1>4
  <2>2. GateReadActions(a)
    <3>2. CASE \A l \in Legs : ~UnresolvedChild(a, l)
      BY <1>1, <1>4, <2>1, <3>2, QuietStep
    <3>3. CASE \E l \in Legs : UnresolvedChild(a, l)
      <4>1. worker[a] \notin Early
        BY <1>1, <3>3, OpenChildIsCurrent
      <4>2. worker[a] \in {"stop", "done"}
        BY <1>1, <1>4, <2>1, <4>1 DEF PhaseInv, TypeOK, WorkerStates, Early, Trading
      <4>3. worker'[a] \in {"stop", "done"}
        <5>1. CASE StopAction(a) \/ Crash(a)
          BY <1>1, <5>1 DEF StopAction, Crash, Goto, PhaseInv, TypeOK
        <5>2. CASE \E l \in Legs : ReconcileAttempt(a, l) \/ Settling(a, l)
          BY <4>2, <5>2 DEF ReconcileAttempt, Settling, ReconcileMatch, ResolveChildNoOrder
        <5>3. StopAction(a) \/ Crash(a)
              \/ \E l \in Legs : ReconcileAttempt(a, l) \/ Settling(a, l)
          BY <4>2 DEF WorkerStep, PrepareAction, MarkActionSubmitting, GateReadChildren,
             GateReadActions, StartEntry, PrepareChild, MarkSubmitting, Acknowledge,
             CallFails, CallRejected, PersistLeg, LedgerFails, CompleteAction,
             RefuseAction, BrokerAccepts
        <5>4. QED  BY <5>1, <5>2, <5>3
      <4>4. QED  BY <2>1, <4>3 DEF Trading
    <3>4. QED  BY <3>2, <3>3
  <2>3. \A b \in Actions \ {a} : ~UnresolvedAction(b)
    <3>1. CASE \E b \in Actions \ {a} : UnresolvedAction(b)
      <4>1. worker'[a] = "refuse"
        BY <1>1, <2>2, <3>1 DEF GateReadActions, Goto, PhaseInv, TypeOK
      <4>2. QED  BY <2>1, <4>1 DEF Trading
    <3>2. QED  BY <3>1
  <2>4. QED  BY <1>1, <1>2, <2>1, <2>3, SettledIsClear
<1>5. QED  BY <1>3, <1>4

\* GateInv is inductive.
LEMMA StepGateInv ==
    ASSUME GateInv, ~SlowWorkers, [Next]_vars
    PROVE  GateInv'
<1>1. SettleInv' /\ SettleInv /\ PhaseInv
  BY StepSettleInv DEF GateInv, SettleInv
<1>2. CASE UNCHANGED vars
  <2>1. \A a \in Actions : GateOK(a)'
    BY <1>2 DEF GateInv, GateOK, Trading, UnresolvedAction, AtChild, vars
  <2>2. EntryOnlyWhenSettled'
    BY <1>2 DEF GateInv, EntryOnlyWhenSettled, Trading, UnresolvedChild, vars
  <2>3. QED  BY <1>1, <2>1, <2>2 DEF GateInv
<1>3. CASE Next
  <2>1. PICK a \in Actions :
          \/ WorkerStep(a) \/ BrokerAccepts(a) \/ Crash(a)
          \/ \E l \in Legs : ReconcileAttempt(a, l) \/ Settling(a, l)
    BY <1>3 DEF Next
  <2>2. Frame(a)
    BY <1>1, <2>1, StepIsStep, StepTypeAndFrame DEF PhaseInv
  <2>3. GateOK(a)'
    <3>1. GateOK(a)
      BY DEF GateInv
    <3>2. CASE WorkerStep(a) \/ Crash(a)
      BY <1>1, <3>1, <3>2, ParentStepGate, WorkerChildGate DEF WorkerStep
    <3>3. CASE BrokerAccepts(a)
      <4>1. /\ placed' = placed \cup {<<a, leg[a]>>} /\ worker[a] = "calling"
            /\ UNCHANGED <<action, child, worker, leg, audit>>
            /\ leg[a] \in Legs
        BY <1>1, <3>3 DEF BrokerAccepts, PhaseInv, TypeOK
      <4>2. /\ child[a][leg[a]] \in Row
            /\ child[a][leg[a]].state \notin {"rejected", "resolved_no_order"}
            /\ child[a][leg[a]].long = FALSE
        BY <1>1, <3>1, <4>1 DEF PhaseInv, PhaseOK, GateOK, Trading, AtChild
      <4>3. QED  BY <3>1, <4>1, <4>2 DEF GateOK, Trading, UnresolvedAction, AtChild
    <3>4. CASE \E l \in Legs : ReconcileAttempt(a, l) \/ Settling(a, l)
      BY <1>1, <3>1, <3>4, OutsideGate DEF Settling
    <3>5. QED  BY <2>1, <3>2, <3>3, <3>4
  <2>4. \A b \in Actions \ {a} : GateOK(b)'
    BY <2>2, GateFramed DEF GateInv
  <2>5. EntryOnlyWhenSettled'
    BY <2>1, <2>2, <2>3, StepEntryOnlyWhenSettled
  <2>6. QED  BY <1>1, <2>3, <2>4, <2>5 DEF GateInv
<1>4. QED  BY <1>2, <1>3

\* The initial states satisfy it.
LEMMA InitGateInv == Init => GateInv
<1> SUFFICES ASSUME Init PROVE GateInv
  OBVIOUS
<1>1. \A a \in Actions : ~Trading(a) /\ worker[a] \notin AtChild /\ placed = {}
  BY DEF Init, Trading, AtChild
<1>2. \A a \in Actions : GateOK(a)
  BY <1>1 DEF GateOK, AtChild
<1>3. EntryOnlyWhenSettled
  BY <1>1 DEF EntryOnlyWhenSettled
<1>4. QED  BY <1>2, <1>3, InitSettleInv DEF GateInv

\* At most one composite action of an account trades at a time, and only
\* when every other action's orders are settled in the local books, for any
\* number of actions, if no worker outlives the evidence about its call.
THEOREM GateExcludes ==
    ASSUME ~SlowWorkers
    PROVE  Spec => []EntryOnlyWhenSettled
<1>1. GateInv /\ [Next]_vars => GateInv'
  BY StepGateInv
<1>2. GateInv => EntryOnlyWhenSettled
  BY DEF GateInv
<1>3. QED  BY <1>1, <1>2, InitGateInv, PTL DEF Spec

-----------------------------------------------------------------------------
(* One action at a time.                                                   *)

\* The legs before and after the one the worker is at.
LegsInOrder(a) ==
    /\ leg[a] = "long_entry" => child[a]["short_entry"] = NoRow
    /\ leg[a] # "long_entry" => child[a]["long_entry"].state = "persisted"
    /\ leg[a] = "long_exit" => child[a]["short_entry"].state \in {"persisted", "rejected"}
    /\ leg[a] # "long_exit" => child[a]["long_exit"] = NoRow

SerialOK(a) ==
    /\ worker[a] # "idle" => action[a] # "none"
    /\ worker[a] = "acknowledged" => <<a, leg[a]>> \in placed
    /\ worker[a] = "leg" => child[a][leg[a]] = NoRow
    /\ \A l \in Legs : child[a][l].state = "persisted" => <<a, l>> \in placed
    /\ LegsInOrder(a)

SerialInv == GateInv /\ \A a \in Actions : SerialOK(a)

\* These facts about one action survive the steps of others.
LEMMA SerialFramed ==
    ASSUME NEW a \in Actions, NEW b \in Actions \ {a}, Frame(a), TypeOK, SerialOK(b)
    PROVE  SerialOK(b)'
<1>1. leg[b] \in Legs
  BY DEF TypeOK
<1>2. QED  BY <1>1 DEF Frame, SerialOK, LegsInOrder

\* The steps that leave the children alone.
LEMMA ParentStepSerial ==
    ASSUME PhaseInv, NEW a \in Actions, SerialOK(a),
           \/ PrepareAction(a) \/ MarkActionSubmitting(a) \/ GateReadChildren(a)
           \/ GateReadActions(a) \/ StartEntry(a) \/ CompleteAction(a)
           \/ RefuseAction(a) \/ StopAction(a) \/ LedgerFails(a) \/ Crash(a)
    PROVE  SerialOK(a)'
<1>1. TypeOK /\ PhaseOK(a)
  BY DEF PhaseInv
<1>2. UNCHANGED <<child, leg, placed>>
  BY DEF PrepareAction, MarkActionSubmitting, GateReadChildren, GateReadActions,
     StartEntry, CompleteAction, RefuseAction, StopAction, LedgerFails, Crash
<1>3. LegsInOrder(a)' /\ \A l \in Legs : child'[a][l].state = "persisted" => <<a, l>> \in placed'
  BY <1>2 DEF SerialOK, LegsInOrder
<1>4. worker'[a] # "acknowledged" /\ (worker'[a] = "leg" => StartEntry(a))
  BY <1>1 DEF TypeOK, PrepareAction, MarkActionSubmitting, GateReadChildren, GateReadActions,
     StartEntry, CompleteAction, RefuseAction, StopAction, LedgerFails, Crash, Goto
<1>5. StartEntry(a) => child'[a][leg'[a]] = NoRow
  BY <1>1, <1>2 DEF StartEntry, PhaseOK, Early, TypeOK
<1>6. action'[a] # "none"
  <2>1. CASE PrepareAction(a)
    BY <1>1, <2>1 DEF PrepareAction, TypeOK
  <2>2. CASE ~PrepareAction(a)
    <3>1. worker[a] # "idle"
      BY <2>2 DEF MarkActionSubmitting, GateReadChildren, GateReadActions,
         StartEntry, CompleteAction, RefuseAction, StopAction, LedgerFails, Crash
    <3>2. action[a] # "none"
      BY <3>1 DEF SerialOK
    <3>3. QED
      BY <1>1, <2>2, <3>2
         DEF MarkActionSubmitting, GateReadChildren, GateReadActions, StartEntry,
             CompleteAction, RefuseAction, StopAction, LedgerFails, Crash,
             MarkActionState, TypeOK
  <2>3. QED  BY <2>1, <2>2
<1>7. QED  BY <1>3, <1>4, <1>5, <1>6 DEF SerialOK

\* A transaction on the current leg that stays at it.
LEMMA StayingSerial ==
    ASSUME SettleInv, SettleInv', NEW a \in Actions, SerialOK(a), NEW row \in Row,
           child[a][leg[a]] \in Row, SetChild(a, leg[a], row),
           row.state = "persisted" => <<a, leg[a]>> \in placed,
           leg' = leg, placed' = placed, worker[a] # "idle",
           worker'[a] = "acknowledged" => <<a, leg[a]>> \in placed,
           worker'[a] # "leg"
    PROVE  SerialOK(a)'
<1>1. TypeOK /\ TypeOK' /\ leg[a] \in Legs
  BY DEF SettleInv, PhaseInv, TypeOK
<1>2. ChildMoves(a, leg[a], row)
  BY <1>1, SetChildMoves
<1>3. \A l \in Legs : child'[a][l].state = "persisted" => <<a, l>> \in placed'
  BY <1>2 DEF ChildMoves, SerialOK
<1>4. LegsInOrder(a)'
  BY <1>1, <1>2 DEF ChildMoves, SerialOK, LegsInOrder, Legs
<1>5. action'[a] # "none"
  <2>1. action[a] # "none"
    BY DEF SerialOK
  <2>2. CASE \A m \in Legs : [child[a] EXCEPT ![leg[a]] = row][m].state # "resolved_no_order"
    BY <1>1, <2>1, <2>2 DEF SetChild, SettledState, TypeOK
  <2>3. QED  BY <1>1, <2>1 DEF SetChild, SettledState, TypeOK, TerminalStates
<1>6. QED  BY <1>3, <1>4, <1>5 DEF SerialOK

\* The worker's transactions on its leg.
LEMMA WorkerChildSerial ==
    ASSUME GateInv, GateInv', NEW a \in Actions, SerialOK(a),
           \/ MarkSubmitting(a) \/ Acknowledge(a) \/ CallFails(a)
           \/ CallRejected(a) \/ PersistLeg(a)
    PROVE  SerialOK(a)'
<1> DEFINE l == leg[a]
           row == child[a][l]
<1>1. /\ SettleInv /\ SettleInv' /\ PhaseInv /\ TypeOK /\ TypeOK' /\ GateOK(a) /\ l \in Legs
      /\ worker[a] \in AtChild
  BY DEF GateInv, SettleInv, PhaseInv, TypeOK, AtChild, MarkSubmitting, Acknowledge,
     CallFails, CallRejected, PersistLeg
<1>2. row \in Row /\ row.state \notin {"rejected", "resolved_no_order"}
  BY <1>1 DEF PhaseInv, PhaseOK, GateOK, Trading, AtChild
<1>3. row.state = "persisted" => <<a, l>> \in placed
  BY <1>1 DEF SerialOK
<1>4. CASE MarkSubmitting(a)
  <2>1. /\ MarkState(row, "submitting") \in Row
        /\ MarkState(row, "submitting").state \in {row.state, "submitting"}
    BY <1>2, RowOperations, RowFields DEF RowStep
  <2>2. /\ SetChild(a, l, MarkState(row, "submitting")) /\ UNCHANGED <<leg, placed>>
        /\ worker[a] # "idle" /\ worker'[a] = "calling"
    BY <1>1, <1>4 DEF MarkSubmitting, Goto, TypeOK
  <2>3. QED  BY <1>1, <1>2, <1>3, <2>1, <2>2, StayingSerial
<1>5. CASE Acknowledge(a)
  <2>1. /\ MarkBrokerAcknowledged(row, BrokerOrder) \in Row
        /\ MarkBrokerAcknowledged(row, BrokerOrder).state \in {row.state, "broker_acknowledged"}
    BY <1>2, RowOperations, RowFields DEF RowStep
  <2>2. /\ SetChild(a, l, MarkBrokerAcknowledged(row, BrokerOrder)) /\ UNCHANGED <<leg, placed>>
        /\ worker[a] # "idle" /\ worker'[a] # "leg" /\ <<a, l>> \in placed
    BY <1>1, <1>5 DEF Acknowledge, Goto, TypeOK
  <2>3. QED  BY <1>1, <1>2, <1>3, <2>1, <2>2, StayingSerial
<1>6. CASE CallFails(a)
  <2>1. PICK ext \in {NoOrder, BrokerOrder} : SetChild(a, l, MarkUnknown(row, ext))
    BY <1>6 DEF CallFails
  <2>2. MarkUnknown(row, ext) \in Row /\ MarkUnknown(row, ext).state \in {row.state, "unknown"}
    BY <1>2, MarkUnknownRow
  <2>3. UNCHANGED <<leg, placed>> /\ worker[a] # "idle" /\ worker'[a] = "stop"
    BY <1>1, <1>6 DEF CallFails, Goto, TypeOK
  <2>4. QED  BY <1>1, <1>2, <1>3, <2>1, <2>2, <2>3, StayingSerial
<1>7. ASSUME NEW next \in Row, SetChild(a, l, next), next.state \in {"persisted", "rejected"},
             next.state = "persisted" => <<a, l>> \in placed,
             placed' = placed, worker'[a] # "acknowledged",
             \/ leg' = leg /\ worker'[a] # "leg"
             \/ l = "long_entry" /\ next.state = "persisted"
                /\ leg' = [leg EXCEPT ![a] = "short_entry"]
             \/ l = "short_entry" /\ leg' = [leg EXCEPT ![a] = "long_exit"]
      PROVE  SerialOK(a)'
  <2>1. worker[a] # "idle"
    BY <1>1 DEF AtChild
  <2>2. CASE leg' = leg /\ worker'[a] # "leg"
    BY <1>1, <1>2, <1>7, <2>1, <2>2, StayingSerial
  <2>3. CASE leg'[a] # l
    <3>1. ChildMoves(a, l, next)
      BY <1>1, <1>7, SetChildMoves
    <3>2. \/ l = "long_entry" /\ next.state = "persisted" /\ leg'[a] = "short_entry"
          \/ l = "short_entry" /\ leg'[a] = "long_exit"
      BY <1>1, <1>7, <2>3 DEF TypeOK
    <3>3. \A m \in Legs : child'[a][m].state = "persisted" => <<a, m>> \in placed'
      BY <1>7, <3>1 DEF ChildMoves, SerialOK
    <3>4. LegsInOrder(a)' /\ child'[a][leg'[a]] = NoRow
      BY <1>1, <1>7, <3>1, <3>2 DEF ChildMoves, SerialOK, LegsInOrder, Legs
    <3>5. action'[a] # "none"
      <4>1. action[a] # "none"
        BY <2>1 DEF SerialOK
      <4>2. QED  BY <1>1, <1>7, <4>1 DEF SetChild, SettledState, TypeOK
    <3>6. QED  BY <1>7, <3>3, <3>4, <3>5 DEF SerialOK
  <2>4. QED  BY <1>1, <1>7, <2>2, <2>3 DEF TypeOK
<1>8. CASE CallRejected(a)
  <2>1. row.state # "persisted"
    BY <1>3, <1>8 DEF CallRejected
  <2>2. /\ MarkState(row, "rejected") \in Row
        /\ MarkState(row, "rejected").state = "rejected"
    BY <1>2, <2>1, RowOperations DEF RowStep, MarkState, Row, RowType, TerminalStates
  <2>3. SetChild(a, l, MarkState(row, "rejected")) /\ placed' = placed
    BY <1>8 DEF CallRejected
  <2>4. /\ worker'[a] # "acknowledged"
        /\ \/ leg' = leg /\ worker'[a] # "leg"
           \/ l = "short_entry" /\ leg' = [leg EXCEPT ![a] = "long_exit"]
    BY <1>1, <1>8 DEF CallRejected, Goto, TypeOK, Legs
  <2>5. QED  BY <1>7, <2>2, <2>3, <2>4
<1>9. CASE PersistLeg(a)
  <2>1. worker[a] = "acknowledged" /\ placed' = placed /\ <<a, l>> \in placed
    BY <1>9 DEF PersistLeg, SerialOK
  <2>2. CASE SetChild(a, l, MarkUnknown(row, NoOrder)) /\ Goto(a, "stop") /\ UNCHANGED leg
    <3>1. MarkUnknown(row, NoOrder) \in Row
      BY <1>2, MarkUnknownRow
    <3>2. worker[a] # "idle" /\ worker'[a] = "stop"
      BY <1>1, <2>1, <2>2 DEF Goto, TypeOK
    <3>3. QED  BY <1>1, <1>2, <2>1, <2>2, <3>1, <3>2, StayingSerial
  <2>3. CASE /\ SetChild(a, l, PersistBrokerResult(row, BrokerOrder))
             /\ \/ l = "long_entry" /\ Goto(a, "leg") /\ leg' = [leg EXCEPT ![a] = "short_entry"]
                \/ l = "short_entry" /\ Goto(a, "leg") /\ leg' = [leg EXCEPT ![a] = "long_exit"]
                \/ (\E next \in {"complete", "stop"} : Goto(a, next)) /\ UNCHANGED leg
    <3>1. /\ PersistBrokerResult(row, BrokerOrder) \in Row
          /\ PersistBrokerResult(row, BrokerOrder).state = "persisted"
      BY <1>2, RowOperations, RowFields DEF RowStep
    <3>2. worker'[a] # "acknowledged"
          /\ (leg' = leg => worker'[a] # "leg" \/ leg'[a] # l)
      BY <1>1, <2>3 DEF Goto, TypeOK
    <3>3. \/ leg' = leg /\ worker'[a] # "leg"
          \/ l = "long_entry" /\ leg' = [leg EXCEPT ![a] = "short_entry"]
          \/ l = "short_entry" /\ leg' = [leg EXCEPT ![a] = "long_exit"]
      BY <1>1, <2>3 DEF Goto, TypeOK
    <3>4. QED  BY <1>7, <2>1, <2>3, <3>1, <3>2, <3>3
  <2>4. QED  BY <1>9, <2>2, <2>3 DEF PersistLeg
<1>10. QED  BY <1>4, <1>5, <1>6, <1>8, <1>9

\* The worker opens its leg behind the settled ones.
LEMMA PrepareChildSerial ==
    ASSUME GateInv, NEW a \in Actions, SerialOK(a), PrepareChild(a)
    PROVE  SerialOK(a)'
<1>1. /\ TypeOK /\ leg[a] \in Legs /\ worker[a] = "leg"
      /\ UNCHANGED <<action, leg, placed>>
  BY DEF GateInv, SettleInv, PhaseInv, TypeOK, PrepareChild
<1>2. child[a][leg[a]] = NoRow
  BY <1>1 DEF SerialOK
<1>3. action'[a] # "none" /\ worker'[a] \in {"prepared_leg", "stop"}
  BY <1>1 DEF SerialOK, PrepareChild, Goto, TypeOK
<1>4. \/ child' = child
      \/ /\ child'[a][leg[a]] = NewRow
         /\ \A m \in Legs \ {leg[a]} : child'[a][m] = child[a][m]
  BY <1>1 DEF PrepareChild, TypeOK
<1>5. NewRow.state = "prepared"
  BY NewRowFacts
<1>6. \A l \in Legs : child'[a][l].state = "persisted" => <<a, l>> \in placed'
  BY <1>1, <1>4, <1>5 DEF SerialOK
<1>7. LegsInOrder(a)'
  BY <1>1, <1>4 DEF SerialOK, LegsInOrder, Legs
<1>8. QED  BY <1>1, <1>3, <1>6, <1>7 DEF SerialOK

\* The reconciler persists what the broker has, and nothing else.
LEMMA OutsideSerial ==
    ASSUME GateInv, GateInv', NEW a \in Actions, SerialOK(a), NEW l \in Legs,
           ReconcileMatch(a, l) \/ ReconcileAttempt(a, l) \/ ResolveChildNoOrder(a, l)
    PROVE  SerialOK(a)'
<1> DEFINE old == child[a][l]
<1>1. SettleInv /\ SettleInv' /\ PhaseInv /\ PhaseOK(a) /\ TypeOK
  BY DEF GateInv, SettleInv, PhaseInv
<1>2. UnresolvedChild(a, l)
  BY DEF ReconcileMatch, ReconcileAttempt, ResolveChildNoOrder
<1>3. l = leg[a] /\ old \in Row /\ worker[a] \notin Early
  BY <1>1, <1>2, OpenChildIsCurrent
<1>4. old.state \in UnresolvedStates
  BY <1>2 DEF UnresolvedChild
<1>5. worker' = worker /\ leg' = leg /\ placed' = placed
  BY OutsideChildShape, <1>1 DEF ChildStep
<1>6. worker[a] # "leg" /\ worker[a] # "idle"
  BY <1>1, <1>3, <1>4, NoRowFacts
     DEF PhaseOK, Closed, Early, UnresolvedStates, TerminalStates
<1>7. worker'[a] = "acknowledged" => <<a, l>> \in placed
  BY <1>3, <1>5 DEF SerialOK
<1>8. \E row \in Row : /\ SetChild(a, l, row)
                       /\ row.state = "persisted" => <<a, l>> \in placed
  <2>1. CASE ReconcileMatch(a, l)
    BY <1>3, <2>1, RowOperations DEF ReconcileMatch, RowStep
  <2>2. CASE ReconcileAttempt(a, l)
    BY <1>3, <1>4, <2>2, AttemptRow DEF ReconcileAttempt
  <2>3. CASE ResolveChildNoOrder(a, l)
    BY <1>3, <2>3, ResolvedRow DEF ResolveChildNoOrder
  <2>4. QED  BY <2>1, <2>2, <2>3
<1>9. QED  BY <1>1, <1>3, <1>5, <1>6, <1>7, <1>8, StayingSerial

\* SerialInv is inductive.
LEMMA StepSerialInv ==
    ASSUME SerialInv, ~SlowWorkers, [Next]_vars
    PROVE  SerialInv'
<1>1. GateInv /\ GateInv'
  BY StepGateInv DEF SerialInv
<1>2. PhaseInv /\ TypeOK
  BY <1>1 DEF GateInv, SettleInv, PhaseInv
<1>3. CASE UNCHANGED vars
  <2>1. \A a \in Actions : SerialOK(a)'
    BY <1>3 DEF SerialInv, SerialOK, LegsInOrder, vars
  <2>2. QED  BY <1>1, <2>1 DEF SerialInv
<1>4. CASE Next
  <2>1. PICK a \in Actions :
          \/ WorkerStep(a) \/ BrokerAccepts(a) \/ Crash(a)
          \/ \E l \in Legs : ReconcileAttempt(a, l) \/ Settling(a, l)
    BY <1>4 DEF Next
  <2>2. Frame(a)
    BY <1>2, <2>1, StepIsStep, StepTypeAndFrame
  <2>3. SerialOK(a)
    BY DEF SerialInv
  <2>4. SerialOK(a)'
    <3>1. CASE WorkerStep(a) \/ Crash(a)
      BY <1>1, <1>2, <2>3, <3>1, ParentStepSerial, PrepareChildSerial, WorkerChildSerial
         DEF WorkerStep
    <3>2. CASE BrokerAccepts(a)
      <4>1. /\ UNCHANGED <<action, child, worker, leg>>
            /\ placed \subseteq placed'
        BY <3>2 DEF BrokerAccepts
      <4>2. LegsInOrder(a)'
        BY <2>3, <4>1 DEF SerialOK, LegsInOrder
      <4>3. QED  BY <2>3, <4>1, <4>2 DEF SerialOK
    <3>3. CASE \E l \in Legs : ReconcileAttempt(a, l) \/ Settling(a, l)
      BY <1>1, <2>3, <3>3, OutsideSerial DEF Settling
    <3>4. QED  BY <2>1, <3>1, <3>2, <3>3
  <2>5. \A b \in Actions \ {a} : SerialOK(b)'
    BY <1>2, <2>2, SerialFramed DEF SerialInv
  <2>6. QED  BY <1>1, <2>4, <2>5 DEF SerialInv
<1>5. QED  BY <1>3, <1>4

\* The initial states satisfy it.
LEMMA InitSerialInv == Init => SerialInv
<1> SUFFICES ASSUME Init PROVE SerialInv
  OBVIOUS
<1>1. \A a \in Actions : SerialOK(a)
  BY DEF Init, SerialOK, LegsInOrder, NoRow, Legs
<1>2. QED  BY <1>1, InitGateInv DEF SerialInv

\* The states a parent or a child can have, as the account sees them.
LEMMA OutcomeReads ==
    ASSUME NEW state \in States
    PROVE  /\ Outcome(state) = "open" <=> state \in UnresolvedStates
           /\ Outcome(state) # "open" => Outcome(state) = state
  BY DEF Outcome, States, UnresolvedStates, TerminalStates

\* Every parent and every child has one of these states.
LEMMA StatesRead ==
    ASSUME TypeOK
    PROVE  \A a \in Actions : action[a] \in States /\ \A l \in Legs : child[a][l].state \in States
  BY DEF TypeOK, States, RowType, NoRow

\* What a step of one action can change of what the account sees.
LEMMA AccountMoves ==
    ASSUME NEW a \in Actions, Frame(a)
    PROVE  /\ Deeds' = [Deeds EXCEPT ![a] = Outcome(action'[a])]
           /\ Outcome(action'[a]) = Outcome(action[a]) => Deeds' = Deeds
           /\ \A l \in Legs :
                (\A m \in Legs \ {l} : child'[a][m] = child[a][m]) =>
                  /\ Outcomes' = [Outcomes EXCEPT ![a][l] = Outcome(child'[a][l].state)]
                  /\ Outcome(child'[a][l].state) = Outcome(child[a][l].state) =>
                       Outcomes' = Outcomes
           /\ child'[a] = child[a] => Outcomes' = Outcomes
<1>1. \A b \in Actions \ {a} : action'[b] = action[b] /\ child'[b] = child[b]
  BY DEF Frame
<1>2. /\ Deeds' = [Deeds EXCEPT ![a] = Outcome(action'[a])]
      /\ Outcome(action'[a]) = Outcome(action[a]) => Deeds' = Deeds
  BY <1>1 DEF Deeds
<1>3. ASSUME NEW l \in Legs, \A m \in Legs \ {l} : child'[a][m] = child[a][m]
      PROVE  /\ Outcomes' = [Outcomes EXCEPT ![a][l] = Outcome(child'[a][l].state)]
             /\ Outcome(child'[a][l].state) = Outcome(child[a][l].state) =>
                  Outcomes' = Outcomes
  <2>1. \A b \in Actions, m \in Legs :
          b # a \/ m # l => Outcomes'[b][m] = Outcomes[b][m]
    BY <1>1, <1>3 DEF Outcomes
  <2>2. /\ Outcomes'[a][l] = Outcome(child'[a][l].state)
        /\ Outcomes[a][l] = Outcome(child[a][l].state)
    BY DEF Outcomes
  <2>3. Outcomes' = [Outcomes EXCEPT ![a][l] = Outcome(child'[a][l].state)]
    <3>1. Outcomes'[a] = [Outcomes[a] EXCEPT ![l] = Outcome(child'[a][l].state)]
      BY <2>1, <2>2 DEF Outcomes
    <3>2. \A b \in Actions \ {a} : Outcomes'[b] = Outcomes[b]
      BY <2>1 DEF Outcomes
    <3>3. QED  BY <3>1, <3>2 DEF Outcomes
  <2>4. ASSUME Outcome(child'[a][l].state) = Outcome(child[a][l].state)
        PROVE  Outcomes' = Outcomes
    <3>1. \A b \in Actions, m \in Legs : Outcomes'[b][m] = Outcomes[b][m]
      BY <2>1, <2>2, <2>4
    <3>2. \A b \in Actions : Outcomes'[b] = Outcomes[b]
      BY <3>1 DEF Outcomes
    <3>3. QED  BY <3>2 DEF Outcomes
  <2>5. QED  BY <2>3, <2>4
<1>4. child'[a] = child[a] => Outcomes' = Outcomes
  BY <1>1 DEF Outcomes
<1>5. QED  BY <1>2, <1>3, <1>4

\* While an action trades the others are settled in the books.
LEMMA OthersAreSettled ==
    ASSUME GateInv, NEW a \in Actions, Trading(a)
    PROVE  Serial!OthersSettled(a)
<1>1. ASSUME NEW b \in Actions \ {a}
      PROVE  Serial!Settled(b)
  <2>1. TypeOK
    BY DEF GateInv, SettleInv, PhaseInv
  <2>2. \A l \in Legs : /\ ~UnresolvedChild(b, l)
                        /\ <<b, l>> \in placed => child[b][l].state = "persisted"
    BY DEF GateInv, EntryOnlyWhenSettled
  <2>3. \A l \in Legs : Outcomes[b][l] = Outcome(child[b][l].state)
    BY DEF Outcomes
  <2>4. ASSUME NEW l \in Legs
        PROVE  /\ Outcomes[b][l] # "open"
               /\ <<b, l>> \in placed => Outcomes[b][l] = "persisted"
    BY <2>1, <2>2, <2>3, StatesRead, OutcomeReads DEF UnresolvedChild
  <2>5. QED  BY <2>4 DEF Serial!Settled, Serial!Legs, Legs
<1>2. QED  BY <1>1 DEF Serial!OthersSettled

\* The steps that leave the children alone: an action begins, ends, or does
\* nothing the account sees.
LEMMA ParentStepMaps ==
    ASSUME SerialInv, NEW a \in Actions, Frame(a),
           \/ PrepareAction(a) \/ MarkActionSubmitting(a) \/ GateReadChildren(a)
           \/ GateReadActions(a) \/ StartEntry(a) \/ CompleteAction(a)
           \/ RefuseAction(a) \/ StopAction(a) \/ LedgerFails(a) \/ Crash(a)
    PROVE  [Serial!SNext]_(Serial!svars)
<1>1. TypeOK /\ PhaseOK(a) /\ GateOK(a) /\ SerialOK(a)
  BY DEF SerialInv, GateInv, SettleInv, PhaseInv
<1>2. Outcomes' = Outcomes /\ placed' = placed
  BY AccountMoves DEF PrepareAction, MarkActionSubmitting, GateReadChildren, GateReadActions,
     StartEntry, CompleteAction, RefuseAction, StopAction, LedgerFails, Crash
<1>3. Deeds[a] = Outcome(action[a]) /\ \A l \in Legs : Outcomes[a][l] = Outcome(child[a][l].state)
  BY DEF Deeds, Outcomes
<1>4. ASSUME Outcome(action'[a]) = Outcome(action[a])
      PROVE  [Serial!SNext]_(Serial!svars)
  BY <1>2, <1>4, AccountMoves DEF Serial!svars
<1>5. ASSUME NEW how \in {"persisted", "rejected"}, Serial!End(a, how)
      PROVE  [Serial!SNext]_(Serial!svars)
  BY <1>5 DEF Serial!SNext
<1>6. CASE PrepareAction(a)
  <2>1. action[a] = "none" /\ action'[a] = "prepared"
    BY <1>1, <1>6 DEF PrepareAction, TypeOK
  <2>2. Serial!Begin(a)
    BY <1>2, <1>3, <2>1, AccountMoves DEF Serial!Begin, Outcome, UnresolvedStates
  <2>3. QED  BY <2>2 DEF Serial!SNext
<1>7. CASE MarkActionSubmitting(a)
  <2>1. action[a] = "prepared" /\ action'[a] \in {"prepared", "submitting"}
    BY <1>1, <1>7 DEF MarkActionSubmitting, PhaseOK, TypeOK
  <2>2. QED  BY <1>4, <2>1 DEF Outcome, UnresolvedStates
<1>8. CASE \/ GateReadChildren(a) \/ GateReadActions(a) \/ StartEntry(a)
           \/ LedgerFails(a) \/ Crash(a)
  BY <1>4, <1>8 DEF GateReadChildren, GateReadActions, StartEntry, LedgerFails, Crash
<1>9. CASE CompleteAction(a)
  <2>1. CASE action' = action
    BY <1>4, <2>1
  <2>2. CASE action' = [action EXCEPT ![a] = "persisted"]
    <3>1. worker[a] = "complete" /\ Trading(a)
      BY <1>9 DEF CompleteAction, Trading
    <3>2. Deeds[a] = "open" /\ action'[a] = "persisted"
      BY <1>1, <1>3, <2>2, <3>1 DEF GateOK, UnresolvedAction, Outcome, TypeOK
    <3>3. \A l \in Legs : /\ child[a][l].state \notin UnresolvedStates
                          /\ child[a][l].state # "resolved_no_order"
      <4>1. \A l \in Legs : Closed(child[a][l])
        BY <1>1, <3>1 DEF PhaseOK
      <4>2. QED
        BY <1>1, <3>1, <4>1, NoRowFacts DEF Closed, GateOK, UnresolvedStates, TerminalStates
    <3>4. \A l \in Legs : Outcomes[a][l] \notin {"open", "resolved_no_order"}
      BY <1>1, <1>3, <3>3, StatesRead, OutcomeReads
    <3>5. Outcome(action'[a]) = "persisted"
      BY <3>2 DEF Outcome, UnresolvedStates
    <3>6. Serial!End(a, "persisted")
      BY <1>2, <3>2, <3>4, <3>5, AccountMoves DEF Serial!End, Serial!Legs, Legs
    <3>7. QED  BY <1>5, <3>6
  <2>3. QED  BY <1>9, <2>1, <2>2 DEF CompleteAction
<1>10. CASE RefuseAction(a)
  <2>1. action[a] = "submitting" /\ \A l \in Legs : child[a][l] = NoRow
    BY <1>1, <1>10 DEF RefuseAction, PhaseOK, Early
  <2>2. action'[a] \in {"submitting", "rejected"}
    BY <1>1, <1>10, <2>1 DEF RefuseAction, MarkActionState, TypeOK, TerminalStates
  <2>3. CASE action'[a] = "submitting"
    BY <1>4, <2>1, <2>3
  <2>4. CASE action'[a] = "rejected"
    <3>1. \A l \in Legs : Outcomes[a][l] = "none"
      BY <1>3, <2>1 DEF Outcome, NoRow, UnresolvedStates
    <3>2. Deeds[a] = "open" /\ Outcome(action'[a]) = "rejected"
      BY <1>3, <2>1, <2>4 DEF Outcome, UnresolvedStates
    <3>3. Serial!End(a, "rejected")
      BY <1>2, <3>1, <3>2, AccountMoves DEF Serial!End, Serial!Legs, Legs
    <3>4. QED  BY <1>5, <3>3
  <2>5. QED  BY <2>2, <2>3, <2>4
<1>11. CASE StopAction(a)
  <2>1. action[a] # "none" /\ action[a] \in States
    BY <1>1, <1>11, StatesRead DEF StopAction, SerialOK
  <2>2. \/ action'[a] = action[a]
        \/ action[a] \notin TerminalStates /\ action'[a] = "unknown"
    BY <1>1, <1>11 DEF StopAction, MarkActionState, TypeOK
  <2>3. Outcome(action'[a]) = Outcome(action[a])
    BY <2>1, <2>2 DEF Outcome, States, UnresolvedStates
  <2>4. QED  BY <1>4, <2>3
<1>12. QED  BY <1>6, <1>7, <1>8, <1>9, <1>10, <1>11

\* A new child is a venture behind the legs it follows.
LEMMA PrepareChildMaps ==
    ASSUME SerialInv, NEW a \in Actions, Frame(a), PrepareChild(a)
    PROVE  [Serial!SNext]_(Serial!svars)
<1> DEFINE l == leg[a]
<1>1. /\ GateInv /\ TypeOK /\ PhaseOK(a) /\ GateOK(a) /\ SerialOK(a) /\ l \in Legs
      /\ Trading(a) /\ worker[a] = "leg"
      /\ action' = action /\ placed' = placed
  BY DEF SerialInv, GateInv, SettleInv, PhaseInv, TypeOK, PrepareChild, Trading
<1>2. CASE ~ParentAcceptsChild(a)
  <2>1. child' = child
    BY <1>2 DEF PrepareChild
  <2>2. QED  BY <1>1, <2>1, AccountMoves DEF Serial!svars
<1>3. CASE ParentAcceptsChild(a)
  <2>1. /\ child'[a][l] = NewRow
        /\ \A m \in Legs \ {l} : child'[a][m] = child[a][m]
    BY <1>1, <1>3 DEF PrepareChild, TypeOK
  <2>2. Deeds' = Deeds /\ Outcomes' = [Outcomes EXCEPT ![a][l] = "open"]
    BY <1>1, <2>1, AccountMoves, NewRowFacts DEF Outcome, UnresolvedStates
  <2>3. Deeds[a] = "open"
    BY <1>3 DEF Deeds, ParentAcceptsChild, Outcome, UnresolvedStates
  <2>4. \A m \in Legs : Outcomes[a][m] = Outcome(child[a][m].state)
    BY DEF Outcomes
  <2>5. child[a][l] = NoRow /\ Outcomes[a][l] = "none"
    BY <1>1, <2>4 DEF SerialOK, Outcome, NoRow, UnresolvedStates
  <2>6. \A m \in Legs : Outcomes[a][m] # "open"
    <3>1. \A m \in Legs : child[a][m].state \notin UnresolvedStates
      BY <1>1, <2>5, NoRowFacts DEF PhaseOK, Closed, UnresolvedStates, TerminalStates
    <3>2. QED  BY <1>1, <2>4, <3>1, StatesRead, OutcomeReads
  <2>7. Serial!Follows(Outcomes[a], l)
    <3>1. /\ l # "long_entry" => child[a]["long_entry"].state = "persisted"
          /\ l = "long_exit" => child[a]["short_entry"].state \in {"persisted", "rejected"}
      BY <1>1 DEF SerialOK, LegsInOrder
    <3>2. /\ Outcomes[a]["long_entry"] = Outcome(child[a]["long_entry"].state)
          /\ Outcomes[a]["short_entry"] = Outcome(child[a]["short_entry"].state)
      BY <2>4 DEF Legs
    <3>3. Outcome("persisted") = "persisted" /\ Outcome("rejected") = "rejected"
      BY DEF Outcome, UnresolvedStates
    <3>4. QED  BY <3>1, <3>2, <3>3 DEF Serial!Follows
  <2>8. Serial!OthersSettled(a)
    BY <1>1, OthersAreSettled
  <2>9. Serial!Venture(a, l)
    BY <1>1, <2>2, <2>3, <2>5, <2>6, <2>7, <2>8 DEF Serial!Venture, Serial!Legs, Legs
  <2>10. QED  BY <1>1, <2>9 DEF Serial!SNext, Serial!Legs, Legs
<1>4. QED  BY <1>2, <1>3

\* An accepted order is sent while no other action has anything open.
LEMMA BrokerAcceptsMaps ==
    ASSUME SerialInv, NEW a \in Actions, BrokerAccepts(a)
    PROVE  Serial!SNext
<1> DEFINE l == leg[a]
<1>1. /\ GateInv /\ TypeOK /\ PhaseOK(a) /\ GateOK(a) /\ SerialOK(a) /\ l \in Legs
      /\ Trading(a) /\ worker[a] = "calling" /\ <<a, l>> \notin placed
      /\ UNCHANGED <<action, child>> /\ placed' = placed \cup {<<a, l>>}
  BY DEF SerialInv, GateInv, SettleInv, PhaseInv, TypeOK, BrokerAccepts, Trading
<1>2. child[a][l] \in Row /\ child[a][l].state \notin {"persisted", "rejected", "resolved_no_order"}
  BY <1>1 DEF PhaseOK, GateOK, SerialOK, AtChild
<1>3. Outcomes[a][l] = "open"
  BY <1>1, <1>2, NoRowFacts DEF Outcomes, Outcome, TerminalStates
<1>4. UNCHANGED <<Deeds, Outcomes>>
  BY <1>1 DEF Deeds, Outcomes
<1>5. Serial!Send(a, l)
  BY <1>1, <1>3, <1>4, OthersAreSettled DEF Serial!Send
<1>6. QED  BY <1>1, <1>5 DEF Serial!SNext, Serial!Legs, Legs

\* A transaction on a child leaves it open, or settles it by what the broker
\* has and its parent with it.
LEMMA ChildStepMaps ==
    ASSUME SerialInv, SerialInv', NEW a \in Actions, Frame(a), placed' = placed,
           \/ MarkSubmitting(a) \/ Acknowledge(a) \/ CallFails(a)
           \/ CallRejected(a) \/ PersistLeg(a)
           \/ \E l \in Legs : ReconcileAttempt(a, l) \/ Settling(a, l)
    PROVE  [Serial!SNext]_(Serial!svars)
<1> DEFINE l == leg[a]
           old == child[a][l]
<1>1. /\ PhaseInv /\ TypeOK /\ PhaseOK(a) /\ SettleOK(a) /\ GateOK(a) /\ l \in Legs
      /\ SerialOK(a)' /\ GateOK(a)'
  BY DEF SerialInv, GateInv, SettleInv, PhaseInv, TypeOK
<1>2. old \in Row
  BY <1>1, ChildStepRow
<1>3. PICK row \in Row : SetChild(a, l, row) /\ RowStep(old, row)
  BY <1>1, ChildStepRow
<1>4. /\ child'[a][l] = row
      /\ \A m \in Legs \ {l} : child'[a][m] = child[a][m]
  BY <1>1, <1>3, SetChildMoves DEF ChildMoves
<1>5. Outcomes' = [Outcomes EXCEPT ![a][l] = Outcome(row.state)]
      /\ (Outcome(row.state) = Outcome(old.state) => Outcomes' = Outcomes)
  BY <1>1, <1>4, AccountMoves
<1>6. CASE row = old \/ row.state \in UnresolvedStates
  <2>1. action' = action
    BY <1>1, <1>3, <1>6, OpenChildNoSettlement
  <2>2. Outcome(row.state) = Outcome(old.state)
    <3>1. CASE row = old
      BY <3>1
    <3>2. CASE row # old
      <4>1. old.state \in UnresolvedStates /\ row.state \in UnresolvedStates
        BY <1>2, <1>3, <1>6, <3>2, NoRowFacts DEF RowStep
      <4>2. QED  BY <4>1 DEF Outcome
    <3>3. QED  BY <3>1, <3>2
  <2>3. QED  BY <1>5, <2>1, <2>2, AccountMoves DEF Serial!svars
<1>7. CASE row # old /\ row.state \in TerminalStates
  <2>1. old.state \in UnresolvedStates
    BY <1>2, <1>3, <1>7, NoRowFacts DEF RowStep
  <2>2. Outcomes[a][l] = "open" /\ Outcome(row.state) = row.state
    BY <1>1, <1>7, <2>1 DEF Outcomes, Outcome, UnresolvedStates, TerminalStates
  <2>3. row.state = "persisted" <=> <<a, l>> \in placed
    <3>1. row.state = "persisted" => <<a, l>> \in placed
      BY <1>1, <1>4 DEF SerialOK
    <3>2. <<a, l>> \in placed => row.state \notin {"rejected", "resolved_no_order"}
      BY <1>1, <1>4 DEF GateOK
    <3>3. QED  BY <1>7, <3>1, <3>2 DEF TerminalStates
  <2>4. action[a] # "persisted"
    BY <1>1, <2>1 DEF SettleOK, UnresolvedChild, UnresolvedAction, UnresolvedStates
  <2>5. \/ /\ \A m \in Legs : child'[a][m].state # "resolved_no_order"
           /\ action' = action
        \/ /\ \E m \in Legs : child'[a][m].state = "resolved_no_order"
           /\ action'[a] = "rejected"
    BY <1>1, <1>3, <1>7, <2>4, TerminalChildSettles DEF PhaseOK, Closed, AllSettledWithNoOrder
  <2>6. \A m \in Legs : Outcomes'[a][m] = "resolved_no_order" <=>
                          child'[a][m].state = "resolved_no_order"
    BY DEF Outcomes, Outcome, UnresolvedStates
  <2>7. Deeds' = IF \E m \in Legs : Outcomes'[a][m] = "resolved_no_order"
                 THEN [Deeds EXCEPT ![a] = "rejected"] ELSE Deeds
    BY <2>5, <2>6, AccountMoves DEF Outcome, UnresolvedStates
  <2>8. Serial!Settle(a, l, row.state)
    BY <1>5, <2>2, <2>3, <2>7 DEF Serial!Settle, Serial!Legs, Legs
  <2>9. QED  BY <1>1, <1>7, <2>8 DEF Serial!SNext, Serial!Legs, Legs, TerminalStates
<1>8. QED  BY <1>6, <1>7, NoRowFacts

\* Every step of the actions is one of the account, or none.
LEMMA StepMaps ==
    ASSUME SerialInv, SerialInv', [Next]_vars
    PROVE  [Serial!SNext]_(Serial!svars)
<1>1. PhaseInv /\ TypeOK
  BY DEF SerialInv, GateInv, SettleInv, PhaseInv
<1>2. CASE UNCHANGED vars
  BY <1>2 DEF vars, Serial!svars, Deeds, Outcomes
<1>3. CASE Next
  <2>1. PICK a \in Actions :
          \/ WorkerStep(a) \/ BrokerAccepts(a) \/ Crash(a)
          \/ \E l \in Legs : ReconcileAttempt(a, l) \/ Settling(a, l)
    BY <1>3 DEF Next
  <2>2. Frame(a)
    BY <1>1, <2>1, StepIsStep, StepTypeAndFrame
  <2>3. CASE WorkerStep(a) \/ Crash(a)
    <3>1. CASE \/ MarkSubmitting(a) \/ Acknowledge(a) \/ CallFails(a)
               \/ CallRejected(a) \/ PersistLeg(a)
      <4>1. placed' = placed
        BY <3>1 DEF MarkSubmitting, Acknowledge, CallFails, CallRejected, PersistLeg
      <4>2. QED  BY <2>2, <3>1, <4>1, ChildStepMaps
    <3>2. QED  BY <2>2, <2>3, <3>1, ParentStepMaps, PrepareChildMaps DEF WorkerStep
  <2>4. CASE BrokerAccepts(a)
    BY <2>4, BrokerAcceptsMaps
  <2>5. CASE \E l \in Legs : ReconcileAttempt(a, l) \/ Settling(a, l)
    <3>1. placed' = placed
      BY <2>5 DEF ReconcileAttempt, Settling, ReconcileMatch, ResolveChildNoOrder
    <3>2. QED  BY <2>2, <2>5, <3>1, ChildStepMaps
  <2>6. QED  BY <2>1, <2>3, <2>4, <2>5
<1>4. QED  BY <1>2, <1>3

\* The initial states are initial for the account.
LEMMA InitMaps == Init => Serial!SInit
  BY DEF Init, Serial!SInit, Serial!Legs, Legs, Deeds, Outcomes, Outcome, NoRow,
     UnresolvedStates

\* Any number of composite actions, with their workers, gate reads, crashes,
\* reconciliations and operator resolutions, trade as if one at a time ran on
\* the account, if no worker outlives the evidence about its call.
THEOREM ActionsImplementSerial ==
    ASSUME ~SlowWorkers
    PROVE  Spec => ImplementsSerial
<1>1. SerialInv /\ [Next]_vars => SerialInv'
  BY StepSerialInv
<1>2. SerialInv /\ SerialInv' /\ [Next]_vars => [Serial!SNext]_(Serial!svars)
  BY StepMaps
<1>3. QED
  BY <1>1, <1>2, InitSerialInv, InitMaps, PTL DEF Spec, ImplementsSerial, Serial!SSpec
=============================================================================
