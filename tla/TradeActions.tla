---------------------------- MODULE TradeActions ----------------------------
(***************************************************************************)
(* Composite trade actions of one account: a row of trade_action_intents   *)
(* (the parent) that owns the order intents of several legs (its           *)
(* children).  One worker runs an action: it commits the parent, marks it  *)
(* submitting, asks the account gate whether anything else is unresolved,  *)
(* and only then submits the Bull Put legs: the long leg, the short leg,   *)
(* and the rollback of the long leg when the short one is not filled.      *)
(* Meanwhile the reconciler and the operator settle children by            *)
(* themselves, and a settled child may settle the parent under its worker. *)
(*                                                                         *)
(* repositories/sqlalchemy_trading_intent_ledger.py (the *_action          *)
(* operations, prepare_intent with a parent, the settlement of composite   *)
(* actions), application/services/bull_put_strategy.py (execute_spread,    *)
(* run_entry_scan and the parent action helpers) and                       *)
(* application/services/bull_put/entry.py (open_from_preview).  A leg is   *)
(* one child: the repricing ladder sends its next order only after the     *)
(* previous child is persisted and canceled, so a leg never has two        *)
(* unsettled children.                                                     *)
(***************************************************************************)
EXTENDS IntentLedger, FiniteSets

CONSTANTS
    Actions,      \* composite actions of the account
    BrokerOrder,  \* the id the broker gives an order (one per child)
    SlowWorkers   \* TRUE: a worker may stay in one call for so long that the
                  \* evidence for "no such order" completes meanwhile

ASSUME ActionConstants ==
    /\ BrokerOrder # NoOrder
    /\ SlowWorkers \in BOOLEAN

Legs == {"long_entry", "short_entry", "long_exit"}
NoRow == [state |-> "none"]

VARIABLES
    action,  \* state of each action's parent row, "none" before it exists
    child,   \* child[a][leg]: the row of the leg's order intent, or NoRow
    worker,  \* worker[a]: where the thread that runs the action is
    leg,     \* leg[a]: the leg that worker is at
    placed,  \* pairs <<a, l>> whose order the broker has accepted
    audit    \* actions with a composite_trade_action_resolved_no_order event

vars == <<action, child, worker, leg, placed, audit>>

WorkerStates == {"idle", "prepared", "gate", "children_clear", "authorized",
                 "leg", "prepared_leg", "calling", "acknowledged", "complete",
                 "refuse", "stop", "done"}

\* The worker may send orders, or is about to.
Trading(a) == worker[a] \in {"authorized", "leg", "prepared_leg", "calling",
                             "acknowledged", "complete"}

UnresolvedChild(a, l) == child[a][l].state \in UnresolvedStates
UnresolvedAction(a) == action[a] \in UnresolvedStates

\* Parents, children and workers only hold values of their types.
TypeOK ==
    /\ action \in [Actions -> UnresolvedStates \cup TerminalStates \cup {"none"}]
    /\ child \in [Actions -> [Legs -> RowType({BrokerOrder}) \cup {NoRow}]]
    /\ worker \in [Actions -> WorkerStates]
    /\ leg \in [Actions -> Legs]
    /\ placed \subseteq Actions \X Legs
    /\ audit \subseteq Actions

Init ==
    /\ action = [a \in Actions |-> "none"]
    /\ child = [a \in Actions |-> [l \in Legs |-> NoRow]]
    /\ worker = [a \in Actions |-> "idle"]
    /\ leg = [a \in Actions |-> "long_entry"]
    /\ placed = {}
    /\ audit = {}

-----------------------------------------------------------------------------
(* The ledger's operations on a parent row.                                *)

\* Writes a parent without looking at what it holds.
MarkActionStateUnguarded(a, state) == action' = [action EXCEPT ![a] = state]

\* mark_action_unknown and mark_action_rejected.
MarkActionState(a, state) ==
    action' = IF action[a] \in TerminalStates THEN action
              ELSE [action EXCEPT ![a] = state]

\* _assert_parent_accepts_child.
ParentAcceptsChild(a) == action[a] \in {"prepared", "submitting"}

\* A resolved child exists and every child is terminal.
AllSettledWithNoOrder(rows) ==
    /\ \E l \in Legs : rows[l].state = "resolved_no_order"
    /\ \A l \in Legs : rows[l] # NoRow => rows[l].state \in TerminalStates

\* _settle_composite_action_after_child_terminal: the parent's next state.
SettledState(state, rows) ==
    IF \A l \in Legs : rows[l].state # "resolved_no_order" THEN state
    ELSE IF ~AllSettledWithNoOrder(rows)
         THEN IF state \in TerminalStates THEN state ELSE "unknown"
    ELSE IF state = "persisted" THEN state ELSE "rejected"

\* A child transition that leaves its parent for somebody else.
SetChildUnsettled(a, l, row) ==
    /\ child' = [child EXCEPT ![a][l] = row]
    /\ UNCHANGED <<action, audit>>

\* One ledger transaction on a child of a composite action.  A child that
\* becomes terminal settles the parent and writes its audit event with it.
SetChild(a, l, row) ==
    LET rows == [child[a] EXCEPT ![l] = row]
        settles == row # child[a][l] /\ row.state \in TerminalStates
    IN /\ child' = [child EXCEPT ![a] = rows]
       /\ action' = IF settles
                    THEN [action EXCEPT ![a] = SettledState(action[a], rows)]
                    ELSE action
       /\ audit' = IF settles /\ AllSettledWithNoOrder(rows)
                   THEN audit \cup {a} ELSE audit

-----------------------------------------------------------------------------
(* The worker up to the account gate.                                      *)

Goto(a, state) == worker' = [worker EXCEPT ![a] = state]

PrepareAction(a) ==
    /\ worker[a] = "idle"
    /\ action[a] = "none"
    /\ action' = [action EXCEPT ![a] = "prepared"]
    /\ Goto(a, "prepared")
    /\ UNCHANGED <<child, leg, placed, audit>>

\* When the update fails the worker stops with the outcome unknown.
MarkActionSubmitting(a) ==
    /\ worker[a] = "prepared"
    /\ \/ /\ action' = [action EXCEPT ![a] = "submitting"]
          /\ Goto(a, "gate")
       \/ /\ Goto(a, "stop")
          /\ UNCHANGED action
    /\ UNCHANGED <<child, leg, placed, audit>>

\* A gate that looks at the child rows alone.
GateReadActionsUnread(a) ==
    /\ worker[a] = "children_clear"
    /\ Goto(a, "authorized")
    /\ UNCHANGED <<action, child, leg, placed, audit>>

\* A reconciliation or synchronization before the gate may fail and refuse
\* the action.  has_unresolved_intents is two queries: the first finds an
\* unresolved child of any action of the account ...
GateReadChildren(a) ==
    /\ worker[a] = "gate"
    /\ \/ Goto(a, "refuse")
       \/ /\ \A b \in Actions, l \in Legs : ~UnresolvedChild(b, l)
          /\ Goto(a, "children_clear")
    /\ UNCHANGED <<action, child, leg, placed, audit>>

\* ... the second an unresolved parent other than the worker's own.
GateReadActions(a) ==
    /\ worker[a] = "children_clear"
    /\ IF \E b \in Actions \ {a} : UnresolvedAction(b)
       THEN Goto(a, "refuse") ELSE Goto(a, "authorized")
    /\ UNCHANGED <<action, child, leg, placed, audit>>

\* Past the gate: no eligible candidate, a session gate, no capacity or a
\* failed synchronization refuses the action; a scan without a candidate
\* completes it; otherwise the spread is created and the legs begin.
StartEntry(a) ==
    /\ worker[a] = "authorized"
    /\ \E next \in {"refuse", "complete", "leg"} : Goto(a, next)
    /\ UNCHANGED <<action, child, leg, placed, audit>>

-----------------------------------------------------------------------------
(* The worker at one leg.                                                  *)

\* prepare_intent with a parent; a parent that takes no child raises.
PrepareChild(a) ==
    /\ worker[a] = "leg"
    /\ IF ParentAcceptsChild(a)
       THEN /\ child' = [child EXCEPT ![a][leg[a]] = NewRow]
            /\ Goto(a, "prepared_leg")
       ELSE /\ Goto(a, "stop")
            /\ UNCHANGED child
    /\ UNCHANGED <<action, leg, placed, audit>>

MarkSubmitting(a) ==
    /\ worker[a] = "prepared_leg"
    /\ SetChild(a, leg[a], MarkState(child[a][leg[a]], "submitting"))
    /\ Goto(a, "calling")
    /\ UNCHANGED <<leg, placed>>

BrokerAccepts(a) ==
    /\ worker[a] = "calling"
    /\ <<a, leg[a]>> \notin placed
    /\ placed' = placed \cup {<<a, leg[a]>>}
    /\ UNCHANGED <<action, child, worker, leg, audit>>

\* mark_broker_acknowledged; a row that may not take the result any more
\* makes the outcome unknown.
Acknowledge(a) ==
    LET row == child[a][leg[a]] IN
    /\ worker[a] = "calling"
    /\ <<a, leg[a]>> \in placed
    /\ SetChild(a, leg[a], MarkBrokerAcknowledged(row, BrokerOrder))
    /\ Goto(a, IF IsLateResult(row, BrokerOrder) THEN "stop" ELSE "acknowledged")
    /\ UNCHANGED <<leg, placed>>

\* A failed call that ends the leg like a refused one.
CallFailsAsRefused(a) ==
    /\ worker[a] = "calling"
    /\ SetChild(a, leg[a], MarkUnknown(child[a][leg[a]], NoOrder))
    /\ Goto(a, "complete")
    /\ UNCHANGED <<leg, placed>>

\* The call timed out or failed: mark_unknown, perhaps with the id of an
\* order whose detail could not be read.
CallFails(a) ==
    /\ worker[a] = "calling"
    /\ \E ext \in {NoOrder, BrokerOrder} :
         /\ ext = BrokerOrder => <<a, leg[a]>> \in placed
         /\ SetChild(a, leg[a], MarkUnknown(child[a][leg[a]], ext))
    /\ Goto(a, "stop")
    /\ UNCHANGED <<leg, placed>>

\* The adapter refused before it called the broker: mark_rejected.  The long
\* leg ends the entry as failed, the short leg is rolled back, and a rollback
\* that cannot be sent needs the operator.
CallRejected(a) ==
    /\ worker[a] = "calling"
    /\ <<a, leg[a]>> \notin placed
    /\ SetChild(a, leg[a], MarkState(child[a][leg[a]], "rejected"))
    /\ CASE leg[a] = "long_entry" -> Goto(a, "complete") /\ UNCHANGED leg
         [] leg[a] = "short_entry" -> Goto(a, "leg") /\ leg' = [leg EXCEPT ![a] = "long_exit"]
         [] leg[a] = "long_exit" -> Goto(a, "stop") /\ UNCHANGED leg
    /\ UNCHANGED placed

\* A failed transaction behind the long leg is logged, and the entry goes on.
PersistLegGoesOn(a) ==
    LET row == child[a][leg[a]] IN
    /\ worker[a] = "acknowledged"
    /\ \/ /\ leg[a] = "long_entry"
          /\ \E next \in {MarkUnknown(row, NoOrder), PersistBrokerResult(row, BrokerOrder)} :
               SetChild(a, leg[a], next)
          /\ Goto(a, "leg")
          /\ leg' = [leg EXCEPT ![a] = "short_entry"]
       \/ /\ leg[a] # "long_entry"
          /\ SetChild(a, leg[a], PersistBrokerResult(row, BrokerOrder))
          /\ Goto(a, "complete")
          /\ UNCHANGED leg
    /\ UNCHANGED placed

\* persist_broker_result, then the wait for a fill.  Anything unclear on the
\* way (a residual fill, a cancel that is not final, a lost update of the
\* spread, a failed transaction) stops the worker for manual action.
PersistLeg(a) ==
    LET row == child[a][leg[a]] IN
    /\ worker[a] = "acknowledged"
    /\ \/ /\ SetChild(a, leg[a], MarkUnknown(row, NoOrder))
          /\ Goto(a, "stop")
          /\ UNCHANGED leg
       \/ /\ SetChild(a, leg[a], PersistBrokerResult(row, BrokerOrder))
          /\ \/ /\ leg[a] = "long_entry"
                /\ Goto(a, "leg")
                /\ leg' = [leg EXCEPT ![a] = "short_entry"]
             \/ /\ leg[a] = "short_entry"
                /\ Goto(a, "leg")
                /\ leg' = [leg EXCEPT ![a] = "long_exit"]
             \/ /\ \E next \in {"complete", "stop"} : Goto(a, next)
                /\ UNCHANGED leg
    /\ UNCHANGED placed

\* A ledger transaction about the child fails and so does the one that would
\* mark it unknown (only logged): the row stays as it was.
LedgerFails(a) ==
    /\ worker[a] \in {"leg", "prepared_leg", "calling", "acknowledged"}
    /\ Goto(a, "stop")
    /\ UNCHANGED <<action, child, leg, placed, audit>>

-----------------------------------------------------------------------------
(* The worker's last step.                                                 *)

\* complete_action refuses a parent the settlement has closed; that, or a
\* failed transaction, ends as an unknown outcome.
CompleteAction(a) ==
    /\ worker[a] = "complete"
    /\ \/ /\ action[a] \notin {"rejected", "resolved_no_order"}
          /\ action' = [action EXCEPT ![a] = "persisted"]
          /\ Goto(a, "done")
       \/ /\ Goto(a, "stop")
          /\ UNCHANGED action
    /\ UNCHANGED <<child, leg, placed, audit>>

\* _mark_parent_action_rejected; its failure is only logged.
RefuseAction(a) ==
    /\ worker[a] = "refuse"
    /\ MarkActionState(a, "rejected") \/ UNCHANGED action
    /\ Goto(a, "done")
    /\ UNCHANGED <<child, leg, placed, audit>>

\* _mark_parent_action_unknown; its failure is only logged.
StopAction(a) ==
    /\ worker[a] = "stop"
    /\ MarkActionState(a, "unknown") \/ UNCHANGED action
    /\ Goto(a, "done")
    /\ UNCHANGED <<child, leg, placed, audit>>

\* The process dies.  A retry with the same key finds the row and runs nothing.
Crash(a) ==
    /\ worker[a] \notin {"idle", "done"}
    /\ Goto(a, "done")
    /\ UNCHANGED <<action, child, leg, placed, audit>>

-----------------------------------------------------------------------------
(* The reconciler and the operator, on one child.                          *)

\* The broker history has exactly one order for the child.
ReconcileMatch(a, l) ==
    /\ UnresolvedChild(a, l)
    /\ <<a, l>> \in placed
    /\ SetChild(a, l, PersistBrokerResult(child[a][l], BrokerOrder))
    /\ UNCHANGED <<worker, leg, placed>>

InCall(a, l) == leg[a] = l /\ worker[a] \in {"prepared_leg", "calling"}

\* A complete read without a match, or a read that proves nothing.  A call
\* that is not slow is over before its child's evidence spans long enough
\* (NoOrderEvidence.tla has the clock).
ReconcileAttempt(a, l) ==
    /\ UnresolvedChild(a, l)
    /\ \E zeroMatch, long \in BOOLEAN :
         /\ zeroMatch => <<a, l>> \notin placed
         /\ zeroMatch /\ long /\ InCall(a, l) => SlowWorkers
         /\ SetChild(a, l, RecordReconciliationAttempt(child[a][l], zeroMatch, long))
    /\ UNCHANGED <<worker, leg, placed>>

\* resolve_no_order for a child of a composite action.
ResolveChildNoOrder(a, l) ==
    /\ UnresolvedChild(a, l)
    /\ NoOrderEvidenceReady(child[a][l])
    /\ action[a] # "persisted"
    /\ SetChild(a, l, ResolveNoOrder(child[a][l]))
    /\ UNCHANGED <<worker, leg, placed>>

-----------------------------------------------------------------------------
WorkerStep(a) ==
    \/ PrepareAction(a) \/ MarkActionSubmitting(a)
    \/ GateReadChildren(a) \/ GateReadActions(a) \/ StartEntry(a)
    \/ PrepareChild(a) \/ MarkSubmitting(a)
    \/ Acknowledge(a) \/ CallFails(a) \/ CallRejected(a) \/ PersistLeg(a)
    \/ LedgerFails(a) \/ CompleteAction(a) \/ RefuseAction(a) \/ StopAction(a)

Settling(a, l) == ReconcileMatch(a, l) \/ ResolveChildNoOrder(a, l)

Next ==
    \E a \in Actions :
      \/ WorkerStep(a) \/ BrokerAccepts(a) \/ Crash(a)
      \/ \E l \in Legs : ReconcileAttempt(a, l) \/ Settling(a, l)

Spec == Init /\ [][Next]_vars

\* Threads are scheduled, the reconciliation job runs again and again, and
\* the operator resolves what the evidence allows.
LiveSpec ==
    /\ Spec
    /\ \A a \in Actions : WF_vars(WorkerStep(a))
    /\ \A a \in Actions, l \in Legs : WF_vars(Settling(a, l))

-----------------------------------------------------------------------------
(* Properties.                                                             *)

\* The account gate: while one action may send orders, no other action may,
\* and none has a child whose outcome is open or an order at the broker that
\* is not in the local books.  Nothing locks the account between
\* has_unresolved_intents and the first order; the parent row that every
\* worker commits before it looks is what keeps the second one out.
EntryOnlyWhenSettled ==
    \A a, b \in Actions :
      Trading(a) /\ b # a =>
        /\ ~Trading(b)
        /\ \A l \in Legs :
             /\ ~UnresolvedChild(b, l)
             /\ <<b, l>> \in placed => child[b][l].state = "persisted"

\* docs/strategy-lifecycle.md: an unknown child keeps its parent, and so the
\* account, blocked.  complete_action and mark_action_rejected do not look
\* at the children, the settlement and prepare_intent run beside them.
OpenChildKeepsParentOpen ==
    \A a \in Actions :
      (\E l \in Legs : UnresolvedChild(a, l)) => UnresolvedAction(a)

\* However the siblings settle, an action of which a child was resolved as
\* having no order ends rejected, with exactly the audit event that tells
\* the operator, and never as a success.
NoOrderEndsRejectedAndAudited ==
    \A a \in Actions :
      /\ a \in audit <=> AllSettledWithNoOrder(child[a])
      /\ AllSettledWithNoOrder(child[a]) => action[a] = "rejected"

\* What blocks the account is open, whatever it waits for.
Outcome(state) == IF state \in UnresolvedStates THEN "open" ELSE state

Deeds == [a \in Actions |-> Outcome(action[a])]
Outcomes == [a \in Actions |-> [l \in Legs |-> Outcome(child[a][l].state)]]

Serial == INSTANCE SerialAccount WITH
    deed <- Deeds, outcome <- Outcomes, sent <- placed

\* With all their workers, gate reads, crashes, reconciliations and operator
\* resolutions the actions trade as if one at a time ran on the account:
\* a leg is ventured behind the one it follows and never while another
\* outcome is open, settles by what the broker has, and ends its action once
\* (docs/architecture.md, "Exact-Once Trading Intent Ledger").
ImplementsSerial == Serial!SSpec

\* A parent that is persisted or rejected is what later retries are answered
\* from, so no worker, reconciler or operator changes it again.
SettledActionIsFinal ==
    [][\A a \in Actions : action[a] \in TerminalStates => action'[a] = action[a]]_vars

\* application/services/recovery_status.py tells the operator of a parent that
\* is not unknown to "allow the existing reconciliation process to continue",
\* and of an unknown one to "wait for its child reconciliation evidence":
\* a parent is settled in the end.
ParentIsSettled ==
    \A a \in Actions : UnresolvedAction(a) ~> action[a] \in TerminalStates
=============================================================================
