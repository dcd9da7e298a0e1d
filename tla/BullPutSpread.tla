---------------------------- MODULE BullPutSpread ----------------------------
(***************************************************************************)
(* The life of one Bull Put spread: its row, the broker orders of its four *)
(* legs, the thread that opens it (the opener) and the threads that        *)
(* monitor, refresh and recover it (the closers), with the reconciler that *)
(* links orders whose outcome was unknown.                                 *)
(*                                                                         *)
(* application/services/bull_put/ (entry, close, execution, transitions),  *)
(* the monitor, refresh, recover and relink operations of                  *)
(* application/services/bull_put_strategy.py and the versioned row of      *)
(* repositories/sqlalchemy_bull_put_spread_repository.py.  An order is     *)
(* named by its idempotency key <<leg, attempt>>: TradingIntents.tla shows *)
(* that a key has at most one order.  The expiry of an order and its       *)
(* cancellation by a worker are one event of the broker.                   *)
(***************************************************************************)
EXTENDS Naturals

CONSTANTS
    Opener,      \* the thread in open_from_preview
    Entry,       \* names the copy of the row that open_from_preview keeps
                 \* while the procedure of a leg works on its own
    Closers,     \* threads that monitor, refresh and recover
    None,        \* no order is linked
    Contracts,   \* contracts of the spread
    MaxAttempt   \* bound: last rung of the repricing ladder, last recovery

Threads == Closers \cup {Opener}
Copies == Threads \cup {Entry}
Attempts == 0..MaxAttempt
Fields == {"long_entry", "short_entry", "short_exit", "long_exit"}
Legs == Fields \cup {"rollback"}
Keys == Legs \X Attempts

ASSUME SpreadConstants ==
    /\ Contracts \in Nat \ {0}
    /\ MaxAttempt \in Nat
    /\ Opener # Entry
    /\ Opener \notin Closers
    /\ Entry \notin Closers
    /\ None \notin Keys

\* The column of the row that holds the order of a key.
Field(k) == IF k[1] = "rollback" THEN "long_exit" ELSE k[1]

OrderStates == {"none", "working", "filled", "canceled"}
Statuses == {"entry_pending_long", "entry_pending_short", "entry_failed", "open",
             "rolled_back", "rollback_failed", "exit_pending_short",
             "exit_pending_long", "closed"}
Finished == {"closed", "rolled_back", "entry_failed"}
\* Warnings of the lifecycle payload; any warning is the manual-action flag.
Warnings == {"none", "close_order", "conflict", "review"}

VARIABLES
    order,   \* the broker's order of each key: its state and executed quantity
    intent,  \* the order intent of each key: none, open, persisted, rejected
    row,     \* the spread's row: status, linked orders, warning, should_close
    fresh,   \* the copies of the row whose version is still the row's
    pc,      \* where each thread is
    at       \* the key each thread is working on

vars == <<order, intent, row, fresh, pc, at>>

\* Rows, orders and threads only hold values of their types, and a column
\* only orders of its leg.
TypeOK ==
    /\ order \in [Keys -> [state : OrderStates, done : 0..Contracts]]
    /\ intent \in [Keys -> {"none", "open", "persisted", "rejected"}]
    /\ row \in [status : Statuses, link : [Fields -> Keys \cup {None}],
                warn : Warnings, close : BOOLEAN]
    /\ \A f \in Fields : row.link[f] = None \/ row.link[f][1] = f
                           \/ (f = "long_exit" /\ row.link[f][1] = "rollback")
    /\ fresh \subseteq Copies
    /\ pc \in [Threads -> {"idle", "decide", "submit", "calling", "link",
                           "await", "opened", "stopped", "crashed"}]
    /\ at \in [Threads -> Keys \cup {None}]

\* create_spread has committed the row and the opener begins the long leg.
Init ==
    /\ order = [k \in Keys |-> [state |-> "none", done |-> 0]]
    /\ intent = [k \in Keys |-> "none"]
    /\ row = [status |-> "entry_pending_long", link |-> [f \in Fields |-> None],
              warn |-> "none", close |-> FALSE]
    /\ fresh = {Opener, Entry}
    /\ pc = [t \in Threads |-> IF t = Opener THEN "submit" ELSE "idle"]
    /\ at = [t \in Threads |-> IF t = Opener THEN <<"long_entry", 0>> ELSE None]

-----------------------------------------------------------------------------
(* The broker and the intents (orders.py, TradingIntents.tla).             *)

BrokerAccepts(k) ==
    /\ intent[k] = "open"
    /\ order[k].state = "none"
    /\ order' = [order EXCEPT ![k].state = "working"]
    /\ UNCHANGED <<intent, row, fresh, pc, at>>

BrokerFills(k) ==
    /\ order[k].state = "working"
    /\ order' = [order EXCEPT ![k] =
         [state |-> IF @.done + 1 = Contracts THEN "filled" ELSE "working",
          done |-> @.done + 1]]
    /\ UNCHANGED <<intent, row, fresh, pc, at>>

BrokerCancels(k) ==
    /\ order[k].state = "working"
    /\ order' = [order EXCEPT ![k].state = "canceled"]
    /\ UNCHANGED <<intent, row, fresh, pc, at>>

\* reconcile_unresolved_intents finds the order of an intent.
Reconcile(k) ==
    /\ intent[k] = "open"
    /\ order[k].state # "none"
    /\ intent' = [intent EXCEPT ![k] = "persisted"]
    /\ UNCHANGED <<order, row, fresh, pc, at>>

\* The operator resolves an intent that has no order and, by the evidence
\* asked for, gets none (NoOrderEvidence.tla).
ResolveNoOrder(k) ==
    /\ intent[k] = "open"
    /\ order[k].state = "none"
    /\ \A t \in Threads : pc[t] = "calling" => at[t] # k
    /\ intent' = [intent EXCEPT ![k] = "rejected"]
    /\ UNCHANGED <<order, row, fresh, pc, at>>

\* What a reader may know of an order: what it is, or what it was.
Snapshots(k) ==
    {order[k]} \cup {[state |-> "working", done |-> q] :
                      q \in {d \in 0..order[k].done : d < Contracts}}

-----------------------------------------------------------------------------
(* The row.                                                                *)

Goto(t, next) == pc' = [pc EXCEPT ![t] = next]
GotoLeg(t, next, k) == Goto(t, next) /\ at' = [at EXCEPT ![t] = k]
Rest(t) == GotoLeg(t, "idle", None)
Stop(t) == GotoLeg(t, "stopped", None)

\* update_spread without the comparison of the versions.
UpdateUnversioned(holder, new) ==
    /\ row' = new
    /\ fresh' = {holder}

\* update_spread from a copy of the row: only while no other update came
\* between, and it makes every other copy stale.
Update(holder, new) ==
    /\ holder \in fresh
    /\ row' = new
    /\ fresh' = {holder}

\* An update that raises because its copy is stale.
UpdateRaises(holder) ==
    /\ holder \notin fresh
    /\ UNCHANGED <<row, fresh>>

TryUpdate(holder, new) == Update(holder, new) \/ UpdateRaises(holder)

WithStatus(status) == [row EXCEPT !.status = status]

\* _mark_manual_action_required.
Marked(r) == [r EXCEPT !.warn = "review"]

-----------------------------------------------------------------------------
(* A thread submits an order, links it to the row and waits for its fill.  *)

\* submit_order raises.  A closer passes the exception on.  The opener marks
\* the spread for manual action, from the copy of open_from_preview; a
\* rollback that cannot be sent marks it from its own.
SubmitRaises(t) ==
    \/ /\ t # Opener
       /\ Rest(t)
       /\ UNCHANGED <<row, fresh>>
    \/ /\ t = Opener
       /\ Stop(t)
       /\ IF at[t][1] = "rollback"
          THEN TryUpdate(Opener, Marked(WithStatus("rollback_failed")))
          ELSE TryUpdate(Entry, Marked(row))

\* submit_order raises TradingIntentRejectedError: there is no order.  The
\* entry fails without a long leg and is rolled back without a short one.
SubmitRefused(t) ==
    LET leg == at[t][1] IN
    \/ /\ t # Opener \/ leg = "rollback"
       /\ SubmitRaises(t)
    \/ /\ t = Opener
       /\ leg = "long_entry"
       /\ TryUpdate(Entry, WithStatus("entry_failed"))
       /\ IF Entry \in fresh THEN Rest(t) ELSE Stop(t)
    \/ /\ t = Opener
       /\ leg = "short_entry"
       /\ GotoLeg(t, "submit", <<"rollback", 0>>)
       /\ fresh' = IF Entry \in fresh THEN fresh ELSE fresh \ {Opener}
       /\ UNCHANGED row

\* prepare_intent creates the intent of the key.
SubmitNew(t) ==
    LET k == at[t] IN
    /\ pc[t] = "submit"
    /\ intent[k] = "none"
    /\ intent' = [intent EXCEPT ![k] = "open"]
    /\ Goto(t, "calling")
    /\ UNCHANGED <<order, row, fresh, at>>

\* The key is in use: its order is returned, or it was refused.  Anything
\* else raises: an open outcome, other prices, an inactive account.
SubmitReplay(t) ==
    LET k == at[t] IN
    /\ pc[t] = "submit"
    /\ \/ /\ intent[k] = "persisted"
          /\ Goto(t, "link")
          /\ UNCHANGED <<row, fresh, at>>
       \/ /\ intent[k] = "rejected"
          /\ SubmitRefused(t)
       \/ SubmitRaises(t)
    /\ UNCHANGED <<order, intent>>

\* The call ends: with the order, refused, or with an unknown outcome.
CallReturns(t) ==
    LET k == at[t] IN
    /\ pc[t] = "calling"
    /\ \/ /\ order[k].state # "none"
          /\ intent' = [intent EXCEPT ![k] = "persisted"]
          /\ Goto(t, "link")
          /\ UNCHANGED <<row, fresh, at>>
       \/ /\ order[k].state = "none"
          /\ intent' = [intent EXCEPT ![k] = "rejected"]
          /\ SubmitRefused(t)
       \/ /\ SubmitRaises(t)
          /\ UNCHANGED intent
    /\ UNCHANGED <<order>>

\* The row with the order in its column, and the status that goes with it.
\* The flags recover_close passes along are derived again from the payload,
\* which it does not change.
Linked(k) ==
    [row EXCEPT !.link[Field(k)] = k,
                !.status = CASE k[1] = "short_exit" -> "exit_pending_short"
                             [] k[1] = "long_exit" -> "exit_pending_long"
                             [] OTHER -> @]

\* The link of the order is the first thing written after the call.  When it
\* fails the opener tries once more, with the manual-action flag.
LinkOrder(t) ==
    LET k == at[t] IN
    /\ pc[t] = "link"
    /\ \/ /\ Update(t, Linked(k))
          /\ Goto(t, "await")
          /\ UNCHANGED at
       \/ /\ t = Opener
          /\ k[1] # "rollback"
          /\ TryUpdate(Entry, Marked(Linked(k)))
          /\ Stop(t)
       \/ /\ t # Opener \/ k[1] = "rollback"
          /\ IF t = Opener THEN Stop(t) ELSE Rest(t)
          /\ UNCHANGED <<row, fresh>>
    /\ UNCHANGED <<order, intent>>

\* await_terminal_or_fill, and cancel_if_working behind it, end with what is
\* known of the order.
Awaited(t, leg) ==
    IF pc[t] = "await" /\ at[t][1] = leg THEN Snapshots(at[t]) ELSE {}

Filled(s) == s.state = "filled"
Dead(s) == s.state = "canceled" /\ s.done = 0
Unclear(s) == ~Filled(s) /\ ~Dead(s)

-----------------------------------------------------------------------------
(* The opener (entry.py).                                                  *)

\* The long leg is filled: the short leg is next, and both procedures go on
\* from the same copy.
LongEntryFilled ==
    /\ \E s \in Awaited(Opener, "long_entry") : Filled(s)
    /\ \/ /\ Opener \in fresh
          /\ row' = WithStatus("entry_pending_short")
          /\ fresh' = {Opener, Entry}
          /\ GotoLeg(Opener, "submit", <<"short_entry", 0>>)
       \/ /\ UpdateRaises(Opener)
          /\ Stop(Opener)
    /\ UNCHANGED <<order, intent>>

ShortEntryFilled ==
    /\ \E s \in Awaited(Opener, "short_entry") : Filled(s)
    /\ TryUpdate(Opener, WithStatus("open"))
    /\ GotoLeg(Opener, IF Opener \in fresh THEN "opened" ELSE "stopped", None)
    /\ UNCHANGED <<order, intent>>

EntryAwaited == Awaited(Opener, "long_entry") \cup Awaited(Opener, "short_entry")

\* A rung that may still fill, or has a partial fill, stops the opener.
EntryUnclear ==
    /\ \E s \in EntryAwaited : Unclear(s)
    /\ SubmitRaises(Opener)
    /\ UNCHANGED <<order, intent>>

\* A rung that ended without a fill is followed by the next one ...
NextRung ==
    /\ \E s \in EntryAwaited : Dead(s)
    /\ at[Opener][2] < MaxAttempt
    /\ GotoLeg(Opener, "submit", <<at[Opener][1], at[Opener][2] + 1>>)
    /\ UNCHANGED <<order, intent, row, fresh>>

\* ... or is the last: without a long leg the entry has failed ...
LongEntryUnfilled ==
    /\ \E s \in Awaited(Opener, "long_entry") : Dead(s)
    /\ TryUpdate(Opener, WithStatus("entry_failed"))
    /\ IF Opener \in fresh THEN Rest(Opener) ELSE Stop(Opener)
    /\ UNCHANGED <<order, intent>>

\* A rollback beside a short order that may still fill.
ShortEntryUnfilledYet ==
    /\ \E s \in Awaited(Opener, "short_entry") : ~Filled(s)
    /\ GotoLeg(Opener, "submit", <<"rollback", 0>>)
    /\ UNCHANGED <<order, intent, row, fresh>>

\* ... and without a short one the long leg is sold again.
ShortEntryUnfilled ==
    /\ \E s \in Awaited(Opener, "short_entry") : Dead(s)
    /\ GotoLeg(Opener, "submit", <<"rollback", 0>>)
    /\ UNCHANGED <<order, intent, row, fresh>>

\* The rollback is filled, or it needs the operator; a failed refresh of its
\* order is not caught.
RollbackEnds ==
    /\ \E s \in Awaited(Opener, "rollback") :
         \/ /\ TryUpdate(Opener, IF Filled(s) THEN WithStatus("rolled_back")
                                 ELSE Marked(WithStatus("rollback_failed")))
            /\ IF Filled(s) /\ Opener \in fresh THEN Rest(Opener) ELSE Stop(Opener)
         \/ /\ Stop(Opener)
            /\ UNCHANGED <<row, fresh>>
    /\ UNCHANGED <<order, intent>>

-----------------------------------------------------------------------------
(* Refresh (transitions.py, strategy_lifecycle.py).                        *)

NoOrder == [state |-> "none", done |-> 0]
LinkedSnapshots(f) ==
    IF row.link[f] = None THEN {NoOrder} ELSE Snapshots(row.link[f])

\* evaluate_bull_put_transition: what the linked orders say of the status,
\* and whether they leave a position nobody manages.
Transition(status, s) ==
    LET residual == \/ s.short_entry.done > s.short_exit.done
                    \/ s.long_entry.done > s.long_exit.done
        move(next) == [status |-> next, manual |-> FALSE]
        stay(manual) == [status |-> status, manual |-> manual]
    IN CASE status \in {"closed", "rolled_back"} -> stay(residual)
         [] status = "entry_pending_long" ->
              IF Dead(s.long_entry) THEN move("entry_failed")
              ELSE IF Filled(s.long_entry) THEN move("entry_pending_short")
              ELSE stay(FALSE)
         [] status = "entry_pending_short" ->
              IF Filled(s.long_entry) /\ Filled(s.short_entry) THEN move("open")
              ELSE IF s.short_entry.state # "canceled" THEN stay(FALSE)
              ELSE IF Filled(s.long_exit) THEN move("rolled_back")
              ELSE [status |-> "rollback_failed", manual |-> TRUE]
         [] status = "entry_failed" ->
              stay(s.long_entry.done > 0 \/ s.short_entry.done > 0)
         [] status = "rollback_failed" ->
              IF Filled(s.long_exit) THEN move("rolled_back") ELSE stay(FALSE)
         [] status = "exit_pending_short" ->
              IF Filled(s.short_exit) THEN move("exit_pending_long")
              ELSE IF Dead(s.short_exit) THEN move("open")
              ELSE stay(s.short_exit.state = "canceled")
         [] status = "exit_pending_long" ->
              IF Filled(s.long_exit) THEN move("closed")
              ELSE stay(s.long_exit.state = "canceled")
         [] status = "open" -> stay(FALSE)

\* The warning of the payload: a canceled closing order warns while the
\* spread must be closed or is flagged already, and stops to warn when it is
\* not canceled any more.  Its payload replaces the one of the transition.
Warning(status, shortExit, manual) ==
    LET warns == /\ shortExit.state = "canceled"
                 /\ (status = "open" /\ row.close) \/ row.warn # "none"
    IN CASE warns -> "close_order"
         [] ~warns /\ row.warn = "close_order" -> "none"
         [] ~warns /\ row.warn # "close_order" -> IF manual THEN "review" ELSE row.warn

\* refresh_spread: what the four linked orders may be seen as, and the row
\* that is written then.
LinkedStates ==
    {[long_entry |-> le, short_entry |-> se, short_exit |-> sx, long_exit |-> lx] :
       le \in LinkedSnapshots("long_entry"), se \in LinkedSnapshots("short_entry"),
       sx \in LinkedSnapshots("short_exit"), lx \in LinkedSnapshots("long_exit")}
Refreshed(s) ==
    LET next == Transition(row.status, s)
    IN [row EXCEPT !.status = next.status,
                   !.warn = Warning(next.status, s.short_exit, next.manual)]
RefreshedRows == {Refreshed(s) : s \in LinkedStates}

\* The dashboard, or a monitor that finds nothing to do.  A conflict is
\* retried from a new copy, so the update is one step.
RefreshSpread ==
    /\ row' \in RefreshedRows
    /\ fresh' = {}
    /\ UNCHANGED <<order, intent, pc, at>>

-----------------------------------------------------------------------------
(* The closers (monitor_spread, close.py).                                 *)

\* monitor_spread refreshes the row, leaves flagged spreads alone, goes on
\* selling the long leg, or looks at an open spread.
MonitorSpread(t) ==
    /\ pc[t] = "idle"
    /\ row' \in RefreshedRows
    /\ row'.warn = "none"
    /\ fresh' = {t}
    /\ \/ /\ row'.status = "exit_pending_long"
          /\ GotoLeg(t, "submit", <<"long_exit", 0>>)
       \/ /\ row'.status = "open"
          /\ Goto(t, "decide")
          /\ UNCHANGED at
    /\ UNCHANGED <<order, intent>>

\* With the quotes the monitor records whether the spread must be closed,
\* and closes it: the short leg is bought back first.
DecideExit(t) ==
    /\ pc[t] = "decide"
    /\ \/ \E must \in BOOLEAN :
            /\ Update(t, [row EXCEPT !.close = must])
            /\ IF must THEN GotoLeg(t, "submit", <<"short_exit", 0>>)
               ELSE Rest(t)
       \/ /\ UpdateRaises(t)
          /\ Rest(t)
    /\ UNCHANGED <<order, intent>>

\* A recovery that does not look at what has become of the old order.
RecoverCloseUnchecked(t) ==
    /\ pc[t] = "idle"
    /\ row.status = "open" /\ row.close
    /\ \E n \in Attempts :
         /\ row.link["short_exit"] = <<"short_exit", n>>
         /\ n < MaxAttempt
         /\ GotoLeg(t, "submit", <<"short_exit", n + 1>>)
    /\ fresh' = fresh \cup {t}
    /\ UNCHANGED <<order, intent, row>>

\* recover_close: the operator replaces a closing order that has ended; the
\* key of the replacement is derived from the order it replaces.
RecoverClose(t) ==
    /\ pc[t] = "idle"
    /\ row.status = "open" /\ row.close
    /\ \E n \in Attempts :
         /\ row.link["short_exit"] = <<"short_exit", n>>
         /\ \E s \in Snapshots(<<"short_exit", n>>) : s.state = "canceled"
         /\ n < MaxAttempt
         /\ GotoLeg(t, "submit", <<"short_exit", n + 1>>)
    /\ fresh' = fresh \cup {t}
    /\ UNCHANGED <<order, intent, row>>

\* A sale of the long leg beside a buy-back that may still fill.
ShortExitFilledYet(t) ==
    /\ \E s \in Awaited(t, "short_exit") : ~Dead(s)
    /\ GotoLeg(t, "submit", <<"long_exit", 0>>)
    /\ UNCHANGED <<order, intent, row, fresh>>

\* The short leg is bought back: the long leg is sold.
ShortExitFilled(t) ==
    /\ \E s \in Awaited(t, "short_exit") : Filled(s)
    /\ GotoLeg(t, "submit", <<"long_exit", 0>>)
    /\ UNCHANGED <<order, intent, row, fresh>>

\* The closing order ended without a fill: the spread is open again.  A
\* recovery writes the payload of the warning, or none when there is none.
ShortExitUnfilled(t) ==
    LET open == WithStatus("open")
        recovered == IF row.warn # "none" THEN [open EXCEPT !.warn = "close_order"]
                     ELSE [open EXCEPT !.close = FALSE]
    IN /\ \E s \in Awaited(t, "short_exit") : Dead(s)
       /\ TryUpdate(t, IF at[t][2] = 0 THEN open ELSE recovered)
       /\ Rest(t)
       /\ UNCHANGED <<order, intent>>

\* The closing order may still fill, or has a partial fill.
ShortExitUnclear(t) ==
    LET pending == WithStatus("exit_pending_short")
        recovered(s) ==
            IF s.state = "canceled" /\ row.warn # "none"
            THEN [pending EXCEPT !.warn = "close_order"]
            ELSE [pending EXCEPT !.warn = "none",
                                 !.close = @ /\ row.warn = "close_order"]
    IN /\ \E s \in Awaited(t, "short_exit") :
            /\ Unclear(s)
            /\ TryUpdate(t, IF at[t][2] = 0 THEN Marked(row) ELSE recovered(s))
       /\ Rest(t)
       /\ UNCHANGED <<order, intent>>

\* A sale that has ended closes the spread, filled or not.
LongExitEndsAnyhow(t) ==
    /\ \E s \in Awaited(t, "long_exit") :
         TryUpdate(t, IF s.state # "working" THEN WithStatus("closed")
                      ELSE Marked(WithStatus("exit_pending_long")))
    /\ Rest(t)
    /\ UNCHANGED <<order, intent>>

\* A filled sale of the long leg closes the spread, any other end needs the
\* operator.
LongExitEnds(t) ==
    /\ \E s \in Awaited(t, "long_exit") :
         TryUpdate(t, IF Filled(s) THEN WithStatus("closed")
                      ELSE Marked(WithStatus("exit_pending_long")))
    /\ Rest(t)
    /\ UNCHANGED <<order, intent>>

\* The quotes, a refresh or a cancellation raise, a transaction fails or the
\* process dies.
GivesUp(t) ==
    /\ pc[t] # "idle"
    /\ Rest(t)
    /\ UNCHANGED <<order, intent, row, fresh>>

-----------------------------------------------------------------------------
(* The reconciler and the end of a thread.                                 *)

\* A reconciler that only fills empty columns.
RelinkMissing(k) ==
    /\ intent[k] = "persisted"
    /\ k[1] = "short_exit" => k[2] = 0
    /\ row.link[Field(k)] = None
    /\ row' = [Marked(row) EXCEPT !.link[Field(k)] = k]
    /\ fresh' = {}
    /\ UNCHANGED <<order, intent, pc, at>>

\* relink_reconciled_order_intents, at one persisted intent whose order is
\* not the linked one.  A replacement of a closing order has a leg of its
\* own and is passed over.
Relink(k) ==
    /\ intent[k] = "persisted"
    /\ k[1] = "short_exit" => k[2] = 0
    /\ row.link[Field(k)] # k
    /\ row' = IF row.link[Field(k)] = None
              THEN [Marked(row) EXCEPT !.link[Field(k)] = k]
              ELSE [row EXCEPT !.warn = "conflict"]
    /\ fresh' = {}
    /\ UNCHANGED <<order, intent, pc, at>>

\* The process dies with the opener in it.
Crash ==
    /\ pc[Opener] \notin {"idle", "opened", "stopped", "crashed"}
    /\ GotoLeg(Opener, "crashed", None)
    /\ UNCHANGED <<order, intent, row, fresh>>

-----------------------------------------------------------------------------
Broker(k) == BrokerAccepts(k) \/ BrokerFills(k) \/ BrokerCancels(k)

SubmitStep(t) == SubmitNew(t) \/ SubmitReplay(t) \/ CallReturns(t) \/ LinkOrder(t)

OpenerStep ==
    \/ SubmitStep(Opener)
    \/ LongEntryFilled \/ ShortEntryFilled \/ EntryUnclear \/ NextRung
    \/ LongEntryUnfilled \/ ShortEntryUnfilled \/ RollbackEnds

CloserStep(t) ==
    \/ MonitorSpread(t) \/ DecideExit(t) \/ RecoverClose(t)
    \/ SubmitStep(t)
    \/ ShortExitFilled(t) \/ ShortExitUnfilled(t) \/ ShortExitUnclear(t)
    \/ LongExitEnds(t) \/ GivesUp(t)

Next ==
    \/ OpenerStep
    \/ \E t \in Closers : CloserStep(t)
    \/ RefreshSpread \/ Crash
    \/ \E k \in Keys : Broker(k) \/ Reconcile(k) \/ ResolveNoOrder(k) \/ Relink(k)

Spec == Init /\ [][Next]_vars

\* The poll loop reconciles open intents and relinks persisted ones, again
\* and again.
FairSpec == Spec /\ \A k \in Keys : WF_vars(Reconcile(k)) /\ WF_vars(Relink(k))

-----------------------------------------------------------------------------
(* Properties.                                                             *)

\* The order works or has executed.
Live(k) == order[k].state = "working" \/ order[k].done > 0
BoughtBack == \E n \in Attempts : order[<<"short_exit", n>>].state = "filled"

\* README.md: "buy the protective long put first, then sell the short put",
\* "buy back the short put first, then flatten the long put".  While a short
\* put may be sold the whole long leg is held, and nothing that sells the
\* long leg works before the short one is bought back: whichever rung is
\* refused, fills late or stays unknown, and whoever closes meanwhile.
ShortIsHedged ==
    \A n \in Attempts : Live(<<"short_entry", n>>) =>
      /\ \E m \in Attempts : order[<<"long_entry", m>>].state = "filled"
      /\ \A k \in {<<"rollback", 0>>, <<"long_exit", 0>>} : Live(k) => BoughtBack

\* Whatever rungs, retries, concurrent monitors and recoveries there are, a
\* leg is opened by one order and sold by one order, and the short leg is
\* never bought back by two orders that work or have filled.
OneOrderPerLeg ==
    /\ \A f \in {"long_entry", "short_entry"}, m, n \in Attempts :
         Live(<<f, m>>) /\ Live(<<f, n>>) => m = n
    /\ ~(Live(<<"rollback", 0>>) /\ Live(<<"long_exit", 0>>))
    /\ \A m, n \in Attempts :
         {order[<<"short_exit", m>>].state, order[<<"short_exit", n>>].state}
           \subseteq {"working", "filled"} => m = n

\* A spread the books call closed or rolled back has no position left.
FlatWhenFinished ==
    /\ row.status = "closed" =>
         BoughtBack /\ order[<<"long_exit", 0>>].state = "filled"
    /\ row.status = "rolled_back" =>
         /\ \A n \in Attempts : ~Live(<<"short_entry", n>>)
         /\ order[<<"rollback", 0>>].state = "filled"

\* The contracts that the orders of the keys have executed: of one order, as
\* a leg has one; of the short leg's exits, the most that one has bought back.
Executed(keys) ==
    CHOOSE q \in {order[k].done : k \in keys} : \A k \in keys : order[k].done <= q
Rungs(leg) == {leg} \X Attempts
Sales == {<<"rollback", 0>>, <<"long_exit", 0>>}

Position == INSTANCE SpreadPosition WITH
    bought <- Executed(Rungs("long_entry")),
    short <- Executed(Rungs("short_entry")),
    back <- Executed(Rungs("short_exit")),
    sold <- Executed(Sales),
    books <- IF row.status \in Finished THEN row.status ELSE "open"

\* README.md: "buy the protective long put first, then sell the short put",
\* "buy back the short put first, then flatten the long put".  With all its
\* orders, threads, retries and refreshes the spread trades contract by
\* contract as one that does nothing but that, and ends its books once.
ImplementsPosition == Position!PSpec

\* docs/strategy-lifecycle.md: "closed, rolled_back, and entry_failed never
\* transition back to open", although refresh, opener, monitors and a
\* recovery write the status from what they have read earlier.
FinishedIsFinal ==
    [][row.status \in Finished => row'.status = row.status]_vars

\* docs/strategy-lifecycle.md: "late fill requires manual action".  When a
\* refresh has ended the entry behind a canceled rung while the opener sent
\* the next one, the position of that rung is flagged in the end.
LateFillIsFlagged ==
    (row.status = "entry_failed" /\ \E n \in Attempts : order[<<"long_entry", n>>].done > 0)
      ~> row.warn # "none"

\* tests/test_bull_put_strategy.py: an entry that stops behind a linked short
\* order which may still fill, or has a partial fill, is marked for manual
\* action.
UnclearEntryIsFlagged ==
    /\ pc[Opener] = "stopped"
    /\ row.status = "entry_pending_short"
    /\ row.link["short_entry"] # None
    => row.warn # "none"

\* README.md: the scheduler "monitors open or exit-pending bull put spreads".
\* A spread that was opened, and of which no closing order exists, is not
\* taken out of the monitoring.
OpenedSpreadIsMonitored ==
    pc[Opener] = "opened" /\ intent[<<"short_exit", 0>>] = "none" => row.warn = "none"
=============================================================================
