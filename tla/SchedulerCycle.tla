--------------------------- MODULE SchedulerCycle ---------------------------
(***************************************************************************)
(* One cycle after another of ReconciliationCoordinator.run_once for one   *)
(* account: which task waits for which, and what is due when.  Whether a   *)
(* single task gets its lease or is in backoff is SchedulerLease; here it  *)
(* is done ("ok"), or not ("failed": skipped, backed off or raised).       *)
(*                                                                         *)
(* A due check compares the clock reading of the start of the cycle with   *)
(* the instant of the last attempt.  The state holds ages, and elapsed,    *)
(* the age of that reading.                                                *)
(***************************************************************************)
EXTENDS Integers, FiniteSets

CONSTANTS
    Spreads,          \* the monitorable Bull Put spreads of the account
    Poll,             \* reconciliation_poll_interval_seconds
    OrdersIntervals,  \* reconciliation_(working_)orders_interval_seconds
    AccountInterval,  \* reconciliation_account_interval_seconds
    MonitorInterval,  \* bull_put_strategy.monitor_interval_seconds
    Durations,        \* how long a task may take
    MaxElapsed,       \* bound: how long a cycle lasts
    MaxAge,           \* bound: ages from which on everything is due
    MaxTroubles,      \* bound: failed tasks, missed spreads, cycles with an
                      \* unresolved intent
    MaxManual         \* bound: syncs and refreshes from the dashboard

ASSUME CycleAssumption ==
    /\ {Poll, AccountInterval, MonitorInterval} \cup OrdersIntervals \subseteq Nat \ {0}
    /\ Durations \subseteq Nat /\ 0 \in Durations
    /\ {MaxElapsed, MaxAge, MaxTroubles, MaxManual} \subseteq Nat
    /\ \A i \in {AccountInterval, MonitorInterval} \cup OrdersIntervals :
          i + MaxElapsed <= MaxAge

VARIABLES
    step,       \* the task run_once is at
    elapsed,    \* age of its `now`
    outcome,    \* what became of the tasks of this cycle
    evaluated,  \* spreads whose exit rules this cycle has evaluated
    missed,     \* spreads whose monitor raised in this cycle
    sameDay,    \* same_day_option_entry_blocked
    unresolved, \* has_unresolved_intents, as read in this cycle
    loaded,     \* ages of the last sync attempts when the account was loaded
    since,      \* ages of the last sync attempts: orders, account
    synced,     \* age of each spread's last_synced_at
    troubles, manual

cycleVars == <<elapsed, outcome, evaluated, missed, sameDay, unresolved, loaded>>
vars == <<step, cycleVars, since, synced, troubles, manual>>

Tasks == {"intents", "orders", "account", "linkage", "monitor", "cc_lifecycle",
          "cc_monitor", "bp_scan", "cc_propose"}
Steps == Tasks \cup {"asleep", "readiness", "review"}
Results == {"none", "ok", "failed"}
Ages == 0..MaxAge
NoOutcome == [t \in Tasks |-> "none"]

Aged(age, d) == IF age + d < MaxAge THEN age + d ELSE MaxAge
AgedAll(ages, d) == [x \in DOMAIN ages |-> Aged(ages[x], d)]

Init ==
    /\ step = "asleep" /\ elapsed = 0 /\ outcome = NoOutcome
    /\ evaluated = {} /\ missed = {} /\ sameDay = FALSE /\ unresolved = FALSE
    /\ since = [orders |-> MaxAge, account |-> MaxAge] /\ loaded = since
    /\ synced = [s \in Spreads |-> MaxAge]
    /\ troubles = 0 /\ manual = 0

-----------------------------------------------------------------------------
Done(t) == outcome[t] = "ok"

\* Mutant of TradingReady: the same-day guard stops more than entries.
TradingReadyToday ==
    Done("intents") /\ Done("orders") /\ Done("account") /\ ~unresolved /\ ~sameDay

TradingReady == Done("intents") /\ Done("orders") /\ Done("account") /\ ~unresolved
BullPutReady == TradingReady /\ Done("linkage") /\ outcome["monitor"] # "failed"
EntryReady == TradingReady /\ ~sameDay /\ outcome["monitor"] # "failed"

Trouble(happens) ==
    /\ happens => troubles < MaxTroubles
    /\ troubles' = IF happens THEN troubles + 1 ELSE troubles

\* The task at this step takes d and ends with result; on to the next step.
Finish(t, result, d, next) ==
    /\ step = t /\ step' = next
    /\ elapsed + d <= MaxElapsed /\ elapsed' = elapsed + d
    /\ outcome' = [outcome EXCEPT ![t] = result]

\* run_once passes the task over.
PassOver(t, next) ==
    /\ step = t /\ step' = next
    /\ UNCHANGED <<cycleVars, since, synced, troubles>>

\* _run_account_task of a task that moves no due time.
RunTask(t, next) ==
    \E d \in Durations, result \in {"ok", "failed"} :
       /\ Finish(t, result, d, next)
       /\ Trouble(result = "failed")
       /\ since' = AgedAll(since, d) /\ synced' = AgedAll(synced, d)
       /\ UNCHANGED <<evaluated, missed, sameDay, unresolved, loaded>>

RunTaskIf(ready, t, next) == IF ready THEN RunTask(t, next) ELSE PassOver(t, next)

\* The scheduler has waited for the poll interval; list_broker_accounts.
Wake ==
    /\ step = "asleep" /\ step' = "intents"
    /\ elapsed' = 0 /\ outcome' = NoOutcome
    /\ evaluated' = {} /\ missed' = {} /\ sameDay' = FALSE /\ unresolved' = FALSE
    /\ since' = AgedAll(since, Poll) /\ loaded' = since'
    /\ synced' = AgedAll(synced, Poll)
    /\ UNCHANGED troubles

ReconcileIntents == RunTask("intents", "orders")

\* A sync notes its attempt first, so a failed one counts as an attempt too;
\* a task that was skipped did not get that far.
RunSync(t, next) ==
    \E d \in Durations, result \in {"ok", "failed"}, attempted \in BOOLEAN :
       /\ result = "ok" => attempted
       /\ Finish(t, result, d, next)
       /\ Trouble(result = "failed")
       /\ since' = [AgedAll(since, d) EXCEPT ![t] = IF attempted THEN d ELSE @]
       /\ synced' = AgedAll(synced, d)
       /\ UNCHANGED <<evaluated, missed, sameDay, unresolved, loaded>>

\* The interval depends on whether the account has a working order.
SyncOrders ==
    \E interval \in OrdersIntervals :
       IF loaded["orders"] >= interval THEN RunSync("orders", "account")
                                       ELSE PassOver("orders", "account")

SyncAccount ==
    IF loaded["account"] >= AccountInterval THEN RunSync("account", "readiness")
                                            ELSE PassOver("account", "readiness")

\* An unresolved intent is looked for when everything else is ready, an
\* option position that expires today in a freshly synced account.
CheckReadiness ==
    /\ step = "readiness" /\ step' = "linkage"
    /\ \E open, blocked \in BOOLEAN :
          /\ open => Done("intents") /\ Done("orders") /\ Done("account")
          /\ blocked => Done("account")
          /\ Trouble(open)
          /\ unresolved' = open /\ sameDay' = blocked
    /\ UNCHANGED <<elapsed, outcome, evaluated, missed, loaded, since, synced>>

RelinkLegs == RunTaskIf(TradingReady, "linkage", "monitor")

\* A spread is due by its last_synced_at, read against the start of the cycle.
SpreadDue(s) == synced[s] - elapsed >= MonitorInterval

DueSpreads == {s \in Spreads : SpreadDue(s)}

\* What becomes of a due spread: its exit rules are evaluated, its monitor
\* raises (before or after refresh_spread), or the loop does not reach it.
Fates == {"evaluated", "raised", "refreshed", "passed"}
With(fate, f) == {s \in DueSpreads : fate[s] = f}
Raised(fate) == With(fate, "raised") \cup With(fate, "refreshed")

\* Mutants of MonitorResult: a loop that was stopped has still monitored; the
\* SKIPPED record of a cycle without a due spread is its result.
MonitorResultOfLast(fate, stopped) ==
    IF Raised(fate) # {} /\ With(fate, "evaluated") = {} THEN "failed" ELSE "ok"

MonitorResultRecorded(fate, stopped) ==
    IF stopped THEN "failed" ELSE IF DueSpreads = {} THEN "skipped" ELSE "ok"

\* One evaluated spread makes the task a success, whatever became of the rest.
MonitorResult(fate, stopped) ==
    IF stopped \/ (Raised(fate) # {} /\ With(fate, "evaluated") = {})
    THEN "failed" ELSE "ok"

\* The loop of _monitor_due_spreads: no lease, a backoff, a failed read of the
\* spreads or a transient failure stops it; any other exception passes to the
\* next spread.
MonitorDueSpreads ==
    \E d \in Durations, stopped \in BOOLEAN, fate \in [DueSpreads -> Fates] :
       /\ With(fate, "passed") # {} => stopped
       /\ Finish("monitor", MonitorResult(fate, stopped), d, "cc_lifecycle")
       /\ Trouble(stopped \/ Raised(fate) # {})
       /\ evaluated' = With(fate, "evaluated") /\ missed' = Raised(fate)
       /\ synced' = [s \in Spreads |->
                        Aged(IF s \in With(fate, "evaluated") THEN elapsed
                             ELSE IF s \in With(fate, "refreshed") THEN 0
                             ELSE synced[s], d)]
       /\ since' = AgedAll(since, d)
       /\ UNCHANGED <<sameDay, unresolved, loaded>>

\* Otherwise a risk alert is all that happens.
MonitorSpreads ==
    IF BullPutReady THEN MonitorDueSpreads ELSE PassOver("monitor", "cc_lifecycle")

ReconcileCoveredCalls == RunTaskIf(TradingReady, "cc_lifecycle", "cc_monitor")
MonitorCoveredCalls == RunTaskIf(TradingReady, "cc_monitor", "bp_scan")
ScanEntries == RunTaskIf(BullPutReady /\ EntryReady, "bp_scan", "cc_propose")
ProposeCoveredCalls == RunTaskIf(EntryReady, "cc_propose", "review")

\* bull-put-review, pre-open-capture and pre-open-review wait for nothing.
Review ==
    /\ step = "review" /\ step' = "asleep"
    /\ \E d \in Durations :
          /\ elapsed + d <= MaxElapsed /\ elapsed' = elapsed + d
          /\ since' = AgedAll(since, d) /\ synced' = AgedAll(synced, d)
    /\ UNCHANGED <<outcome, evaluated, missed, sameDay, unresolved, loaded, troubles>>

CycleStep ==
    /\ \/ Wake \/ ReconcileIntents \/ SyncOrders \/ SyncAccount
       \/ CheckReadiness \/ RelinkLegs \/ MonitorSpreads
       \/ ReconcileCoveredCalls \/ MonitorCoveredCalls
       \/ ScanEntries \/ ProposeCoveredCalls \/ Review
    /\ UNCHANGED manual

-----------------------------------------------------------------------------
(* The dashboard: the same syncs, outside the scheduler.                   *)

SyncManually(kind) ==
    /\ manual < MaxManual /\ manual' = manual + 1
    /\ since' = [since EXCEPT ![kind] = 0]
    /\ UNCHANGED <<step, cycleVars, synced, troubles>>

\* refresh_spread sets last_synced_at without looking at the exit rules.
RefreshSpread(s) ==
    /\ manual < MaxManual /\ manual' = manual + 1
    /\ synced' = [synced EXCEPT ![s] = 0]
    /\ UNCHANGED <<step, cycleVars, since, troubles>>

Next ==
    \/ CycleStep
    \/ \E kind \in {"orders", "account"} : SyncManually(kind)
    \/ \E s \in Spreads : RefreshSpread(s)

Spec == Init /\ [][Next]_vars

\* The loop of ReconciliationScheduler.run goes on, and its tasks end.
FairSpec == Spec /\ WF_vars(CycleStep)

-----------------------------------------------------------------------------
\* Everything has its type.
TypeOK ==
    /\ step \in Steps /\ elapsed \in 0..MaxElapsed
    /\ outcome \in [Tasks -> Results]
    /\ evaluated \subseteq Spreads /\ missed \subseteq Spreads
    /\ sameDay \in BOOLEAN /\ unresolved \in BOOLEAN
    /\ since \in [{"orders", "account"} -> Ages]
    /\ loaded \in [{"orders", "account"} -> Ages]
    /\ synced \in [Spreads -> Ages]
    /\ troubles \in 0..MaxTroubles /\ manual \in 0..MaxManual

\* "Every existing strategy lifecycle runs before any new-entry scan"
\* (run_once): when new entries are looked for, each open spread was seen
\* within a monitor interval of this cycle, or its monitor has raised in it.
EntryOnlyWithFreshSpreads ==
    outcome["bp_scan"] # "none" =>
       \A s \in Spreads : ~SpreadDue(s) \/ s \in missed

\* Open spreads are held against their exit rules again and again (README:
\* "on the configured monitor interval").
SpreadsKeepBeingMonitored == \A s \in Spreads : []<>(s \in evaluated)

=============================================================================
