# TLA+ models of stocks-tool

stocks-tool is a paper-trading service: a FastAPI application with a PostgreSQL
database, a background scheduler, a broker reached through the Longbridge SDK,
and a browser dashboard. Its own hard problem is to send broker orders that
cannot be taken back, from several threads, with a broker that may answer late
or not at all, and to keep a local record that is right in spite of it. These
modules model that part, check it with TLC and prove the most important
properties with TLAPS.

Source paths below are relative to `src/stocks_tool/` of the repository.

## 1. Inventory

| Component | State | Operations | Interacts with | What makes it correct |
|---|---|---|---|---|
| Trading intent ledger (`repositories/sqlalchemy_trading_intent_ledger.py`, `domain/intent_recovery.py`) | `trade_action_intents` (parents), `order_intents` (children): state, request hash, order id, evidence counters | prepare, mark submitting / acknowledged / unknown / rejected, persist, record a reconciliation attempt, resolve as no order, settle the parent | requests, reconciler and operator write the same rows, each in its own transaction | one broker call per key; terminal rows stay; a row closed without an order has none at the broker; parent and children agree |
| Orders (`application/services/orders.py`) | `orders`, `executions` | submit, cancel, replace, refresh, sync today's orders, reconcile unresolved intents, resolve an intent | ledger, adapter, strategies above it | every accepted order gets a local row; an intent names its own order, and a row no other intent |
| Longbridge adapter (`adapters/brokers/longbridge.py`) | one-thread executor, quarantined futures, circuits by key, quote cache; all per process | run an SDK action with a timeout | called by requests and scheduler threads | no mutation starts while an earlier one may still be running |
| Scheduler (`application/services/reconciliation.py`, `repositories/sqlalchemy_scheduler_job_run_repository.py`) | `scheduler_task_states` (lease and backoff), `scheduler_job_runs`, backoffs in memory | run one task under a lease, back off, record | several API processes share the rows | single flight; no task stops for good |
| Reconciliation cycle (`ReconciliationCoordinator.run_once`) | last sync attempts of the account, `last_synced_at` of the spreads, the outcome of each task of the cycle | reconcile intents, sync orders, sync account, relink, monitor, entry scans, reviews | dashboard syncs move the same timestamps | existing positions before new entries; positions are monitored for ever |
| Bull Put (`application/services/bull_put_strategy.py`, `bull_put/`) | `bull_put_spreads` with a version column, runtime state (pause, streaks, counters), pre-open runs | preview, execute (two legs, repricing, rollback), monitor, close, recover, review | parents and children of the ledger; scheduler and operator at once | no naked short leg; one entry at a time; a spread is never closed twice |
| Covered Call (`covered_call_strategy.py`, `covered_call/`) | proposals, runs, signals | propose, approve, execute, close, roll in two steps, lifecycle reconciliation | ledger; reserved shares over all proposals | shares are never sold short; a roll sells only behind a filled buyback |
| Zero-DTE (`zero_dte_lottery_strategy.py`) | runs, signals | preview, scan; execution always refused | none | never places an order |
| Experiments and advisor (`strategy_experiments.py`, `strategy_advisor_intake.py`, `adapters/advisors/deepseek.py`) | proposals, runs, reviews, advisor runs | approve, reject, record an advisor response | Covered Call executes what was approved | a response is recorded once and whole |
| Operator views (`operator_status.py`, `operator_consistency.py`, `recovery_status.py`) | none of their own; one repair | status, consistency report, guidance, repair | read every table | guidance that the system can keep |
| Executions, journal, market events, research, watchlists, plans, risk | plain rows | inserts, reads, computations | little | unit tests reach it |
| API and wiring (`api/`, `main.py`) | database sessions | one thread per request; starts the scheduler | all of the above | |
| Dashboard (`ui/static/`) | browser state | manual sync, refresh, trade with an idempotency key | API | |
| Pagination, schema, migrations, scripts | | | | |

The hard behaviours, with the lines where they bite, are the `hazards` of
`PROJECT.json`. In short: threads that pause between a commit and a call; calls
that outlive their timeout; the same order learnt from a response, from
reconciliation and from a sync; rows written back whole from copies read before
a broker call; evidence read at one moment and recorded at another; a process that dies between two commits; gates that read in two
queries; leases judged by an old clock reading; timestamps that several actors
move.

## 2. Modules and how they correspond to the code

```
IntentLedger            row operations of one order intent
  TradingIntents        requests, SDK calls, reconciler, sync, operator   --implements-->  ExactlyOnceMutation
  NoOrderEvidence       one intent with a clock                           --implements-->  SettledMutation
  TradeActions          parents, children, account gate, workers          --implements-->  SerialAccount
OrderMutations          cancel, replace, refresh and merge of one order with its row
BullPutSpread           one spread: entry, repricing, rollback, monitor, close, recovery, relink
                                                                          --implements-->  SpreadPosition
CoveredCall             proposals, shares, open, close, roll, lifecycle   --implements-->  CoveredBook
SchedulerLease          one task row, several processes, backoff
SchedulerCycle          one account, cycle after cycle
```

The three strategy-level modules stand on the ledger: an order is named by its
idempotency key, because `TradingIntents` shows that a key has at most one
order, and the parent actions around them are those of `TradeActions`.

The modules on the right are abstract specifications: they say what a component
promises to those who use it, and have no counterpart in the code. Each
refinement mapping stands at the end of the detailed module; TLC checks it on
the instance and TLAPS for every value of the constants.

Every module `X` with theorems has them in `XProofs`, and its TLC instance in
`MCX` with one `.cfg` per question. Operators that serve only as mutants (the
slip a change to the code might make) stand next to the definition they vary
and are named in a comment.

**IntentLedger.** A row is a record `[state, ext, checks, long, ...]`; each
method of the ledger that changes one is an operator from row to row
(`MarkState`, `MarkUnknown`, `MarkBrokerAcknowledged`, `PersistBrokerResult`,
`RecordReconciliationAttempt`, `ResolveNoOrder`) with its early returns. Clock
values become "the chain is long enough", supplied by the caller.

**TradingIntents.** `pc[r]` is the place of request `r` in `submit_order`, one
step per transaction, SDK event or stretch of code between two of them.
`sdk[r]` is its call in the executor; it goes on when the caller has timed out,
and keeps others from starting (`Quarantined`). `rpc/todo/seen` is
`reconcile_unresolved_intents` with what it has read. `ImportOrder` is the
insert of the order sync. Everything else that touches an order row (the sync of
an order it knows, refresh, cancel, replace) reads it (`ReadOrder`), talks to the
broker and writes the whole copy back with its `order_intent_id`
(`MergeRemoteSnapshot`); `held[r]` has every copy that some thread may still hold,
so a copy may be written at any time and more than once. `local[r]` can therefore
lose its link, and nothing restores it. `ResolveIntentNoOrder` is the operator,
`Crash` the end of the process with its threads and their copies; calls that were
sent survive as orphans. An order is named by the request that caused it; payloads
and keys are model values. What a merge does to the other columns is
`OrderMutations`.

**ExactlyOnceMutation.** What a caller is promised, per key: opened with one
payload, performed at most once, blocked until it settles for good, persisted
only if performed. `TradingIntents` implements it under the refinement mapping
at its end (`Once`).

**NoOrderEvidence.** The same intent with a clock, to ask whether "three
zero-match reads over 60 s" proves that the broker has no order. Names the times
the argument depends on: `MaxPause` (insert to call), `Timeout`, `Reach` (how
long a cut-off request may travel), `MaxHold` (read to record). The quarantine that keeps the read apart
from a running call is kept per process by the adapter: the module has one API
process, and says nothing of a second one that reconciles beside it.

**SettledMutation.** What a settled intent is worth once the times are known to
fit: it is settled once, as persisted exactly if the broker has the order, and
the broker takes no order behind that. `ExactlyOnceMutation` knows no clock and
promises less: there an order may still arrive behind a rejection or a no-order
resolution. `NoOrderEvidence` implements it (`Settled`); every open state of the
row is "blocked", and calls, reads, evidence and time are stutters.

**TradeActions.** A worker runs one composite action: parent row, submitting,
account gate in its two queries (`GateReadChildren`, `GateReadActions`), then
the legs long entry, short entry, and rollback. `SetChild` is a ledger
transaction on a child together with the settlement of its parent. The
reconciler and the operator settle children at any moment, workers die.

**SerialAccount.** The composite actions without workers, gates and evidence: an
action ventures a leg only behind the one it follows and while nothing else on
the account is open, a leg settles by what the broker has, an action ends once.
`TradeActions` implements it (`Serial`): every unresolved state is "open", and
the orders placed are those sent. Between two gate reads and beside other
workers that is not obvious, and it fails with `SlowWorkers`.

**OrderMutations.** One order that is at the broker. `broker` is the order there,
`call[m]` what became of the broker call of a cancel or replace request `m`,
`row` the local row, `intent[m]` and `request[m]` the intent and the thread of
`m`; `reader[t]` is a thread in `refresh_order` or `sync_today_orders` with the
snapshot it has read and not yet merged; `todo` the intents the reconciler has
listed with what it read. The broker fills, ends and applies calls in between.
A row is overwritten by whatever snapshot is merged, as in the code, which
compares nothing. "canceled" stands for the broker's rejected and expired, which
are treated alike; the execution row repeats `executed` of the order and is not
kept apart; an order withdrawn behind a partial fill is mapped to "partially
filled" for ever, as the adapter does. Failures are not bounded: an answer may
be lost, a write fail and a request die at every step; a call nobody answered
may still be applied. Two facts a reader should know: an intent whose effect
never shows stays unknown for ever (no lookup counts as zero match, so the
operator cannot resolve it and the account's gate stays closed, whatever the
guidance at `domain/intent_recovery.py:135` says), and an older snapshot may
overwrite a newer row until the next sync.

**BullPutSpread.** `order[k]` and `intent[k]` are the broker's order and the
ledger row of key `k` = leg and attempt; `row` is the spread with its status, the
order each column links, its warning and its `should_close`. `fresh` is the set
of copies of the row whose version is still that of the row: an update from a
copy that is not in it raises `ConcurrentSpreadUpdateError`. `pc` and `at` say
where the opener and the closers are. `Entry` names the outer copy that
`open_from_preview` holds while the leg procedure works with its own. One
action per call, wait and write of `bull_put/entry.py`, `close.py`,
`transitions.py`, and of monitor, refresh, recover and relink in
`bull_put_strategy.py`; `Snapshots` are the stale reads that a refresh may bring
back. The exit rules of `monitor.py` are one nondeterministic verdict, prices
are left out, and the two updates that set mark and status at the end of a
refresh are one step.

**SpreadPosition.** The spread as contracts: bought, sold short, bought back,
sold again, and books that end once on a position that fits. `BullPutSpread`
implements it (`Position`). A leg's contracts are the most that one order of the
leg has executed; for the entry and for the sale of the long leg that is all of
them, since only one order can execute (`OneOrderPerLeg`). The short leg may be
bought back by a replaced order with a partial fill and by its replacement; what
both buy beyond the contracts of the spread is not seen in `back` (section 6).

**CoveredCall.** A roll is created in two steps, as `create_roll_proposal` does:
`VetRollSource` finds the source executed, and after market data and two commits
`CreateRollProposal` inserts the row, whatever the source has become since.
`PostRollProposal` is the general `POST /strategies/proposals`, which inserts the
row of a roll without a look at the source, if only that exists; `origin[r]` tells
the two apart. `ReadSource` and `MarkSource` (in the pass: `RefreshRoll` and
`RollSource`) are the two transactions of `_mark_roll_source_rolled`, so "rolled"
may be written over a "closed" that came between. `status`, `order[p][leg]` and `linked[p]` are the proposals, the
orders under the idempotency keys of their legs, and the legs whose order some
run names; `thread[w]` is a request in one of six operations (approve, reject,
open, close, roll, continue) with the reservations it has read and the result
it is about to write; `pass` holds the duties of the scheduler's current
lifecycle pass, which has a loop for the sales, one for the closes and one for the
rolls (`Turn`). Statuses are written without a look at the one they replace
(`update_proposal_status`), so a write may come from a read of long ago. All
refusals of policy and market data are one, `Refuse`, which also takes the short
calls of the account snapshot: these only make the code refuse more (an executed
proposal's booked call is even counted twice). "expired" stands with "rejected".
Requests whose status test fails do nothing and are omitted. `parents` are
parent actions nobody serves any more; how they are settled is `TradeActions`.
`dropped` is a history variable: proposals that were once rejected.

**CoveredBook.** The life of each call, from the unsold to the one bought back,
its lot and its row. `CoveredCall` implements it (`Book`): `Calls` reads the
state of a call from the order of its sale, `Back` holds the calls that were
bought back, `Blind` the rolls that were posted. The source of a vetted roll was
sold when the roll was proposed; a decided blind roll may buy a call back before
it is sold, which then asks for no lot. A second buyback of a call is a stutter
there (section 6).

**SchedulerLease.** `created/owner/expires/nextAt/failures` is the row of
`scheduler_task_states`; `phase[c]` is the place of a process in
`_run_account_task`; `lag[c]` the age of its cycle's `now`; `memory[c]` its
`_automatic_task_backoffs` entry; `seen[c]` the columns it is about to record.
Instants are distances from the present and stop counting beyond `Past`, so the
state space is finite without a bound on time.

**SchedulerCycle.** `step` is the place in `run_once`; one action per task, in
the order of the code, each of which may fail where the code lets it fail.
`since`, `loaded`, `synced` hold ages; a due check reads the age at the start of
the cycle (`elapsed` is the age of its `now`). `SyncManually` and
`RefreshSpread` are the dashboard. What a task does is left to the other
modules: here it succeeds or not. All feature flags are on; the spreads are those
that are monitored automatically, and the set does not change.

## 3. What the runs check

| Run | Question | Bounds and why they are enough |
|---|---|---|
| MCTradingIntents | At most one broker call per key, always under a durable intent with the same payload; a persisted intent has its order and a row of it, and no row names an intent that does not have it; terminal rows stay; the abstract promise is kept; accepted orders become local; no intent blocks for ever | 2 requests, 1 key, 2 payloads, evidence of 2 reads, 1 crash, fair: a winner and a loser that is concurrent or has another payload; keys do not interact except by quarantine. `held` keeps every copy ever read, so the age of a stale copy needs no bound |
| MCNoOrderEvidence | No-order resolution is right; calls are only made for open intents; the intent is settled once and honestly, for good (SettledMutation) | the times satisfy `EvidenceOutlasts` with no slack, so a span shorter by one tick fails |
| MCTradeActions | One action trades at a time, over settled books; parent and children agree; settled parents stay; all that interleaves is one action after the other (SerialAccount) | 2 actions with 3 legs each; a third action meets the gate like the second |
| MCTradeActionsStuck | **violated**: a parent without a living worker is never settled | 1 action, fair |
| MCOrderMutations | The row never shows an end, an execution or terms the order does not have or never had; reconciliation persists only what was done; the row catches up with an ended order; a mutation whose effect shows is settled | 1 cancellation, 1 replacement, 1 reader, 1 fill: every pair of them races, and the reader's snapshot may be as old as the run; no bound on failures |
| MCBullPutSpread | The short leg is hedged; one order counts per leg; finished spreads are flat and stay finished; contract by contract the spread is a SpreadPosition; late fills are flagged | two rungs per leg (a late fill of the first behind the second), 2 closers beside the opener, 1 recovery, 1 contract (fills are whole). Also checked with 2 contracts, so with partial fills, and 1 closer |
| MCBullPutSpreadUnclear | **violated**: an entry that stops beside an order which may fill is flagged | 2 contracts, 1 closer |
| MCBullPutSpreadRepriced | **violated**: an opened spread stays in the monitoring | same |
| MCCoveredCall | Calls are covered by shares; a roll sells behind its filled buyback; one opener is past the gate; statuses never run ahead of their orders and catch up with them; every call goes through the life of CoveredBook | 1 lot wanted by two openers and a roll, 2 threads, 1 fault; 671,000 states. `Asked` chooses the operations: one thread approves, opens and closes the first call and approves its roll, the other approves and opens the second, rolls the first and continues the roll, so a roll and its continuation are served one after the other. An expired approval is how proposals get rejected here; the operator's rejection is in the module and in the theorems. A posted roll uses up the fault, so TLC does not combine it with a lost answer; the theorems do |
| MCSchedulerLease | Single flight within the lease; no live lease ended by another; instants bounded; the task runs again and again | 2 processes, a cycle (lag 2) longer than the lease (TTL 1) so that it can be overrun, 2 failures, 1 crash, fair |
| MCSchedulerCycle | Entry scans come after monitoring; every spread is evaluated for ever | 2 spreads (one may hide the other), orders sync every cycle, account and monitor every second, 1 trouble, 1 dashboard action, tasks of 0 or 1 |
| MCSchedulerCycleDrift | **violated**: syncs that have drifted apart never meet | intervals of 3 polls, 1 manual sync, no trouble at all |

The type invariants of NoOrderEvidence, TradeActions, BullPutSpread and
CoveredCall are proved (section 5) and no longer part of a run.

`CHECK_DEADLOCK FALSE` is set where the system really may stop: when every
request, worker or clock has reached its bound. The scheduler never stops, and
its runs check for deadlock.

### What the violated runs show

* **ParentIsSettled** (`orders.py:312`). Reconciliation settles children only. A
  parent whose worker died keeps the account's gate closed, unless one of its
  children was resolved as "no order"; `recovery_status.py:330` tells the
  operator to let the reconciliation continue.
* **SpreadsKeepBeingMonitored** (`reconciliation.py:276`). Readiness needs an
  orders sync and an account sync *in the same cycle*, while each is due by its
  own last attempt. With equal intervals of several polls, as the defaults are
  when no order is working, one manual sync separates them for ever. With an
  orders interval of one poll (MCSchedulerCycle) they meet again.
* **UnclearEntryIsFlagged** (`bull_put/entry.py:334`). The handlers of a failed
  entry leg mark the spread from the copy they held before the order was linked.
  The link has raised the version, so the mark raises, and the spread keeps no
  flag beside an order that may still fill. The repository in the unit tests does
  not compare versions, which is why they pass.
* **OpenedSpreadIsMonitored** (`bull_put_strategy.py:277`). The relink visits
  every persisted intent of the account, those of canceled rungs included, and
  takes a spread that was repriced for one with a conflicting link. It is
  flagged, the monitor leaves flagged spreads alone, and nothing clears the flag.

A further fact is stated as a condition, not as a violation: `submit_order` does
not look at the row `mark_submitting` returns (`orders.py:548`), so a thread held
up for more than a minute between its insert and its call can call the broker
although the operator has resolved the row meanwhile. `EvidenceOutlasts` is the
exact condition under which this cannot happen, and `ResolutionIsRight` rests on
it.

## 4. Fairness

* `TradingIntents!FairSpec`: request threads go on, SDK calls end (the executor
  gives up its caller after a timeout, and the call itself ends), the poll loop
  lists and treats intents again and again. Strong fairness for reading the
  broker's orders and for persisting a match: they may fail, but not always.
  `EveryIntentCanBeSettled` adds that broker reads stop failing at some time,
  because one failed read starts the evidence chain anew.
* `TradeActions!LiveSpec`: threads run, reconciliation and the operator do what
  they can do. It only serves a violated property, so more fairness is the
  stronger statement.
* `OrderMutations!FairSpec`: request threads go on, or die; the reconciler looks
  and records again and again; readers read. Strong fairness for persisting a
  match and for merging a snapshot, whose writes may fail, but not always.
  Nothing obliges the broker to fill, to cancel or to apply anything.
* `BullPutSpread!FairSpec`: every scheduler cycle reconciles and relinks. The
  opener, the closers and the broker are under no obligation.
* `CoveredCall!FairSpec`: the scheduler starts its pass again and again, and the
  pass goes on. Requests may stay where they are; faults are bounded, so the
  promise is for the time behind the last one.
* `SchedulerLease!FairSpec`: time passes, the loop of
  `ReconciliationScheduler.run` polls for ever, statements and SDK calls end
  (they have timeouts). Strong fairness for finding no row and for taking the
  lease: a database error may strike any attempt, but not every one.
* `SchedulerCycle!FairSpec`: the loop goes on. Which results tasks have is not
  constrained by fairness but by the bound on troubles: progress is promised for
  the time behind the last failure.

## 5. What is proved

All theorems hold for every value of the constants that satisfies the module's
`ASSUME`s, which are checked by TLC in every run.

| Module | Theorems | Argument |
|---|---|---|
| TradingIntentsProofs | TypeCorrect, OneBrokerCall, DurableIntent, TerminalRowsAreFinal, PersistedHasOrder, LedgerImplementsExactlyOnce | The invariant names an owner for each key: the one request that created the row. Only it can be between insert and call, so two calls of a key would have two owners. What the owner's step says about SDK call, order and local row is the second half of the invariant: a row and each copy of it that a thread may hold are "linked" only to a persisted intent, which stays persisted, so a stale copy may take a link away but never set a wrong one. |
| NoOrderEvidenceProofs | TypeCorrect, ResolutionIsRight, CallsAreForOpenIntents, ImplementsSettledMutation | Types need no assumption. For the rest assume `EvidenceOutlasts`: the invariant bounds when a call can still create the order, and says that a long chain of zero matches ended later than that. A closed row's order is thus present or gone for ever, and each operation on an open row either leaves it open or closes it by that fact. |
| TradeActionsProofs | ActionTypesCorrect, OpenChildBlocks, NoOrderIsAudited, ActionsAreFinal, GateExcludes, ActionsImplementSerial | Three layers: where a worker is and what rows its action has there; how children and parent agree; and, with `~SlowWorkers`, that a worker past the gate is the only one with an unresolved parent. The gate is Dekker's idea: each worker commits its own parent before it looks for others'. For SerialAccount a fourth: the legs of an action are in order, and a persisted leg is placed. |
| OrderMutationsProofs | TypesHold, RowsAreTruthful, ConfirmationsAreReal | Rows are overwritten by old snapshots, so the row alone is not inductive. The invariant speaks of every snapshot anyone holds: its end is the broker's end, its executed quantity is no larger, and its terms were applied at the broker; what is merged next is then true whoever merges it. The row has one part per way it may be wrong: its end, its executed quantity, its terms. |
| BullPutSpreadProofs | TypeCorrect, Hedged, OneOrder, Flat, Final, SpreadImplementsPosition | `SpreadInv` = types; `OrdersInv` (which keys have orders, given where the threads are); `EntryInv` (rungs follow each other only behind a canceled and empty one, the short leg only behind a filled long leg, the rollback only without a short order); `CloseInv` (the long leg is sold behind the buyback, the row and every copy that can still be written are truthful about the orders). The last is what makes the version column enough: a stale copy cannot be written. SpreadPosition needs two parts more: `EarlyInv` (while the row is at its long leg, or says that the entry failed, nobody has asked for a short leg or a rollback) and `HeldInv` (what is rolled back was bought). Each contract executed is one abstract step, each other step changes the books at most. |
| CoveredCallProofs | TypeCorrect, Truthful, RollsBuyFirst, OneOpener, Covered, CallsImplementBook | Statuses are written from reads of long ago, so the argument rests on what cannot change back: a filled order stays filled. The invariant says of each request and each duty of the pass what its result proves about the orders. `Covered` counts the claimants of shares: one opener at a time is past the gate, and what it has surveyed can only have been released since. CoveredBook is shown from the same invariant, which knows that only decided proposals are worked on, and that the source of a vetted roll was sold, which cannot change back while the row is not yet inserted; each step moves one call, one row or nothing. |
| SchedulerLeaseProofs | TypeCorrect, LeaseMatchesRun, SingleFlight, NobodyIsRobbed | A task within its lease is named by the row, which expires exactly when the task thinks. A stale clock is always early, so it may refuse a lease too long but never grants one too soon. The types hold a bound on the backoff: that the doubled delay is a number, and no more than the longest delay, is shown by a least counterexample on the number of failures. |
| SchedulerCycleProofs | TypeCorrect, CyclesKeepOrder, EntriesComeAfterMonitoring | Behind the monitor step each spread was seen or has raised, or Bull Put is not ready for the rest of the cycle; time makes nothing else due, because dueness is read against the clock of the cycle's start. |

Only model-checked: liveness (beyond this prover), among it `LateFillIsFlagged`,
`StatusCatchesUp`, `RowCatchesUp`, `VisibleMutationSettles`, `TaskKeepsRunning`,
`SpreadsKeepBeingMonitored`, `AcceptedOrderBecomesLocal` and
`EveryIntentCanBeSettled`; and the violated properties. Every invariant and every
action property of a passing run is proved. A refinement is proved for the steps
(each maps to a step or a stutter); the abstract modules state no fairness.

## 6. What is not modelled, and why

* Runtime state of Bull Put (pause, streaks, daily counters, entry capacity), the
  recording of advisor runs, the circuit per key and the quote cache, row locks,
  pagination: see the plan.
* Prices, greeks, quotas of the exit rules and candidate scoring: the modules
  take the verdict of such a computation as a choice. Pre-open scoring, research,
  risk rules, market events, journal and plans are sequential computations or
  plain inserts.
* Database transactions are atomic; lock order, deadlocks and timeouts inside
  PostgreSQL appear only as steps that fail.
* Clock skew between hosts: all processes of `SchedulerLease` read one clock,
  each at its own time.
* The composition of all modules in one state space. Where one component calls
  another, the caller's module uses what the callee's properties say: one order
  per key, one trading action per account, a scheduler that comes back.
* In `CoveredCall`, a proposal that was rejected while its sale was at the broker
  is outside `CallsAreCovered` (see below); order rows are taken to be the
  broker's orders, which is what `OrderMutations` promises in the end.
* Of `CoveredCall`: one lifecycle pass runs at a time, while
  `POST /covered-call/lifecycle/{id}/reconcile` can run beside the scheduler's (a
  second pass would make the same writes from reads as stale as the first's); the
  reservation's reads of runs, orders, intents and snapshot are one step, `Cover`,
  behind `Survey` (the argument rests on what `Survey` read); a posted roll is taken
  to name an existing source and that source's own call.
* Of `BullPutSpread`: `RecoverClose` asks for a refreshed order that is canceled,
  while `is_failed_or_expired_close_order` (`bull_put/execution.py:238`) is also
  content with a canceled status stored in the spread. A leg is counted by its
  largest order, so `OneOrderPerLeg`, `FlatWhenFinished` and `ImplementsPosition`
  do not see the oversized replacement named below.
* `EntryOnlyWhenSettled` has the account gate, which excludes two entries under
  way; the count of open spreads against the capacity is not checked.
* HTTP, authentication, rendering, logging, wording, the mock server and the
  regression scripts, which stand outside the program.

### Found by reading, without a run

* The runtime state is written back whole from a copy
  (`bull_put_strategy.py:1961`, 2176-2241): a pause set meanwhile is lost.
* A recovery passes no manual action to a spread whose flags are derived from
  its payload (`bull_put_strategy.py:2664`): it can end closed and flagged.
* Exit keys have no attempt number (`bull_put/close.py:167`): after a no-order
  resolution every later close replays the refusal. The leg keys of a Covered
  Call are built the same way.
* A replacement of a closing order (`bull_put/close.py:325`) is sized by the
  contracts of the spread, also behind a partial fill.
* `reject_proposal` accepts an approved proposal whose sale is working
  (`strategy_experiments.py:293`); its call is then reserved nowhere until the
  next account snapshot.
* Two roll proposals may be created and authorised for one source: the call can
  be bought back twice. A roll that was posted by the general endpoint
  (`strategy_experiments.py:240`) can also buy a call back before it is sold.
  `CoveredCall` has both; its properties do not forbid them. A continuation of a
  roll uses the state it read first.
* An order whose run was not recorded because the process died
  (`covered_call/lifecycle.py:651`) is known to no lifecycle pass.
* One refresh that raises ends the lifecycle pass for the proposals behind it.
* The result of the Covered Call tasks is dropped (`reconciliation.py:336`), and
  one monitored spread hides the failed monitor of another (`:907`): entry scans
  may follow a failed prerequisite. `EntryOnlyWithFreshSpreads` says what holds.
* A merge from an older copy can erase the link of an order row to its intent
  (`orders.py:1155`), for good: `TradingIntents` has it, and therefore
  `PersistedIntentHasItsOrder` says of the intent that it names its order, and of
  the row only that it names no other intent.

## 7. Plan

Done: TradingIntents with IntentLedger and ExactlyOnceMutation, NoOrderEvidence,
TradeActions, SchedulerLease, SchedulerCycle, OrderMutations, BullPutSpread (with
close and recovery), CoveredCall; each with its types and main safety properties
proved, and five of them shown to implement an abstract module. Left, in this
order:

1. **BullPutRuntime**: pause, streak, daily counters and capacity, written by
   scheduler and operator from copies; a pause that is acknowledged stays.
2. **AdvisorRecording**: a response recorded once and whole, its proposals with it.
3. **AdapterGates**: circuit by key, quarantine, quote cache with its fallback.
4. **LedgerLocks**: row locks of child, parent and siblings.
5. **Pages**: keyset pagination as a pure algorithm: no row lost or repeated.
6. An abstract order life that `OrderMutations` implements: the row is a picture
   of the order at some earlier moment, which takes a history of the broker's
   order; today its three parts are proved one by one.
7. Theorems for the modules of 1 to 5.
