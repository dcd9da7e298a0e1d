------------------------ MODULE SchedulerCycleProofs ------------------------
(***************************************************************************)
(* Entry scans come after monitoring, for any spreads, intervals and       *)
(* durations.  The invariant follows one cycle: nothing is monitored       *)
(* before the monitor step; behind it either Bull Put is not ready for the *)
(* rest of the cycle, or every due spread was seen or has raised, and time *)
(* makes no further spread due, because dueness is read against the clock  *)
(* of the start of the cycle.                                              *)
(***************************************************************************)
EXTENDS SchedulerCycle, TLAPS

Behind == {"cc_lifecycle", "cc_monitor", "bp_scan", "cc_propose", "review", "asleep"}

Seen == \A s \in Spreads : ~SpreadDue(s) \/ s \in missed

NotMonitoredYet == step \notin Behind => outcome["monitor"] = "none"
MonitoredMeansSeen == step \in Behind /\ outcome["monitor"] = "ok" => Seen
UnmonitoredMeansNotReady ==
    step \in {"cc_lifecycle", "cc_monitor", "bp_scan"} /\ outcome["monitor"] = "none"
       => ~BullPutReady
ScanMeansMonitored ==
    outcome["bp_scan"] # "none" => step \in Behind /\ outcome["monitor"] = "ok"

Fresh ==
    NotMonitoredYet /\ MonitoredMeansSeen /\ UnmonitoredMeansNotReady /\ ScanMeansMonitored

CycleInv == TypeOK /\ Fresh

\* The order of the tasks that do not monitor.
Follows(t, next) ==
    \/ t = "intents" /\ next = "orders"
    \/ t = "orders" /\ next = "account"
    \/ t = "account" /\ next = "readiness"
    \/ t = "linkage" /\ next = "monitor"
    \/ t = "cc_lifecycle" /\ next = "cc_monitor"
    \/ t = "cc_monitor" /\ next = "bp_scan"
    \/ t = "bp_scan" /\ next = "cc_propose"
    \/ t = "cc_propose" /\ next = "review"

\* An age stays an age, and time makes it older by no more than what passed.
LEMMA AgedFacts ==
    ASSUME NEW age \in Ages, NEW d \in Nat
    PROVE  Aged(age, d) \in Ages /\ Aged(age, d) <= age + d
<1>1. MaxAge \in Nat
  BY CycleAssumption
<1>2. QED  BY <1>1 DEF Aged, Ages

\* The same of a table of ages.
LEMMA AgedAllFacts ==
    ASSUME NEW S, NEW ages \in [S -> Ages], NEW d \in Nat
    PROVE  /\ AgedAll(ages, d) \in [S -> Ages]
           /\ \A x \in S : AgedAll(ages, d)[x] = Aged(ages[x], d)
BY AgedFacts DEF AgedAll

\* A spread that was not due at the start of the cycle is not made due by the
\* time the cycle takes.
LEMMA TimeMakesNothingDue ==
    ASSUME TypeOK, NEW d \in Nat, NEW s \in Spreads,
           elapsed' = elapsed + d, synced'[s] = Aged(synced[s], d), ~SpreadDue(s)
    PROVE  ~SpreadDue(s)'
<1>1. synced[s] \in Ages /\ elapsed \in Nat /\ MonitorInterval \in Nat
  BY CycleAssumption DEF TypeOK
<1>2. Aged(synced[s], d) \in Ages /\ Aged(synced[s], d) <= synced[s] + d
  BY <1>1, AgedFacts
<1>3. synced'[s] - elapsed' <= synced[s] - elapsed
  BY <1>1, <1>2 DEF Ages
<1>4. QED  BY <1>1, <1>2, <1>3 DEF SpreadDue, Ages

\* A task that runs, whatever comes of it, leaves the monitoring of the cycle
\* as it is; the entry scan runs only when Bull Put is ready.
LEMMA TaskKeepsFresh ==
    ASSUME CycleInv, NEW t, NEW next, Follows(t, next),
           NEW d \in Durations, NEW result \in {"ok", "failed"},
           Finish(t, result, d, next),
           synced' = AgedAll(synced, d), UNCHANGED <<missed, unresolved>>,
           t = "bp_scan" => BullPutReady
    PROVE  Fresh'
<1> USE DEF CycleInv, Fresh
<1>1. /\ t \in Tasks \ {"monitor"} /\ step = t /\ step' = next
      /\ outcome \in [Tasks -> Results]
      /\ outcome' = [outcome EXCEPT ![t] = result]
      /\ "monitor" \in Tasks /\ "bp_scan" \in Tasks
  BY DEF Follows, Finish, TypeOK, Tasks
<1>2. outcome'["monitor"] = outcome["monitor"]
  BY <1>1
<1>3. Seen => Seen'
  <2>1. d \in Nat /\ elapsed' = elapsed + d
    BY CycleAssumption DEF Finish
  <2>2. synced \in [Spreads -> Ages]
    BY DEF TypeOK
  <2>3. ASSUME NEW s \in Spreads, ~SpreadDue(s)  PROVE ~SpreadDue(s)'
    BY <2>1, <2>2, <2>3, AgedAllFacts, TimeMakesNothingDue
  <2>4. QED  BY <2>3 DEF Seen
<1>4. NotMonitoredYet'
  BY <1>1, <1>2 DEF NotMonitoredYet, Behind, Follows
<1>5. MonitoredMeansSeen'
  BY <1>1, <1>2, <1>3 DEF NotMonitoredYet, MonitoredMeansSeen, Behind, Follows
<1>6. UnmonitoredMeansNotReady'
  BY <1>1, <1>2 DEF UnmonitoredMeansNotReady, BullPutReady, TradingReady, Done, Follows, Tasks
<1>7. ScanMeansMonitored'
  <2>1. CASE t = "bp_scan"
    <3>1. outcome["monitor"] = "ok"
      BY <1>1, <2>1 DEF UnmonitoredMeansNotReady, BullPutReady, Results
    <3>2. next = "cc_propose"
      BY <2>1 DEF Follows
    <3>3. QED  BY <1>1, <1>2, <3>1, <3>2 DEF ScanMeansMonitored, Behind
  <2>2. CASE t # "bp_scan"
    BY <1>1, <1>2, <2>2 DEF ScanMeansMonitored, Behind, Follows
  <2>3. QED  BY <2>1, <2>2
<1>8. QED  BY <1>4, <1>5, <1>6, <1>7

\* So does a task that is passed over; Bull Put is passed over at the monitor
\* step only when it is not ready.
LEMMA PassKeepsFresh ==
    ASSUME CycleInv, NEW t, NEW next, PassOver(t, next),
           Follows(t, next) \/ (t = "monitor" /\ next = "cc_lifecycle" /\ ~BullPutReady)
    PROVE  Fresh'
<1>1. /\ step = t /\ step' = next
      /\ UNCHANGED <<elapsed, outcome, missed, unresolved, synced>>
  BY DEF PassOver, cycleVars
<1>2. Seen' = Seen /\ BullPutReady' = BullPutReady
  BY <1>1 DEF Seen, SpreadDue, BullPutReady, TradingReady, Done
<1>3. QED
  BY <1>1, <1>2 DEF CycleInv, Fresh, NotMonitoredYet, MonitoredMeansSeen,
     UnmonitoredMeansNotReady, ScanMeansMonitored, Behind, Follows

\* What a time step does to the tables, and that a duration within the cycle is
\* an age.
LEMMA TimeTypes ==
    ASSUME TypeOK, NEW d \in Durations, elapsed + d <= MaxElapsed
    PROVE  /\ d \in Nat /\ d \in Ages /\ elapsed \in Ages
           /\ elapsed + d \in 0..MaxElapsed
           /\ AgedAll(since, d) \in [{"orders", "account"} -> Ages]
           /\ AgedAll(synced, d) \in [Spreads -> Ages]
<1>1. d \in Nat /\ MaxElapsed \in Nat /\ MaxAge \in Nat
  BY CycleAssumption
<1>2. AccountInterval \in Nat /\ AccountInterval + MaxElapsed <= MaxAge
  BY CycleAssumption
<1>3. elapsed \in 0..MaxElapsed
  BY DEF TypeOK
<1>4. /\ AgedAll(since, d) \in [{"orders", "account"} -> Ages]
      /\ AgedAll(synced, d) \in [Spreads -> Ages]
  BY <1>1, AgedAllFacts DEF TypeOK
<1>5. QED  BY <1>1, <1>2, <1>3, <1>4 DEF Ages

\* The count of troubles stays within its bound.
LEMMA TroubleTypes ==
    ASSUME TypeOK, NEW happens \in BOOLEAN, Trouble(happens)
    PROVE  troubles' \in 0..MaxTroubles
<1>1. MaxTroubles \in Nat /\ troubles \in 0..MaxTroubles
  BY CycleAssumption DEF TypeOK
<1>2. QED  BY <1>1 DEF Trouble

\* A task that moves no due time.
LEMMA RunTaskKeeps ==
    ASSUME CycleInv, UNCHANGED manual, NEW t, NEW next, Follows(t, next),
           RunTask(t, next), t = "bp_scan" => BullPutReady
    PROVE  CycleInv'
<1>1. PICK d \in Durations, result \in {"ok", "failed"} :
         /\ Finish(t, result, d, next)
         /\ Trouble(result = "failed")
         /\ since' = AgedAll(since, d) /\ synced' = AgedAll(synced, d)
         /\ UNCHANGED <<evaluated, missed, sameDay, unresolved, loaded>>
  BY DEF RunTask
<1>2. Fresh'
  BY <1>1, TaskKeepsFresh
<1>3. TypeOK'
  <2>1. TypeOK
    BY DEF CycleInv
  <2>2. t \in Tasks /\ next \in Steps
    BY DEF Follows, Tasks, Steps
  <2>3. /\ elapsed' \in 0..MaxElapsed
        /\ since' \in [{"orders", "account"} -> Ages]
        /\ synced' \in [Spreads -> Ages]
    BY <1>1, <2>1, TimeTypes DEF Finish
  <2>4. troubles' \in 0..MaxTroubles
    BY <1>1, <2>1, TroubleTypes
  <2>5. step' \in Steps /\ outcome' \in [Tasks -> Results]
    BY <1>1, <2>1, <2>2 DEF Finish, TypeOK, Results
  <2>6. QED  BY <1>1, <2>1, <2>3, <2>4, <2>5 DEF TypeOK
<1>4. QED  BY <1>2, <1>3 DEF CycleInv

\* A sync, whether or not its attempt got as far as the broker account.
LEMMA RunSyncKeeps ==
    ASSUME CycleInv, UNCHANGED manual, NEW t \in {"orders", "account"}, NEW next,
           Follows(t, next), RunSync(t, next)
    PROVE  CycleInv'
<1>1. PICK d \in Durations, result \in {"ok", "failed"}, attempted \in BOOLEAN :
         /\ Finish(t, result, d, next)
         /\ Trouble(result = "failed")
         /\ since' = [AgedAll(since, d) EXCEPT ![t] = IF attempted THEN d ELSE @]
         /\ synced' = AgedAll(synced, d)
         /\ UNCHANGED <<evaluated, missed, sameDay, unresolved, loaded>>
  BY DEF RunSync
<1>2. Fresh'
  BY <1>1, TaskKeepsFresh
<1>3. TypeOK'
  <2>1. TypeOK
    BY DEF CycleInv
  <2>2. t \in Tasks /\ next \in Steps
    BY DEF Follows, Tasks, Steps
  <2>3. /\ d \in Ages
        /\ elapsed' \in 0..MaxElapsed
        /\ AgedAll(since, d) \in [{"orders", "account"} -> Ages]
        /\ synced' \in [Spreads -> Ages]
    BY <1>1, <2>1, TimeTypes DEF Finish
  <2>4. since' \in [{"orders", "account"} -> Ages]
    BY <1>1, <2>3
  <2>5. troubles' \in 0..MaxTroubles
    BY <1>1, <2>1, TroubleTypes
  <2>6. step' \in Steps /\ outcome' \in [Tasks -> Results]
    BY <1>1, <2>1, <2>2 DEF Finish, TypeOK, Results
  <2>7. QED  BY <1>1, <2>1, <2>3, <2>4, <2>5, <2>6 DEF TypeOK
<1>4. QED  BY <1>2, <1>3 DEF CycleInv

\* A task that is passed over.
LEMMA PassOverKeeps ==
    ASSUME CycleInv, UNCHANGED manual, NEW t, NEW next, PassOver(t, next),
           Follows(t, next) \/ (t = "monitor" /\ next = "cc_lifecycle" /\ ~BullPutReady)
    PROVE  CycleInv'
<1>1. Fresh'
  BY PassKeepsFresh
<1>2. next \in Steps
  BY DEF Follows, Tasks, Steps
<1>3. TypeOK'
  BY <1>2 DEF CycleInv, TypeOK, PassOver, cycleVars
<1>4. QED  BY <1>1, <1>3 DEF CycleInv


\* The cycle begins anew.
LEMMA WakeKeeps ==
    ASSUME CycleInv, UNCHANGED manual, Wake
    PROVE  CycleInv'
<1>1. /\ TypeOK /\ Poll \in Nat /\ 0 \in 0..MaxElapsed
  BY CycleAssumption DEF CycleInv
<1>2. /\ AgedAll(since, Poll) \in [{"orders", "account"} -> Ages]
      /\ AgedAll(synced, Poll) \in [Spreads -> Ages]
  BY <1>1, AgedAllFacts DEF TypeOK
<1>3. outcome' = NoOutcome /\ NoOutcome \in [Tasks -> Results]
      /\ NoOutcome["monitor"] = "none" /\ NoOutcome["bp_scan"] = "none"
  BY DEF Wake, NoOutcome, Tasks, Results
<1>4. TypeOK'
  BY <1>1, <1>2, <1>3 DEF Wake, TypeOK, Steps, Tasks
<1>5. Fresh'
  BY <1>3 DEF Wake, Fresh, NotMonitoredYet, MonitoredMeansSeen,
     UnmonitoredMeansNotReady, ScanMeansMonitored, Behind
<1>6. QED  BY <1>4, <1>5 DEF CycleInv

\* The two gates between the syncs and the strategies are read before
\* anything is monitored.
LEMMA CheckReadinessKeeps ==
    ASSUME CycleInv, UNCHANGED manual, CheckReadiness
    PROVE  CycleInv'
<1>1. PICK open \in BOOLEAN, blocked \in BOOLEAN :
         Trouble(open) /\ unresolved' = open /\ sameDay' = blocked
  BY DEF CheckReadiness
<1>2. troubles' \in 0..MaxTroubles
  BY <1>1, TroubleTypes DEF CycleInv
<1>3. TypeOK'
  BY <1>1, <1>2 DEF CycleInv, TypeOK, CheckReadiness, Steps, Tasks
<1>4. Fresh'
  BY DEF CheckReadiness, CycleInv, Fresh, NotMonitoredYet, MonitoredMeansSeen,
     UnmonitoredMeansNotReady, ScanMeansMonitored, Behind
<1>5. QED  BY <1>3, <1>4 DEF CycleInv

\* A monitor loop that was not stopped has seen every due spread or raised on
\* it; one that was stopped is a failed task.
LEMMA MonitorKeeps ==
    ASSUME CycleInv, UNCHANGED manual, MonitorDueSpreads, BullPutReady
    PROVE  CycleInv'
<1>1. PICK d \in Durations, stopped \in BOOLEAN, fate \in [DueSpreads -> Fates] :
       /\ With(fate, "passed") # {} => stopped
       /\ Finish("monitor", MonitorResult(fate, stopped), d, "cc_lifecycle")
       /\ Trouble(stopped \/ Raised(fate) # {})
       /\ evaluated' = With(fate, "evaluated") /\ missed' = Raised(fate)
       /\ synced' = [s \in Spreads |->
                        Aged(IF s \in With(fate, "evaluated") THEN elapsed
                             ELSE IF s \in With(fate, "refreshed") THEN 0
                             ELSE synced[s], d)]
       /\ since' = AgedAll(since, d)
       /\ UNCHANGED <<sameDay, unresolved, loaded>>
  BY DEF MonitorDueSpreads
<1>2. TypeOK
  BY DEF CycleInv
<1>3. /\ d \in Nat /\ elapsed \in Ages /\ 0 \in Ages
      /\ elapsed' = elapsed + d /\ elapsed' \in 0..MaxElapsed
      /\ since' \in [{"orders", "account"} -> Ages]
  <2>1. elapsed + d <= MaxElapsed /\ elapsed' = elapsed + d /\ since' = AgedAll(since, d)
    BY <1>1 DEF Finish
  <2>2. 0 \in Ages
    BY CycleAssumption DEF Ages
  <2>3. QED  BY <1>2, <2>1, <2>2, TimeTypes
<1>4. \A s \in Spreads : synced[s] \in Ages
  BY <1>2 DEF TypeOK
<1>5. MonitorResult(fate, stopped) \in {"ok", "failed"}
  BY DEF MonitorResult
<1>6. TypeOK'
  <2>1. synced' \in [Spreads -> Ages]
    BY <1>1, <1>3, <1>4, AgedFacts
  <2>2. evaluated' \subseteq Spreads /\ missed' \subseteq Spreads
    BY <1>1 DEF With, Raised, DueSpreads
  <2>3. troubles' \in 0..MaxTroubles
    BY <1>1, <1>2, TroubleTypes
  <2>4. step' \in Steps /\ outcome' \in [Tasks -> Results]
    BY <1>1, <1>2, <1>5 DEF Finish, TypeOK, Steps, Tasks, Results
  <2>5. QED  BY <1>1, <1>2, <1>3, <2>1, <2>2, <2>3, <2>4 DEF TypeOK
<1>7. /\ step' = "cc_lifecycle" /\ step = "monitor"
      /\ outcome'["monitor"] = MonitorResult(fate, stopped)
      /\ outcome'["bp_scan"] = outcome["bp_scan"]
  BY <1>1, <1>2 DEF Finish, TypeOK, Tasks
<1>8. ASSUME ~stopped, NEW s \in Spreads, s \notin missed'  PROVE ~SpreadDue(s)'
  <2>1. MonitorInterval \in Nat \ {0}
    BY CycleAssumption
  <2>2. CASE ~SpreadDue(s)
    <3>1. s \notin With(fate, "evaluated") /\ s \notin With(fate, "refreshed")
      BY <2>2 DEF With, DueSpreads
    <3>2. synced'[s] = Aged(synced[s], d)
      BY <1>1, <3>1
    <3>3. QED  BY <1>2, <1>3, <2>2, <3>2, TimeMakesNothingDue
  <2>3. CASE SpreadDue(s)
    <3>1. s \in With(fate, "evaluated")
      BY <1>1, <1>8, <2>3 DEF With, Raised, DueSpreads, Fates
    <3>2. synced'[s] = Aged(elapsed, d)
      BY <1>1, <3>1
    <3>3. synced'[s] \in Ages /\ synced'[s] <= elapsed'
      BY <1>3, <3>2, AgedFacts
    <3>4. QED  BY <1>3, <2>1, <3>3 DEF SpreadDue, Ages
  <2>4. QED  BY <2>2, <2>3
<1>9. MonitorResult(fate, stopped) = "ok" => Seen'
  BY <1>8 DEF MonitorResult, Seen
<1>10. Fresh'
  BY <1>5, <1>7, <1>9 DEF CycleInv, Fresh, NotMonitoredYet, MonitoredMeansSeen,
     UnmonitoredMeansNotReady, ScanMeansMonitored, Behind
<1>11. QED  BY <1>6, <1>10 DEF CycleInv

\* The reviews end the cycle.
LEMMA ReviewKeeps ==
    ASSUME CycleInv, UNCHANGED manual, Review
    PROVE  CycleInv'
<1>1. PICK d \in Durations :
         /\ elapsed + d <= MaxElapsed /\ elapsed' = elapsed + d
         /\ since' = AgedAll(since, d) /\ synced' = AgedAll(synced, d)
  BY DEF Review
<1>2. TypeOK
  BY DEF CycleInv
<1>3. /\ d \in Nat /\ elapsed' \in 0..MaxElapsed
      /\ since' \in [{"orders", "account"} -> Ages]
      /\ synced' \in [Spreads -> Ages]
      /\ synced \in [Spreads -> Ages]
  BY <1>1, <1>2, TimeTypes DEF TypeOK
<1>4. TypeOK'
  BY <1>2, <1>3 DEF Review, TypeOK, Steps
<1>5. Seen => Seen'
  <2>1. ASSUME NEW s \in Spreads, ~SpreadDue(s)  PROVE ~SpreadDue(s)'
    <3>1. synced'[s] = Aged(synced[s], d)
      <4>1. synced' = AgedAll(synced, d) /\ DOMAIN synced = Spreads
        BY <1>1, <1>3
      <4>2. QED  BY <4>1 DEF AgedAll
    <3>2. QED  BY <1>1, <1>2, <1>3, <2>1, <3>1, TimeMakesNothingDue
  <2>2. missed' = missed
    BY DEF Review
  <2>3. QED  BY <2>1, <2>2 DEF Seen
<1>6. Fresh'
  BY <1>5 DEF Review, CycleInv, Fresh, NotMonitoredYet, MonitoredMeansSeen,
     UnmonitoredMeansNotReady, ScanMeansMonitored, Behind
<1>7. QED  BY <1>4, <1>6 DEF CycleInv

\* A sync or a refresh from the dashboard makes nothing due.
LEMMA ManualKeeps ==
    ASSUME CycleInv,
           \/ \E kind \in {"orders", "account"} : SyncManually(kind)
           \/ \E s \in Spreads : RefreshSpread(s)
    PROVE  CycleInv'
<1>1. /\ TypeOK /\ 0 \in Ages /\ MonitorInterval \in Nat \ {0}
      /\ manual \in 0..MaxManual /\ MaxManual \in Nat
  BY CycleAssumption DEF CycleInv, TypeOK, Ages
<1>2. /\ UNCHANGED <<step, elapsed, outcome, evaluated, missed, sameDay,
                     unresolved, loaded, troubles>>
      /\ manual' \in 0..MaxManual
  BY <1>1 DEF SyncManually, RefreshSpread, cycleVars
<1>3. /\ since' \in [{"orders", "account"} -> Ages]
      /\ synced' \in [Spreads -> Ages]
  BY <1>1 DEF TypeOK, SyncManually, RefreshSpread
<1>4. \A s \in Spreads : synced'[s] = synced[s] \/ synced'[s] = 0
  BY <1>1 DEF TypeOK, SyncManually, RefreshSpread
<1>5. TypeOK'
  BY <1>1, <1>2, <1>3 DEF TypeOK
<1>6. Seen => Seen'
  <2>1. elapsed \in Nat
    BY <1>1 DEF TypeOK
  <2>2. ASSUME NEW s \in Spreads, ~SpreadDue(s)  PROVE ~SpreadDue(s)'
    BY <1>1, <1>2, <1>4, <2>1, <2>2 DEF SpreadDue
  <2>3. QED  BY <1>2, <2>2 DEF Seen
<1>7. BullPutReady' = BullPutReady
  BY <1>2 DEF BullPutReady, TradingReady, Done
<1>8. Fresh'
  BY <1>2, <1>6, <1>7 DEF CycleInv, Fresh, NotMonitoredYet, MonitoredMeansSeen,
     UnmonitoredMeansNotReady, ScanMeansMonitored
<1>9. QED  BY <1>5, <1>8 DEF CycleInv

\* What a cycle has done and what is due agree in every reachable state.
THEOREM CyclesKeepOrder == Spec => []CycleInv
<1>1. Init => CycleInv
  <2>1. NoOutcome \in [Tasks -> Results] /\ NoOutcome["monitor"] = "none"
        /\ NoOutcome["bp_scan"] = "none"
    BY DEF NoOutcome, Tasks, Results
  <2>2. MaxAge \in Ages /\ 0 \in 0..MaxElapsed /\ 0 \in 0..MaxTroubles /\ 0 \in 0..MaxManual
    BY CycleAssumption DEF Ages
  <2>3. Init => TypeOK
    <3>1. ASSUME Init
          PROVE  since \in [{"orders", "account"} -> Ages] /\ synced \in [Spreads -> Ages]
      BY <2>2, <3>1 DEF Init
    <3>2. QED  BY <2>1, <2>2, <3>1 DEF Init, TypeOK, Steps
  <2>4. Init => Fresh
    BY <2>1 DEF Init, Fresh, NotMonitoredYet, MonitoredMeansSeen,
       UnmonitoredMeansNotReady, ScanMeansMonitored, Behind
  <2>5. QED  BY <2>3, <2>4 DEF CycleInv
<1>2. CycleInv /\ [Next]_vars => CycleInv'
  <2> SUFFICES ASSUME CycleInv, [Next]_vars  PROVE CycleInv'
    OBVIOUS
  <2>1. CASE UNCHANGED vars
    BY <2>1 DEF vars, cycleVars, CycleInv, TypeOK, Fresh, NotMonitoredYet,
       MonitoredMeansSeen, UnmonitoredMeansNotReady, ScanMeansMonitored, Seen,
       SpreadDue, BullPutReady, TradingReady, Done
  <2>2. CASE CycleStep
    <3>1. UNCHANGED manual
      BY <2>2 DEF CycleStep
    <3>2. CASE Wake
      BY <3>1, <3>2, WakeKeeps
    <3>3. CASE ReconcileIntents
      BY <3>1, <3>3, RunTaskKeeps DEF ReconcileIntents, Follows
    <3>4. CASE SyncOrders
      BY <3>1, <3>4, RunSyncKeeps, PassOverKeeps DEF SyncOrders, Follows
    <3>5. CASE SyncAccount
      BY <3>1, <3>5, RunSyncKeeps, PassOverKeeps DEF SyncAccount, Follows
    <3>6. CASE CheckReadiness
      BY <3>1, <3>6, CheckReadinessKeeps
    <3>7. CASE RelinkLegs
      BY <3>1, <3>7, RunTaskKeeps, PassOverKeeps DEF RelinkLegs, RunTaskIf, Follows
    <3>8. CASE MonitorSpreads
      BY <3>1, <3>8, MonitorKeeps, PassOverKeeps DEF MonitorSpreads
    <3>9. CASE ReconcileCoveredCalls
      BY <3>1, <3>9, RunTaskKeeps, PassOverKeeps DEF ReconcileCoveredCalls, RunTaskIf, Follows
    <3>10. CASE MonitorCoveredCalls
      BY <3>1, <3>10, RunTaskKeeps, PassOverKeeps DEF MonitorCoveredCalls, RunTaskIf, Follows
    <3>11. CASE ScanEntries
      BY <3>1, <3>11, RunTaskKeeps, PassOverKeeps DEF ScanEntries, RunTaskIf, Follows
    <3>12. CASE ProposeCoveredCalls
      BY <3>1, <3>12, RunTaskKeeps, PassOverKeeps DEF ProposeCoveredCalls, RunTaskIf, Follows
    <3>13. CASE Review
      BY <3>1, <3>13, ReviewKeeps
    <3>14. QED
      BY <2>2, <3>2, <3>3, <3>4, <3>5, <3>6, <3>7, <3>8, <3>9, <3>10, <3>11, <3>12, <3>13
      DEF CycleStep
  <2>3. CASE \/ \E kind \in {"orders", "account"} : SyncManually(kind)
             \/ \E s \in Spreads : RefreshSpread(s)
    BY <2>3, ManualKeeps
  <2>4. QED  BY <2>1, <2>2, <2>3 DEF Next
<1>3. QED  BY <1>1, <1>2, PTL DEF Spec

\* Steps, outcomes and ages keep their types: every task leads to a place that
\* run_once has, and what it reports is an outcome.
THEOREM TypeCorrect == Spec => []TypeOK
  BY CyclesKeepOrder, PTL DEF CycleInv

\* Entries are looked for only in a cycle in which every due spread was seen or
\* has raised (run_once: existing lifecycles before any new-entry scan).
THEOREM EntriesComeAfterMonitoring == Spec => []EntryOnlyWithFreshSpreads
<1>1. CycleInv => EntryOnlyWithFreshSpreads
  BY DEF CycleInv, Fresh, ScanMeansMonitored, MonitoredMeansSeen, Seen,
     EntryOnlyWithFreshSpreads
<1>2. QED  BY <1>1, CyclesKeepOrder, PTL
=============================================================================
