------------------------ MODULE SchedulerLeaseProofs ------------------------
(***************************************************************************)
(* The single-flight lease for any number of coordinators and any bounds.  *)
(* The inductive invariant ties a task that runs within its lease to the   *)
(* row: the row names it, with exactly the time the cycle has left.  The   *)
(* backoff columns play no part in it: their bounds are a second invariant,*)
(* the type of every variable, which rests on what the doubled delay is.   *)
(***************************************************************************)
EXTENDS SchedulerLease, WellFoundedInduction, TLAPS

LeaseTypes ==
    /\ owner \in Coordinators \cup {Nobody, Dead}
    /\ expires \in Int
    /\ phase \in [Coordinators -> Phases]
    /\ lag \in [Coordinators -> Nat]

RowMatchesRun ==
    \A c \in Coordinators :
       WithinLease(c) => owner = c /\ expires = Ttl - lag[c]

LeaseInv == LeaseTypes /\ RowMatchesRun

\* What the coordinators may do to the lease columns of the row.
LeaseStep(c) ==
    \/ UNCHANGED <<owner, expires>>
    \/ ~HeldByOther(c) /\ Grant(c)
    \/ DropLease(c)
    \/ owner = c /\ owner' = Dead /\ UNCHANGED expires

\* Numbers the bounds stand for.
LEMMA Bounds == Ttl \in Nat \ {0} /\ MaxLag \in Nat \ {0} /\ Past \in Int /\ Past < 0
  BY LeaseAssumption DEF Past

\* A lease that has time left can be changed by its owner only: whoever else
\* tries, with however old a clock, finds it held.
LEMMA HeldLease ==
    ASSUME LeaseTypes, NEW c \in Coordinators, NEW d \in Coordinators,
           d # c, owner = d, expires > 0, LeaseStep(c)
    PROVE  UNCHANGED <<owner, expires>>
<1>1. d # Nobody
  BY LeaseAssumption
<1>2. lag[c] \in Nat /\ expires \in Int
  BY DEF LeaseTypes
<1>3. HeldByOther(c)
  BY <1>1, <1>2 DEF HeldByOther, Upcoming
<1>4. DropLease(c) => UNCHANGED <<owner, expires>>
  BY DEF DropLease
<1>5. QED  BY <1>3, <1>4 DEF LeaseStep

\* Every step of a cycle, and a crash, is one of those; only TakeLease starts
\* the task, and no other coordinator's phase or clock reading moves.
LEMMA StepShape ==
    ASSUME LeaseTypes, NEW c \in Coordinators, CycleStep(c) \/ Crash(c)
    PROVE  /\ LeaseStep(c)
           /\ \A d \in Coordinators \ {c} : phase'[d] = phase[d] /\ lag'[d] = lag[d]
           /\ phase' \in [Coordinators -> Phases]
           /\ lag' \in [Coordinators -> Nat]
           /\ phase'[c] = "running" => TakeLease(c)
           /\ owner = c /\ owner' # c => phase'[c] # phase[c] \/ owner' = Dead
<1> USE DEF LeaseTypes, Goto, EndCycle, At
<1>1. CASE BeginCycle(c) \/ CheckBackoff(c) \/ FindNoRow(c) \/ TaskSucceeds(c)
  BY <1>1 DEF BeginCycle, CheckBackoff, FindNoRow, TaskSucceeds, leaseVars, localVars,
              LeaseStep, Phases
<1>2. CASE ReadSkipped(c)
  BY <1>2 DEF ReadSkipped, leaseVars, LeaseStep, Phases
<1>3. CASE RecordRun(c)
  BY <1>3 DEF RecordRun, LeaseStep, Phases
<1>4. CASE TaskFailsTransiently(c) \/ TaskFailsOtherwise(c)
  BY <1>4 DEF TaskFailsTransiently, TaskFailsOtherwise, leaseVars, LeaseStep, Phases
<1>5. CASE TakeLease(c)
  BY <1>5 DEF TakeLease, Grant, localVars, LeaseStep, Phases
<1>6. CASE FindLeaseHeld(c)
  BY <1>6 DEF FindLeaseHeld, leaseVars, LeaseStep, Phases
<1>7. CASE AcquireFails(c)
  BY <1>7 DEF AcquireFails, Grant, leaseVars, LeaseStep, Phases
<1>8. CASE Release(c)
  BY <1>8 DEF Release, DropLease, LeaseStep, Phases
<1>9. CASE Crash(c)
  BY <1>9 DEF Crash, LeaseStep, Phases
<1>10. QED
  BY <1>1, <1>2, <1>3, <1>4, <1>5, <1>6, <1>7, <1>8, <1>9 DEF CycleStep


\* A coordinator's own step keeps the row and the runs in agreement: its own
\* task starts only with a lease just granted, and no other's lease moves.
LEMMA StepKeepsLeaseInv ==
    ASSUME LeaseInv, NEW c \in Coordinators, CycleStep(c) \/ Crash(c)
    PROVE  LeaseInv'
<1>1. LeaseTypes
  BY DEF LeaseInv
<1>2. /\ LeaseStep(c)
      /\ \A d \in Coordinators \ {c} : phase'[d] = phase[d] /\ lag'[d] = lag[d]
      /\ phase' \in [Coordinators -> Phases]
      /\ lag' \in [Coordinators -> Nat]
      /\ phase'[c] = "running" => TakeLease(c)
  BY <1>1, StepShape
<1>3. LeaseTypes'
  <2>1. lag[c] \in Nat
    BY <1>1 DEF LeaseTypes
  <2>2. /\ owner' \in Coordinators \cup {Nobody, Dead}
        /\ expires' \in Int
    BY <1>1, <1>2, <2>1, Bounds DEF LeaseTypes, LeaseStep, Grant, DropLease
  <2>3. QED  BY <1>2, <2>2 DEF LeaseTypes
<1>4. ASSUME NEW d \in Coordinators, WithinLease(d)'
      PROVE  owner' = d /\ expires' = Ttl - lag'[d]
  <2>1. CASE d = c
    <3>1. TakeLease(c)
      BY <1>2, <1>4, <2>1 DEF WithinLease, At
    <3>2. QED  BY <2>1, <3>1 DEF TakeLease, Grant, localVars
  <2>2. CASE d # c
    <3>1. WithinLease(d) /\ lag'[d] = lag[d]
      BY <1>2, <1>4, <2>2 DEF WithinLease, At
    <3>2. owner = d /\ expires = Ttl - lag[d]
      BY <3>1 DEF LeaseInv, RowMatchesRun
    <3>3. expires > 0
      BY <1>1, <3>1, <3>2, Bounds DEF WithinLease, LeaseTypes
    <3>4. UNCHANGED <<owner, expires>>
      BY <1>1, <1>2, <2>2, <3>2, <3>3, HeldLease
    <3>5. QED  BY <3>1, <3>2, <3>4
  <2>3. QED  BY <2>1, <2>2
<1>5. QED  BY <1>3, <1>4 DEF LeaseInv, RowMatchesRun

\* The clock ages the lease and the run that holds it alike.
LEMMA TickKeepsLeaseInv ==
    ASSUME LeaseInv, Tick
    PROVE  LeaseInv'
<1>1. /\ LeaseTypes
      /\ phase' = phase /\ owner' = owner
      /\ expires' = Older(expires)
      /\ \A c \in Coordinators : lag'[c] = IF At(c, "idle") THEN 0 ELSE lag[c] + 1
      /\ lag' \in [Coordinators -> Nat]
  BY DEF LeaseInv, LeaseTypes, Tick
<1>2. LeaseTypes'
  BY <1>1, Bounds DEF LeaseTypes, Older
<1>3. ASSUME NEW c \in Coordinators, WithinLease(c)'
      PROVE  owner' = c /\ expires' = Ttl - lag'[c]
  <2>1. phase[c] = "running" /\ lag'[c] = lag[c] + 1 /\ lag[c] \in Nat
    BY <1>1, <1>3 DEF WithinLease, At, LeaseTypes
  <2>2. WithinLease(c) /\ lag[c] + 1 < Ttl
    BY <1>3, <2>1, Bounds DEF WithinLease, At
  <2>3. owner = c /\ expires = Ttl - lag[c]
    BY <2>2 DEF LeaseInv, RowMatchesRun
  <2>4. QED  BY <1>1, <2>1, <2>2, <2>3, Bounds DEF Older
<1>4. QED  BY <1>2, <1>3 DEF LeaseInv, RowMatchesRun

\* The lease columns have their types, and a task within its lease is the one
\* the row names, in every reachable state.
THEOREM LeaseMatchesRun == Spec => []LeaseInv
<1>1. Init => LeaseInv
  BY Bounds DEF Init, LeaseInv, LeaseTypes, RowMatchesRun, WithinLease, At, Phases
<1>2. LeaseInv /\ [Next]_vars => LeaseInv'
  <2> SUFFICES ASSUME LeaseInv, [Next]_vars  PROVE LeaseInv'
    OBVIOUS
  <2>1. CASE UNCHANGED vars
    BY <2>1 DEF vars, leaseVars, localVars, LeaseInv, LeaseTypes, RowMatchesRun,
                WithinLease, At
  <2>2. CASE Tick
    BY <2>2, TickKeepsLeaseInv
  <2>3. ASSUME NEW c \in Coordinators, CycleStep(c) \/ Crash(c)  PROVE LeaseInv'
    BY <2>3, StepKeepsLeaseInv
  <2>4. QED  BY <2>1, <2>2, <2>3 DEF Next
<1>3. QED  BY <1>1, <1>2, PTL DEF Spec

\* Single flight: no two processes run the task within their leases
\* (try_acquire_lease, release_lease, _run_account_task).
THEOREM SingleFlight == Spec => []LeaseExcludes
<1>1. LeaseInv => LeaseExcludes
  BY DEF LeaseInv, RowMatchesRun, LeaseExcludes
<1>2. QED  BY <1>1, LeaseMatchesRun, PTL

\* An unexpired lease is ended by its owner or by its owner's death only.
THEOREM NobodyIsRobbed == Spec => LeaseIsKept
<1> DEFINE Kept == \A c \in Coordinators :
        owner = c /\ expires > 0 /\ owner' # c => phase'[c] # phase[c] \/ owner' = Dead
<1>1. LeaseInv /\ [Next]_vars => [Kept]_vars
  <2> SUFFICES ASSUME LeaseInv, Next, NEW d \in Coordinators,
                      owner = d, expires > 0, owner' # d
               PROVE  phase'[d] # phase[d] \/ owner' = Dead
    OBVIOUS
  <2>1. ~Tick
    BY DEF Tick
  <2>2. PICK c \in Coordinators : CycleStep(c) \/ Crash(c)
    BY <2>1 DEF Next
  <2>3. LeaseTypes
    BY DEF LeaseInv
  <2>4. CASE c = d
    BY <2>2, <2>3, <2>4, StepShape
  <2>5. CASE c # d
    BY <2>2, <2>3, <2>5, StepShape, HeldLease
  <2>6. QED  BY <2>4, <2>5
<1>2. QED  BY <1>1, LeaseMatchesRun, PTL DEF Spec, LeaseIsKept

-----------------------------------------------------------------------------
(* The backoff delay.  Facts about every natural number are proved from    *)
(* the least one for which they fail.                                      *)

\* A set of naturals has a least element.
LEMMA LeastNatural ==
    ASSUME NEW T, T \subseteq Nat, T # {}
    PROVE  \E x \in T : \A y \in T : x <= y
<1>1. IsWellFoundedOn(OpToRel(<, Nat), Nat)
  BY NatLessThanWellFounded
<1>2. PICK x \in T : \A y \in T : <<y, x>> \notin OpToRel(<, Nat)
  BY <1>1, WFMin
<1>3. \A y \in T : ~(y < x)
  BY <1>2 DEF OpToRel
<1>4. \A y \in T : x <= y
  BY <1>3
<1>. QED BY <1>4

\* The delays after up to n doublings, as a function on 0..n.
Doublings(n) == {g \in [0..n -> Nat] : /\ g[0] = Base
                                        /\ \A i \in 1..n : g[i] = 2 * g[i - 1]}

\* Each number of doublings has such a function: the shortest one without it
\* would be one step longer than one that has it.
LEMMA DoublingsExist == \A n \in Nat : Doublings(n) # {}
<1>. DEFINE T == {n \in Nat : Doublings(n) = {}}
<1>. SUFFICES ASSUME T # {} PROVE FALSE
  OBVIOUS
<1>1. PICK x \in T : \A y \in T : x <= y
  BY LeastNatural
<1>2. CASE x = 0
  <2>. DEFINE h == [i \in 0..0 |-> Base]
  <2>1. h \in Doublings(0)
    BY LeaseAssumption DEF Doublings
  <2>. QED BY <1>1, <1>2, <2>1
<1>3. CASE x # 0
  <2>1. x - 1 \in Nat /\ x - 1 \notin T
    BY <1>1, <1>3
  <2>2. PICK g : g \in Doublings(x - 1)
    BY <2>1
  <2>. DEFINE h == [i \in 0..x |-> IF i = x THEN 2 * g[x - 1] ELSE g[i]]
  <2>3. x \in Nat \ {0} /\ x - 1 \in 0..(x - 1)
    BY <1>1, <1>3
  <2>4. g \in [0..(x - 1) -> Nat] /\ g[0] = Base /\ \A i \in 1..(x - 1) : g[i] = 2 * g[i - 1]
    BY <2>2 DEF Doublings
  <2>5. h \in [0..x -> Nat] /\ h[0] = Base
    BY <2>3, <2>4
  <2>6. ASSUME NEW i \in 1..x  PROVE h[i] = 2 * h[i - 1]
    <3>1. CASE i = x
      BY <2>3, <3>1
    <3>2. CASE i # x
      BY <2>3, <2>4, <3>2
    <3>. QED BY <3>1, <3>2
  <2>7. h \in Doublings(x)
    BY <2>5, <2>6 DEF Doublings
  <2>. QED BY <1>1, <2>7
<1>. QED BY <1>2, <1>3

\* Two of them agree as far as both go.
LEMMA DoublingsAgree ==
    ASSUME NEW m \in Nat, NEW n \in Nat, m <= n,
           NEW g \in Doublings(m), NEW h \in Doublings(n)
    PROVE  \A i \in 0..m : g[i] = h[i]
<1>. DEFINE T == {i \in 0..m : g[i] # h[i]}
<1>. SUFFICES ASSUME T # {} PROVE FALSE
  OBVIOUS
<1>1. T \subseteq Nat
  OBVIOUS
<1>2. PICK x \in T : \A y \in T : x <= y
  BY <1>1, LeastNatural
<1>3. x # 0
  BY <1>2 DEF Doublings
<1>4. x - 1 \in 0..m /\ x - 1 \notin T
  BY <1>2, <1>3
<1>5. g[x] = 2 * g[x - 1] /\ h[x] = 2 * h[x - 1]
  BY <1>2, <1>3 DEF Doublings
<1>. QED BY <1>2, <1>4, <1>5

\* Hence the recursion defines a function.
LEMMA DoubledUnfolds ==
    Doubled = [n \in Nat |-> IF n = 0 THEN Base ELSE 2 * Doubled[n - 1]]
<1>. DEFINE F == [n \in Nat |-> (CHOOSE g : g \in Doublings(n))[n]]
<1>1. \A n \in Nat : (CHOOSE g : g \in Doublings(n)) \in Doublings(n)
  BY DoublingsExist
<1>2. ASSUME NEW n \in Nat  PROVE F[n] = IF n = 0 THEN Base ELSE 2 * F[n - 1]
  <2>. DEFINE g == CHOOSE d : d \in Doublings(n)
              p == CHOOSE d : d \in Doublings(n - 1)
  <2>1. CASE n = 0
    BY <1>1, <2>1 DEF Doublings
  <2>2. CASE n # 0
    <3>1. n - 1 \in Nat /\ g \in Doublings(n) /\ p \in Doublings(n - 1)
      BY <1>1, <2>2
    <3>. HIDE DEF g, p
    <3>2. g[n - 1] = p[n - 1]
      BY <2>2, <3>1, DoublingsAgree
    <3>3. g[n] = 2 * g[n - 1]
      BY <2>2, <3>1 DEF Doublings
    <3>4. F[n] = g[n] /\ F[n - 1] = p[n - 1]
      BY <3>1 DEF g, p
    <3>. QED BY <2>2, <3>2, <3>3, <3>4
  <2>. QED BY <2>1, <2>2
<1>3. F = [n \in Nat |-> F[n]]
  OBVIOUS
<1>. HIDE DEF F
<1>4. F = [n \in Nat |-> IF n = 0 THEN Base ELSE 2 * F[n - 1]]
  BY <1>2, <1>3
<1>5. \E d : d = [n \in Nat |-> IF n = 0 THEN Base ELSE 2 * d[n - 1]]
  BY <1>4
<1>. QED BY <1>5 DEF Doubled

\* A doubled delay is a number again.
LEMMA DoubledType == \A n \in Nat : Doubled[n] \in Nat
<1>. DEFINE T == {n \in Nat : Doubled[n] \notin Nat}
<1>. SUFFICES ASSUME T # {} PROVE FALSE
  OBVIOUS
<1>1. PICK x \in T : \A y \in T : x <= y
  BY LeastNatural
<1>2. x \in Nat /\ (x # 0 => x - 1 \in Nat /\ x - 1 \notin T)
  BY <1>1
<1>3. Doubled[x] = IF x = 0 THEN Base ELSE 2 * Doubled[x - 1]
  BY <1>2, DoubledUnfolds
<1>. QED BY <1>1, <1>2, <1>3, LeaseAssumption

\* _task_backoff_delay_seconds never exceeds the longest delay.
LEMMA DelayBounds == \A n \in Nat \ {0} : Delay(n) \in 0..MaxDelay
<1>. SUFFICES ASSUME NEW n \in Nat \ {0} PROVE Delay(n) \in 0..MaxDelay
  OBVIOUS
<1>1. Doubled[n - 1] \in Nat
  BY DoubledType
<1>. QED BY <1>1, LeaseAssumption DEF Delay, Least

-----------------------------------------------------------------------------
(* Types.                                                                  *)

\* An instant that ages stays within its bounds.
LEMMA OlderType ==
    ASSUME NEW m \in Nat, NEW t \in Past..m
    PROVE  Older(t) \in Past..m
BY Bounds DEF Older

\* A coordinator's own step keeps every variable within its type: the next
\* attempt is at most a longest delay ahead.
LEMMA StepTypes ==
    ASSUME TypeOK, NEW c \in Coordinators, CycleStep(c) \/ Crash(c)
    PROVE  TypeOK'
<1>0. /\ NoBackoff \in Backoffs
      /\ memory[c] \in Backoffs /\ seen[c] \in Backoffs
      /\ lag[c] \in 0..MaxLag
      /\ Past \in Past..Ttl /\ 0 \in 0..MaxLag
      /\ [next |-> nextAt, failures |-> failures] \in Backoffs
  BY LeaseAssumption DEF TypeOK, Backoffs, NoBackoff, Past
<1>1. Ttl - lag[c] \in Past..Ttl
  BY <1>0, LeaseAssumption DEF Past
<1>2. \A known \in {0, failures} : BackoffAfter(c, known) \in Backoffs
  <2>. SUFFICES ASSUME NEW known \in {0, failures}
                PROVE  BackoffAfter(c, known) \in Backoffs
    OBVIOUS
  <2>. DEFINE prior == IF memory[c].failures > known THEN memory[c].failures ELSE known
              n == Least(prior + 1, MaxFailures)
  <2>1. prior \in Nat
    BY <1>0 DEF TypeOK, Backoffs
  <2>2. n \in 1..MaxFailures
    BY <2>1, LeaseAssumption DEF Least
  <2>. HIDE DEF n
  <2>3. Delay(n) \in 0..MaxDelay
    BY <2>2, DelayBounds
  <2>4. Delay(n) - lag[c] \in Past..MaxDelay
    BY <1>0, <2>3, LeaseAssumption DEF Past
  <2>5. BackoffAfter(c, known) = [next |-> Delay(n) - lag[c], failures |-> n]
    BY DEF BackoffAfter, n
  <2>. QED BY <2>2, <2>4, <2>5, LeaseAssumption DEF Backoffs
<1>. USE DEF TypeOK, Goto, EndCycle, SetMemory, SetSeen, leaseVars, stateVars, localVars
<1>3. CASE BeginCycle(c) \/ CheckBackoff(c) \/ FindNoRow(c) \/ TaskSucceeds(c)
  BY <1>3 DEF BeginCycle, CheckBackoff, FindNoRow, TaskSucceeds, Phases
<1>4. CASE ReadSkipped(c)
  BY <1>0, <1>4 DEF ReadSkipped, Phases
<1>5. CASE RecordRun(c)
  <2>1. seen[c].next \in Past..MaxDelay /\ seen[c].failures \in 0..MaxFailures
    BY <1>0 DEF Backoffs
  <2>. QED BY <1>0, <1>5, <2>1 DEF RecordRun, Projected, Phases
<1>6. CASE TakeLease(c)
  BY <1>1, <1>6 DEF TakeLease, Grant, Phases
<1>7. CASE FindLeaseHeld(c)
  BY <1>0, <1>7 DEF FindLeaseHeld, Phases
<1>8. CASE AcquireFails(c)
  BY <1>0, <1>1, <1>8 DEF AcquireFails, Grant, Phases
<1>9. CASE TaskFailsTransiently(c) \/ TaskFailsOtherwise(c)
  BY <1>0, <1>2, <1>9 DEF TaskFailsTransiently, TaskFailsOtherwise, Phases
<1>10. CASE Release(c)
  BY <1>0, <1>10 DEF Release, DropLease, Phases
<1>11. CASE Crash(c)
  <2>1. crashes' \in 0..MaxCrashes
    BY <1>11, LeaseAssumption DEF Crash
  <2>. QED BY <1>0, <1>11, <2>1 DEF Crash, Phases
<1>. QED
  BY <1>3, <1>4, <1>5, <1>6, <1>7, <1>8, <1>9, <1>10, <1>11 DEF CycleStep

\* Time keeps the types: instants stop at Past, and no cycle is older than
\* MaxLag.
LEMMA TickTypes == ASSUME TypeOK, Tick PROVE TypeOK'
<1>1. expires' \in Past..Ttl /\ nextAt' \in Past..MaxDelay
  BY OlderType, LeaseAssumption DEF TypeOK, Tick
<1>2. \A b \in Backoffs : OlderBackoff(b) \in Backoffs
  <2>. SUFFICES ASSUME NEW b \in Backoffs PROVE OlderBackoff(b) \in Backoffs
    OBVIOUS
  <2>1. Older(b.next) \in Past..MaxDelay
    BY OlderType, LeaseAssumption DEF Backoffs
  <2>. QED BY <2>1 DEF OlderBackoff, Backoffs
<1>3. memory' \in [Coordinators -> Backoffs] /\ seen' \in [Coordinators -> Backoffs]
  BY <1>2 DEF TypeOK, Tick
<1>4. lag' \in [Coordinators -> 0..MaxLag]
  BY LeaseAssumption DEF TypeOK, Tick
<1>. QED BY <1>1, <1>3, <1>4 DEF TypeOK, Tick

\* However often SKIPPED runs and failures are recorded over each other, the
\* next attempt is never further away than the longest delay.
THEOREM TypeCorrect == Spec => []TypeOK
<1>1. Init => TypeOK
  <2>1. /\ Past \in Past..Ttl /\ Past \in Past..MaxDelay /\ 0 \in 0..MaxLag
        /\ 0 \in 0..MaxFailures /\ 0 \in 0..MaxCrashes
    BY LeaseAssumption DEF Past
  <2>2. NoBackoff \in Backoffs /\ "idle" \in Phases
    BY <2>1 DEF NoBackoff, Backoffs, Phases
  <2>. QED BY <2>1, <2>2 DEF Init, TypeOK
<1>2. TypeOK /\ [Next]_vars => TypeOK'
  <2>. SUFFICES ASSUME TypeOK, [Next]_vars PROVE TypeOK'
    OBVIOUS
  <2>1. CASE Tick
    BY <2>1, TickTypes
  <2>2. ASSUME NEW c \in Coordinators, CycleStep(c) \/ Crash(c) PROVE TypeOK'
    BY <2>2, StepTypes
  <2>3. CASE UNCHANGED vars
    BY <2>3 DEF vars, leaseVars, stateVars, localVars, TypeOK
  <2>. QED BY <2>1, <2>2, <2>3 DEF Next
<1>. QED BY <1>1, <1>2, PTL DEF Spec

=============================================================================
