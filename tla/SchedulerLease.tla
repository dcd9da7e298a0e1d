--------------------------- MODULE SchedulerLease ---------------------------
(***************************************************************************)
(* One automatic task of one account, shared by the schedulers of several  *)
(* API processes over one scheduler_task_states row: the single-flight     *)
(* lease of try_acquire_lease / release_lease and the retry backoff of     *)
(* _run_account_task.                                                      *)
(*                                                                         *)
(* Time is relative: an instant is its distance from the present, so Tick  *)
(* makes every instant one older.  A cycle reads the clock once, at its    *)
(* start, and uses that reading to the end: lag[c] is how old it is.       *)
(***************************************************************************)
EXTENDS Integers

CONSTANTS
    Coordinators, \* ReconciliationCoordinator objects, one per API process
    Nobody,       \* lease_owner NULL
    Dead,         \* the owner name of a process that no longer exists
    Ttl,          \* _task_lease_ttl_seconds
    Base,         \* the first backoff delay
    MaxDelay,     \* the longest backoff delay
    MaxFailures,  \* bound: consecutive failures that are told apart
    MaxLag,       \* bound: how long a cycle lasts
    MaxCrashes    \* bound: process crashes

ASSUME LeaseAssumption ==
    /\ {Ttl, Base, MaxDelay, MaxFailures, MaxLag} \subseteq Nat \ {0}
    /\ MaxCrashes \in Nat
    /\ {Nobody, Dead} \cap Coordinators = {}
    /\ Nobody # Dead

VARIABLES
    created,   \* the scheduler_task_states row exists
    owner,     \* its lease_owner
    expires,   \* its lease_expires_at
    nextAt,    \* its next_attempt_at
    failures,  \* its consecutive_failures
    phase,     \* where each coordinator is in its cycle
    lag,       \* age of each coordinator's cycle-start `now`
    memory,    \* each coordinator's _automatic_task_backoffs entry
    seen,      \* the backoff columns of the run it is about to record
    crashes

leaseVars == <<created, owner, expires>>
stateVars == <<nextAt, failures>>
localVars == <<lag, memory, seen>>
vars == <<leaseVars, stateVars, phase, localVars, crashes>>

Phases == {"idle", "begun", "skipping", "acquiring", "inserting", "running",
           "failed", "leaving", "succeeded", "recording"}

\* An instant no reading of the clock in progress is before; NULL as well.
Past == -MaxLag
NoBackoff == [next |-> Past, failures |-> 0]
Backoffs == [next : Past..MaxDelay, failures : 0..MaxFailures]

Init ==
    /\ created = FALSE /\ owner = Nobody /\ expires = Past
    /\ nextAt = Past /\ failures = 0
    /\ phase = [c \in Coordinators |-> "idle"]
    /\ lag = [c \in Coordinators |-> 0]
    /\ memory = [c \in Coordinators |-> NoBackoff]
    /\ seen = [c \in Coordinators |-> NoBackoff]
    /\ crashes = 0

At(c, p) == phase[c] = p
Goto(c, p) == phase' = [phase EXCEPT ![c] = p]
EndCycle(c) == Goto(c, "idle") /\ lag' = [lag EXCEPT ![c] = 0]
SetMemory(c, b) == memory' = [memory EXCEPT ![c] = b]
SetSeen(c, b) == seen' = [seen EXCEPT ![c] = b]

Older(t) == IF t > Past THEN t - 1 ELSE Past
OlderBackoff(b) == [b EXCEPT !.next = Older(@)]

Tick ==
    /\ \A c \in Coordinators : At(c, "idle") \/ lag[c] < MaxLag
    /\ expires' = Older(expires)
    /\ nextAt' = Older(nextAt)
    /\ lag' = [c \in Coordinators |-> IF At(c, "idle") THEN 0 ELSE lag[c] + 1]
    /\ memory' = [c \in Coordinators |-> OlderBackoff(memory[c])]
    /\ seen' = [c \in Coordinators |-> OlderBackoff(seen[c])]
    /\ UNCHANGED <<created, owner, failures, phase, crashes>>

BeginCycle(c) ==
    /\ At(c, "idle")
    /\ Goto(c, "begun")
    /\ UNCHANGED <<leaseVars, stateVars, localVars, crashes>>

-----------------------------------------------------------------------------
(* Backoff: the coordinator's own entry hides the row.                     *)

Remembers(c) == memory[c].failures > 0
Upcoming(c, t) == t > -lag[c]
BackoffActive(c) == Upcoming(c, IF Remembers(c) THEN memory[c].next ELSE nextAt)

\* _get_task_state swallows a failed read: the task then goes ahead.
CheckBackoff(c) ==
    /\ At(c, "begun")
    /\ \/ BackoffActive(c) /\ Goto(c, "skipping")
       \/ ~(BackoffActive(c) /\ Remembers(c)) /\ Goto(c, "acquiring")
    /\ UNCHANGED <<leaseVars, stateVars, localVars, crashes>>

\* The row is read again for the SKIPPED run, and that read may fail too.
ReadSkipped(c) ==
    /\ At(c, "skipping")
    /\ \/ Remembers(c) /\ SetSeen(c, memory[c])
       \/ ~Remembers(c) /\ SetSeen(c, [next |-> nextAt, failures |-> failures])
       \/ ~Remembers(c) /\ SetSeen(c, NoBackoff)
    /\ Goto(c, "recording")
    /\ UNCHANGED <<leaseVars, stateVars, lag, memory, crashes>>

Projected(b) == created' = TRUE /\ nextAt' = b.next /\ failures' = b.failures

\* create_run copies the run over the row's backoff columns and leaves its
\* lease alone; a failure to record is swallowed.
RecordRun(c) ==
    /\ \/ At(c, "recording") /\ EndCycle(c)
       \/ At(c, "failed") /\ Goto(c, "leaving") /\ UNCHANGED lag
    /\ Projected(seen[c]) \/ UNCHANGED <<created, stateVars>>
    /\ SetSeen(c, NoBackoff)
    /\ UNCHANGED <<owner, expires, memory, crashes>>

-----------------------------------------------------------------------------
(* The lease.                                                              *)

\* Mutants of HeldByOther: the insert race overwrites the other's row; the
\* expiry of a lease is not looked at.
HeldUnlessInserting(c) ==
    At(c, "acquiring") /\ owner \notin {Nobody, c} /\ Upcoming(c, expires)
HeldUntilReleased(c) == owner \notin {Nobody, c}

HeldByOther(c) == owner \notin {Nobody, c} /\ Upcoming(c, expires)

Grant(c) ==
    /\ created' = TRUE
    /\ owner' = c
    /\ expires' = Ttl - lag[c]

\* SELECT ... FOR UPDATE finds no row to lock.
FindNoRow(c) ==
    /\ At(c, "acquiring") /\ ~created
    /\ Goto(c, "inserting")
    /\ UNCHANGED <<leaseVars, stateVars, localVars, crashes>>

\* An insert that meets a row inserted meanwhile is rolled back, and the
\* lease evaluated again on that row.
Evaluates(c) == At(c, "inserting") \/ (At(c, "acquiring") /\ created)

TakeLease(c) ==
    /\ Evaluates(c) /\ ~HeldByOther(c)
    /\ Grant(c)
    /\ Goto(c, "running")
    /\ UNCHANGED <<stateVars, localVars, crashes>>

FindLeaseHeld(c) ==
    /\ Evaluates(c) /\ HeldByOther(c)
    /\ EndCycle(c)
    /\ UNCHANGED <<leaseVars, stateVars, memory, seen, crashes>>

\* A database error skips the task, even when the lease was committed.
AcquireFails(c) ==
    /\ At(c, "acquiring") \/ At(c, "inserting")
    /\ UNCHANGED leaseVars \/ (Evaluates(c) /\ ~HeldByOther(c) /\ Grant(c))
    /\ EndCycle(c)
    /\ UNCHANGED <<stateVars, memory, seen, crashes>>

-----------------------------------------------------------------------------
(* The task and its end.                                                   *)

Least(m, n) == IF m < n THEN m ELSE n

\* The first delay, doubled n times.
Doubled[n \in Nat] == IF n = 0 THEN Base ELSE 2 * Doubled[n - 1]

\* Mutant of Delay: the longest delay is no limit.
DelayUncapped(n) == Doubled[n - 1]

Delay(n) == Least(MaxDelay, Doubled[n - 1])

TaskSucceeds(c) ==
    /\ At(c, "running")
    /\ Goto(c, "succeeded")
    /\ UNCHANGED <<leaseVars, stateVars, localVars, crashes>>

\* The next attempt counts from the start of the cycle, the failures from the
\* larger of the own and (unless the read fails) the recorded count.
BackoffAfter(c, known) ==
    LET prior == IF memory[c].failures > known THEN memory[c].failures ELSE known
        n == Least(prior + 1, MaxFailures)
    IN  [next |-> Delay(n) - lag[c], failures |-> n]

TaskFailsTransiently(c) ==
    /\ At(c, "running")
    /\ \E known \in {0, failures} :
          LET b == BackoffAfter(c, known) IN SetMemory(c, b) /\ SetSeen(c, b)
    /\ Goto(c, "failed")
    /\ UNCHANGED <<leaseVars, stateVars, lag, crashes>>

TaskFailsOtherwise(c) ==
    /\ At(c, "running")
    /\ SetMemory(c, NoBackoff) /\ SetSeen(c, NoBackoff)
    /\ Goto(c, "failed")
    /\ UNCHANGED <<leaseVars, stateVars, lag, crashes>>

\* Mutant of DropLease: the owner is not compared.
DropAnyLease(c) == owner' = Nobody /\ expires' = Past

DropLease(c) ==
    IF owner = c THEN owner' = Nobody /\ expires' = Past
                 ELSE UNCHANGED <<owner, expires>>

\* After a failure the run is recorded before the release, after a success
\* behind it; a failed release is swallowed.
Release(c) ==
    /\ DropLease(c) \/ UNCHANGED <<owner, expires>>
    /\ \/ At(c, "leaving") /\ EndCycle(c) /\ UNCHANGED <<memory, seen>>
       \/ /\ At(c, "succeeded") /\ Goto(c, "recording")
          /\ SetMemory(c, NoBackoff) /\ SetSeen(c, NoBackoff)
          /\ UNCHANGED lag
    /\ UNCHANGED <<created, stateVars, crashes>>

\* The process dies and is started again: its memory is gone, and the new
\* coordinator's owner name (pid and object id) is not the old one's.
Crash(c) ==
    /\ crashes < MaxCrashes
    /\ crashes' = crashes + 1
    /\ owner' = IF owner = c THEN Dead ELSE owner
    /\ EndCycle(c)
    /\ SetMemory(c, NoBackoff) /\ SetSeen(c, NoBackoff)
    /\ UNCHANGED <<created, expires, stateVars>>

-----------------------------------------------------------------------------
CycleStep(c) ==
    \/ BeginCycle(c) \/ CheckBackoff(c) \/ ReadSkipped(c) \/ RecordRun(c)
    \/ FindNoRow(c) \/ TakeLease(c) \/ FindLeaseHeld(c) \/ AcquireFails(c)
    \/ TaskSucceeds(c) \/ TaskFailsTransiently(c) \/ TaskFailsOtherwise(c)
    \/ Release(c)

Next == Tick \/ \E c \in Coordinators : CycleStep(c) \/ Crash(c)

Spec == Init /\ [][Next]_vars

\* Time passes, the polling loop of ReconciliationScheduler goes on, every
\* statement and SDK call ends (each has a timeout), and the database does not
\* fail the same statement for ever.
FairSpec ==
    /\ Spec
    /\ WF_vars(Tick)
    /\ \A c \in Coordinators :
          WF_vars(CycleStep(c)) /\ SF_vars(FindNoRow(c)) /\ SF_vars(TakeLease(c))

-----------------------------------------------------------------------------
\* Instants stay within the longest delay and the age of a cycle: no sequence
\* of re-recorded SKIPPED runs moves next_attempt_at further away.
TypeOK ==
    /\ created \in BOOLEAN
    /\ owner \in Coordinators \cup {Nobody, Dead}
    /\ expires \in Past..Ttl
    /\ nextAt \in Past..MaxDelay
    /\ failures \in 0..MaxFailures
    /\ phase \in [Coordinators -> Phases]
    /\ lag \in [Coordinators -> 0..MaxLag]
    /\ memory \in [Coordinators -> Backoffs]
    /\ seen \in [Coordinators -> Backoffs]
    /\ crashes \in 0..MaxCrashes

\* The time left of a lease taken in this cycle, by the present clock.
WithinLease(c) == At(c, "running") /\ lag[c] < Ttl

\* Single flight: two processes run the task at once only when one of them
\* has overrun the lease it took, although leases are granted, refused and
\* stolen by the stale clock of the cycle (_try_acquire_task_lease).
LeaseExcludes ==
    \A c, d \in Coordinators : WithinLease(c) /\ WithinLease(d) => c = d

\* A lease that has not run out ends only by its owner's own step: a late
\* release of a process that was robbed of an expired lease does not end the
\* thief's (release_lease), nor does an insert race (try_acquire_lease).
LeaseIsKept ==
    [][\A c \in Coordinators :
          owner = c /\ expires > 0 /\ owner' # c => phase'[c] # phase[c] \/ owner' = Dead]_vars

\* Neither a crash that leaves a lease behind, nor a swallowed release, nor
\* backoffs that coordinators record over each other stop the task for good.
TaskKeepsRunning == []<>(\E c \in Coordinators : At(c, "running"))

=============================================================================
