-------------------------- MODULE MCSchedulerLease --------------------------
(* SchedulerLease with two processes.  A lease of one tick is shorter than    *)
(* a cycle that is two ticks late, so a lease can be overrun.               *)
EXTENDS SchedulerLease

=============================================================================
