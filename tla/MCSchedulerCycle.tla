-------------------------- MODULE MCSchedulerCycle --------------------------
EXTENDS SchedulerCycle

=============================================================================
