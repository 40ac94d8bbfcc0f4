---------------------------- MODULE MCScheduler ----------------------------
EXTENDS Scheduler

MCSlices == [HIGH |-> 2, NORM |-> 1, LOW |-> 0]
=============================================================================
