---------------------------- MODULE MCScheduler ----------------------------
EXTENDS Scheduler
============================================================================
