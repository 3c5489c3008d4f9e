---------------------------- MODULE MCSleepClock ----------------------------
EXTENDS SleepClock
=============================================================================
