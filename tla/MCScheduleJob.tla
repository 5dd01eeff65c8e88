---------------------------- MODULE MCScheduleJob ----------------------------
EXTENDS ScheduleJob
CONSTANT j1
==============================================================================
