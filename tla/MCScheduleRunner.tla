-------------------------- MODULE MCScheduleRunner --------------------------
EXTENDS ScheduleRunner
CONSTANTS s1, s2
MCSteps == <<"backup", "restart">>
=============================================================================
