----------------------------- MODULE MCCronJobs -----------------------------
(* Small instances of CronJobs for TLC: firings are numbered, and the cfg    *)
(* says how many schedules they belong to.                                   *)
EXTENDS CronJobs

CONSTANTS daily, weekly, Fires

Firings    == Schedules \X (1 .. Fires)
ScheduleOf == [i \in Firings |-> i[1]]
=============================================================================
