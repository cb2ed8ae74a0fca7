------------------------------- MODULE MCCron -------------------------------
(* Small instances of CronEngine for TLC. *)
EXTENDS CronEngine

CONSTANTS j1, j2

Stored(next) == [life |-> "live", enabled |-> TRUE, state |-> "idle",
                 next |-> next, sched |-> "recurring"]
Unborn == [life |-> "unborn", enabled |-> FALSE, state |-> "idle",
           next |-> "none", sched |-> "recurring"]

\* cron.db as an earlier process left it: one job due, the other due too, not
\* scheduled yet, or still to be added.
MCInitialJobs == {[j \in Jobs |-> IF j = j1 THEN Stored("due") ELSE row] :
                     row \in {Stored("due"), Unborn}}
=============================================================================
