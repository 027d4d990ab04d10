----------------------------- MODULE MCScheduler ----------------------------
(***************************************************************************)
(* MCScheduler.cfg: one daily job, the loop and a second process, two days *)
(* of two ticks, so that the job is due in the second half of a day.       *)
(* MCMissedDay.cfg: the loop alone, without faults.                        *)
(***************************************************************************)
EXTENDS Scheduler

MCJobs == {"portfolio_update"}
MCRank == [job \in MCJobs |-> 1]
MCScheduleOf == [job \in MCJobs |-> Daily(1)]

=============================================================================
