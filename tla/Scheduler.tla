------------------------------ MODULE Scheduler -----------------------------
(***************************************************************************)
(* The job scheduler (apps/worker/scheduler/scheduler.py) as the worker    *)
(* loop, `run-due` and `run <job>` drive it, and the job_runs table, its   *)
(* only memory.  A process plans a cycle against one reading of the clock  *)
(* (context.now), asks the table job by job, in alphabetical order, which  *)
(* jobs are due, then runs what it planned one job after another.  Each    *)
(* attempt stamps its own start.  Several processes share the table: the   *)
(* loop, replicas of it, and an operator's command line; nothing is locked *)
(* between asking and running.                                             *)
(*                                                                         *)
(* What a job does is left to its own module; here it ends with any of the *)
(* statuses a job may return.                                              *)
(***************************************************************************)
EXTENDS Schedules, Sequences, FiniteSets

CONSTANTS
    Jobs,           \* registered job names
    Rank,           \* each name's place in alphabetical order
    ScheduleOf,     \* the schedule each was registered with
    Processes,      \* worker processes sharing the database
    MaxAttempts,    \* run_due's max_attempts (every caller passes 1)
    MaxTime,        \* bound on the clock
    MaxFaults,      \* bound on attempts that do not count and processes lost
    MaxManual       \* bound on manual runs

ASSUME JobsAssumption ==
    /\ Rank \in [Jobs -> Nat]
    /\ ScheduleOf \in [Jobs -> Schedules]

ASSUME BoundsAssumption ==
    /\ MaxAttempts \in Nat \ {0}
    /\ MaxTime \in Nat
    /\ MaxFaults \in Nat
    /\ MaxManual \in Nat

VARIABLES
    now,        \* the UTC clock
    runs,       \* the job_runs table, oldest row first
    process,    \* what each process is doing
    faults      \* failures and crashes so far (bounded by MaxFaults)

vars == <<now, runs, process, faults>>

Triggers == {"scheduled", "manual"}

\* SUCCESS and PARTIAL, which every query treats alike, are "done".
Statuses == {"done", "failed", "skipped"}

\* A job_runs row.  `cycle`, the context.now the run worked with, and `saw`,
\* the number of rows in the table when the process decided to run the job,
\* are history the properties need.
Rows == [job : Jobs, by : Processes, trigger : Triggers, attempt : Nat,
         status : Statuses, started : Nat, cycle : Nat, saw : Nat]

\* No cycle; a context built; something left to run; a job running.
Phases == {"idle", "context", "ready", "run"}

\* plan holds what the cycle has still to run, the job now running included.
Idle == [phase |-> "idle", cycle |-> 0, trigger |-> "scheduled", saw |-> 0,
         plan |-> {}, attempt |-> 0, started |-> 0]

Init ==
    /\ now = 0
    /\ runs = <<>>
    /\ process = [p \in Processes |-> Idle]
    /\ faults = 0

-----------------------------------------------------------------------------
\* A mutant of DoneStarts: a query that forgets the status filter.
AnyStatusStarts(job) ==
    {runs[i].started : i \in {k \in DOMAIN runs : runs[k].job = job}}

\* Start times of the runs of a job that the scheduler takes for done.
DoneStarts(job) ==
    {runs[i].started : i \in {k \in DOMAIN runs :
                                /\ runs[k].job = job
                                /\ runs[k].status = "done"}}

\* The job is due at t given its last successful run: the newest start.
DueAt(job, t) ==
    \/ DoneStarts(job) = {} /\ IsDue(ScheduleOf[job], t, Never)
    \/ \E last \in DoneStarts(job) :
         /\ \A other \in DoneStarts(job) : other <= last
         /\ IsDue(ScheduleOf[job], t, last)

\* What is left of a process's cycle: the loop sleeps, and the command line
\* exits, as soon as nothing is planned.
Going(w) == IF w.plan = {} THEN Idle ELSE w

\* _cmd_loop, _cmd_run_due: a new session and a context whose `now` is fixed.
BeginCycle(p) ==
    /\ process[p].phase = "idle"
    /\ process' = [process EXCEPT ![p] =
                     [Idle EXCEPT !.phase = "context", !.cycle = now]]
    /\ UNCHANGED <<now, runs, faults>>

Planned(w) == [w EXCEPT !.phase = "ready", !.saw = Len(runs),
                        !.plan = {job \in Jobs : DueAt(job, w.cycle)}]

\* run_due: decide what to run against that clock and the table as it is.
PlanCycle(p) ==
    /\ process[p].phase = "context"
    /\ process' = [process EXCEPT ![p] = Going(Planned(process[p]))]
    /\ UNCHANGED <<now, runs, faults>>

ManualProcesses == {p \in Processes : process[p].trigger = "manual"}
ManualRows == {i \in DOMAIN runs : runs[i].trigger = "manual"}

\* _cmd_run: `run <job_name>` asks nothing and runs any job at any time.
RunManually(p, job) ==
    /\ process[p].phase = "idle"
    /\ Cardinality(ManualProcesses) + Cardinality(ManualRows) < MaxManual
    /\ process' = [process EXCEPT ![p] =
                     [Idle EXCEPT !.phase = "ready", !.cycle = now,
                                  !.trigger = "manual", !.saw = Len(runs),
                                  !.plan = {job}]]
    /\ UNCHANGED <<now, runs, faults>>

\* The top of run_job's loop: the attempt reads its own started_at.
StartAttempt(p) ==
    /\ process[p].phase = "ready"
    /\ process' = [process EXCEPT ![p].phase = "run",
                                  ![p].attempt = @ + 1,
                                  ![p].started = now]
    /\ UNCHANGED <<now, runs, faults>>

\* A mutant of Current: the order is the other way round.
CurrentReversed(p, job) ==
    /\ job \in process[p].plan
    /\ \A other \in process[p].plan : Rank[other] <= Rank[job]

\* The jobs of a cycle run in alphabetical order.
Current(p, job) ==
    /\ job \in process[p].plan
    /\ \A other \in process[p].plan : Rank[job] <= Rank[other]

RowOf(p, job, status) ==
    LET w == process[p]
    IN [job |-> job, by |-> p, trigger |-> w.trigger, attempt |-> w.attempt,
        status |-> status, started |-> w.started, cycle |-> w.cycle,
        saw |-> w.saw]

\* A FAILED attempt is tried again until the attempts run out.
TryAgain(p, status) ==
    status = "failed" /\ process[p].attempt < MaxAttempts

\* The next turn of the attempt loop, and the return from it.
Again(w) == [w EXCEPT !.phase = "ready", !.started = 0]
Without(w, job) == [w EXCEPT !.phase = "ready", !.started = 0, !.attempt = 0,
                             !.plan = w.plan \ {job}]

\* The job returns a status or raises, which run_job turns into FAILED after
\* rolling the job's session back; the row is inserted and committed; then
\* the next attempt, or the next planned job, is up.
EndAttempt(p, job, status) ==
    /\ process[p].phase = "run"
    /\ Current(p, job)
    /\ status = "done" \/ faults < MaxFaults
    /\ runs' = Append(runs, RowOf(p, job, status))
    /\ process' = [process EXCEPT ![p] =
         IF TryAgain(p, status) THEN Again(process[p])
         ELSE Going(Without(process[p], job))]
    /\ faults' = IF status = "done" THEN faults ELSE faults + 1
    /\ UNCHANGED now

\* The process dies, or the database refuses a statement outside the job:
\* session_scope rolls back and the rest of the plan is forgotten.
LoseProcess(p) ==
    /\ process[p].phase # "idle"
    /\ faults < MaxFaults
    /\ faults' = faults + 1
    /\ process' = [process EXCEPT ![p] = Idle]
    /\ UNCHANGED <<now, runs>>

Tick ==
    /\ now < MaxTime
    /\ now' = now + 1
    /\ UNCHANGED <<runs, process, faults>>

\* What a healthy process does next of its own accord.
Step(p) ==
    \/ BeginCycle(p)
    \/ PlanCycle(p)
    \/ StartAttempt(p)
    \/ \E job \in Jobs, status \in Statuses : EndAttempt(p, job, status)

Next ==
    \/ \E p \in Processes :
         \/ Step(p)
         \/ \E job \in Jobs : RunManually(p, job)
         \/ LoseProcess(p)
    \/ Tick

Spec == Init /\ [][Next]_vars

\* The loop polls for ever and a job's calls all have timeouts, so a process
\* always takes its next step; nothing obliges an operator to run a job.
FairSpec == Spec /\ \A p \in Processes : WF_vars(Step(p))

-----------------------------------------------------------------------------
ProcessTypes ==
    [phase : Phases, cycle : Nat, trigger : Triggers, saw : Nat,
     plan : SUBSET Jobs, attempt : Nat, started : Nat]

\* Type invariant of the scheduler's state and of the job_runs table.
TypeOK ==
    /\ now \in 0..MaxTime
    /\ runs \in Seq(Rows)
    /\ process \in [Processes -> ProcessTypes]
    /\ faults \in 0..MaxFaults
    /\ \A p \in Processes :
         process[p].phase \in {"ready", "run"} <=> process[p].plan # {}

\* One done run b of a job comes soon after an earlier one a: on the same
\* calendar day for a daily job, within the interval for an interval job.
TooSoon(a, b) ==
    \/ ScheduleOf[a.job].kind = "daily" /\ Date(a.started) = Date(b.started)
    \/ /\ ScheduleOf[a.job].kind = "interval"
       /\ b.started - a.started < ScheduleOf[a.job].every

\* Whatever crashes, retries, manual runs and replicas do, a scheduled run
\* repeats a job that is already done for the day (or the interval) only when
\* it had been planned before the other run's row was committed: that row is
\* not among those its due check saw (scheduler.py due_jobs, is_due).
NoEarlyRepeat ==
    \A i, k \in DOMAIN runs :
      /\ i < k
      /\ runs[i].job = runs[k].job
      /\ runs[i].status = "done"
      /\ runs[k].status = "done"
      /\ runs[k].trigger = "scheduled"
      /\ TooSoon(runs[i], runs[k])
      => runs[k].saw < i

\* The job has been done for what its schedule asks for at time t: a daily one
\* by a run that was decided on that day.
DoneToday(job, t) ==
    LET s == ScheduleOf[job]
    IN \/ s.kind = "manual"
       \/ s.kind = "daily" /\ TimeOfDay(t) < s.at
       \/ \E i \in DOMAIN runs :
            /\ runs[i].job = job
            /\ runs[i].status = "done"
            /\ \/ s.kind = "daily" /\ Date(runs[i].cycle) = Date(t)
               \/ s.kind = "interval" /\ t - runs[i].started < s.every

\* A run of an earlier day's cycle started after midnight, and stands for this
\* day's run in the eyes of the due check.
SlotTaken(job, t) ==
    /\ ScheduleOf[job].kind = "daily"
    /\ \E i \in DOMAIN runs :
         /\ runs[i].job = job
         /\ runs[i].status = "done"
         /\ Date(runs[i].started) = Date(t)
         /\ Date(runs[i].cycle) < Date(t)

\* Failed and skipped attempts, lost processes and restarts never leave a job
\* behind: once the clock and the faults come to rest, every job becomes and
\* stays done for the day, because each later poll finds it still due, unless a
\* run of the day before has taken the day's slot.
FaultsAreRetried == <>[](\A job \in Jobs : DoneToday(job, now) \/ SlotTaken(job, now))

\* "Never skips a missed one" (scheduler.py:5-6, docs/resilience.md:67-69), with
\* no exception.
NoDaySkipped == <>[](\A job \in Jobs : DoneToday(job, now))
=============================================================================
