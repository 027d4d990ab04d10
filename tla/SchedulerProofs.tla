--------------------------- MODULE SchedulerProofs --------------------------
(***************************************************************************)
(* Proofs about the job scheduler, for any set of jobs and schedules, any  *)
(* number of processes sharing the job_runs table and any bounds.          *)
(*                                                                         *)
(* NoEarlyRepeat is not inductive: it speaks of rows, and a row is written *)
(* long after the decision it records.  The strengthening follows the      *)
(* decision: whatever a process has still planned is clear of every run    *)
(* its due check could see, measured from the cycle's clock, and no attempt*)
(* starts before its cycle's clock.                                        *)
(*                                                                         *)
(* The second half is about NightlyWork, whose steps are steps of the      *)
(* scheduler with what the jobs leave behind: the order of the nightly     *)
(* jobs, the reports and the health endpoint.                              *)
(***************************************************************************)
EXTENDS NightlyWork, FiniteSetTheorems, TLAPS

\* A start at u respects the schedule of the job with respect to one at t.
Clear(job, t, u) ==
    /\ ScheduleOf[job].kind = "daily" => Date(t) < Date(u)
    /\ ScheduleOf[job].kind = "interval" => u - t >= ScheduleOf[job].every

DoneRun(i, job) ==
    /\ i \in DOMAIN runs
    /\ runs[i].job = job
    /\ runs[i].status = "done"

\* What is true of a process, whatever it is doing.
Careful(w) ==
    /\ w.cycle <= now
    /\ w.started <= now
    /\ w.phase = "run" => w.cycle <= w.started
    /\ w.saw <= Len(runs)
    /\ w.trigger = "scheduled" =>
         \A job \in w.plan, i \in 1..w.saw :
           DoneRun(i, job) => Clear(job, runs[i].started, w.cycle)

\* A scheduled row is clear of every earlier run its due check could see.
RowsClear ==
    \A i, k \in DOMAIN runs :
      /\ i < k
      /\ runs[k].status = "done"
      /\ runs[k].trigger = "scheduled"
      /\ i <= runs[k].saw
      /\ DoneRun(i, runs[k].job)
      => Clear(runs[k].job, runs[i].started, runs[k].started)

IInv ==
    /\ TypeOK
    /\ \A p \in Processes : Careful(process[p])
    /\ RowsClear

-----------------------------------------------------------------------------
\* A later moment is never on an earlier calendar day.
LEMMA DatesAreOrdered ==
    ASSUME NEW a \in Nat, NEW b \in Nat, a <= b
    PROVE  /\ Date(a) \in Int
           /\ Date(b) \in Int
           /\ Date(a) <= Date(b)
  BY DayLengthAssumption, Z3 DEF Date

\* What is clear of a run at u is clear of it ever after.
LEMMA ClearLater ==
    ASSUME NEW job \in Jobs, NEW t \in Nat, NEW u \in Nat, NEW v \in Nat,
           u <= v, Clear(job, t, u)
    PROVE  Clear(job, t, v)
  <1>1. Date(u) \in Int /\ Date(v) \in Int /\ Date(u) <= Date(v)
    BY DatesAreOrdered
  <1>2. Date(t) \in Int
    BY DatesAreOrdered
  <1>3. ScheduleOf[job].every \in Nat
    BY JobsAssumption DEF Schedules
  <1> QED
    BY <1>1, <1>2, <1>3 DEF Clear

\* Every row of job_runs has the type of a row.
LEMMA RowTypes ==
    ASSUME TypeOK, NEW i \in DOMAIN runs
    PROVE  runs[i] \in Rows /\ runs[i].started \in Nat /\ runs[i].saw \in Nat
             /\ runs[i].job \in Jobs /\ i \in 1..Len(runs) /\ Len(runs) \in Nat
  <1>1. runs \in Seq(Rows)
    BY DEF TypeOK
  <1>2. runs[i] \in Rows /\ i \in 1..Len(runs) /\ Len(runs) \in Nat
    <2> HIDE DEF Rows
    <2> QED BY <1>1
  <1> QED
    BY <1>2 DEF Rows

\* A job that is due at t is clear of all its done runs.
LEMMA DueIsClear ==
    ASSUME TypeOK, NEW job \in Jobs, NEW t \in Nat, DueAt(job, t),
           NEW i, DoneRun(i, job)
    PROVE  Clear(job, runs[i].started, t)
  <1>1. runs[i].started \in DoneStarts(job)
    BY DEF DoneStarts, DoneRun
  <1>2. PICK last \in DoneStarts(job) :
          /\ \A other \in DoneStarts(job) : other <= last
          /\ IsDue(ScheduleOf[job], t, last)
    BY <1>1 DEF DueAt
  <1>3. \A u \in DoneStarts(job) : u \in Nat
    BY RowTypes DEF DoneStarts
  <1>4. last \in Nat /\ runs[i].started \in Nat /\ runs[i].started <= last
    BY <1>1, <1>2, <1>3
  <1>5. last # Never
    BY <1>4 DEF Never
  <1>6. Date(runs[i].started) \in Int /\ Date(last) \in Int
          /\ Date(runs[i].started) <= Date(last)
    BY <1>4, DatesAreOrdered
  <1>7. Date(t) \in Int
    BY DatesAreOrdered
  <1>8. ScheduleOf[job].every \in Nat
    BY JobsAssumption DEF Schedules
  <1> QED
    BY <1>2, <1>4, <1>5, <1>6, <1>7, <1>8 DEF Clear, IsDue

-----------------------------------------------------------------------------
\* No runs, every process idle.
LEMMA InitTypes == Init => TypeOK
  BY BoundsAssumption
  DEF Init, TypeOK, Idle, ProcessTypes, Phases, Triggers, Rows

\* A process record that is idle is well typed and has nothing planned.
LEMMA IdleTypes == Idle \in ProcessTypes /\ Idle.phase = "idle" /\ Idle.plan = {}
  BY DEF Idle, ProcessTypes, Phases, Triggers

\* Appending a row to job_runs leaves the earlier rows as they are.
LEMMA RowAppended ==
    ASSUME NEW table \in Seq(Rows), NEW row \in Rows
    PROVE  /\ Append(table, row) \in Seq(Rows)
           /\ Len(Append(table, row)) = Len(table) + 1
           /\ Len(table) \in Nat
           /\ DOMAIN table = 1..Len(table)
           /\ DOMAIN Append(table, row) = 1..(Len(table) + 1)
           /\ Append(table, row)[Len(table) + 1] = row
           /\ \A i \in DOMAIN table : Append(table, row)[i] = table[i]
  <1> HIDE DEF Rows
  <1> QED OBVIOUS

\* Replacing one process's record by a well-formed one keeps the types.
LEMMA ProcessReplaced ==
    ASSUME TypeOK, NEW p \in Processes, NEW w \in ProcessTypes,
           w.phase \in {"ready", "run"} <=> w.plan # {},
           process' = [process EXCEPT ![p] = w],
           now' \in 0..MaxTime, runs' \in Seq(Rows), faults' \in 0..MaxFaults
    PROVE  TypeOK'
  <1> HIDE DEF Rows, ProcessTypes
  <1> QED BY DEF TypeOK

\* Going keeps a record well formed: a cycle goes on only with a plan.
LEMMA GoingTypes ==
    ASSUME NEW w \in ProcessTypes, w.phase = "ready"
    PROVE  /\ Going(w) \in ProcessTypes
           /\ Going(w).phase \in {"ready", "run"} <=> Going(w).plan # {}
  <1>1. CASE w.plan = {}
    BY <1>1, IdleTypes DEF Going
  <1>2. CASE w.plan # {}
    BY <1>2 DEF Going
  <1> QED BY <1>1, <1>2

LEMMA StartedTypes ==
    ASSUME NEW r \in ProcessTypes, r.plan # {}, NEW n \in Nat
    PROVE  LET w == [r EXCEPT !.phase = "run", !.attempt = @ + 1, !.started = n]
           IN  w \in ProcessTypes /\ w.phase = "run" /\ w.plan # {}
  <1>1. r.attempt + 1 \in Nat
    BY DEF ProcessTypes
  <1>2. \A phase \in Phases, a \in Nat :
          LET w == [r EXCEPT !.phase = phase, !.attempt = a, !.started = n]
          IN  w \in ProcessTypes /\ w.phase = phase /\ w.plan = r.plan
    BY DEF ProcessTypes
  <1>3. "run" \in Phases
    BY DEF Phases
  <1> QED BY <1>1, <1>2, <1>3, Zenon

\* Every step keeps the types: a row is appended, or a process record replaced.
LEMMA NextTypes == TypeOK /\ [Next]_vars => TypeOK'
  <1> SUFFICES ASSUME TypeOK, [Next]_vars PROVE TypeOK'
    OBVIOUS
  <1>0. /\ now \in 0..MaxTime /\ now \in Nat
        /\ runs \in Seq(Rows) /\ Len(runs) \in Nat
        /\ faults \in 0..MaxFaults
        /\ \A p \in Processes : process[p] \in ProcessTypes
    <2> HIDE DEF Rows, ProcessTypes
    <2> QED BY BoundsAssumption DEF TypeOK
  <1>1. ASSUME NEW p \in Processes, BeginCycle(p) PROVE TypeOK'
    <2> DEFINE w == [Idle EXCEPT !.phase = "context", !.cycle = now]
    <2>1. w \in ProcessTypes /\ w.phase = "context" /\ w.plan = {}
      BY <1>0 DEF Idle, ProcessTypes, Phases, Triggers
    <2>2. process' = [process EXCEPT ![p] = w]
      BY <1>1 DEF BeginCycle
    <2> HIDE DEF w
    <2> QED BY <1>0, <1>1, <2>1, <2>2, ProcessReplaced DEF BeginCycle
  <1>2. ASSUME NEW p \in Processes, PlanCycle(p) PROVE TypeOK'
    <2> DEFINE w == Planned(process[p])
    <2>1. w \in ProcessTypes /\ w.phase = "ready"
      BY <1>0 DEF ProcessTypes, Phases, Planned
    <2>2. process' = [process EXCEPT ![p] = Going(w)]
      BY <1>2 DEF PlanCycle
    <2> HIDE DEF w
    <2>3. /\ Going(w) \in ProcessTypes
          /\ Going(w).phase \in {"ready", "run"} <=> Going(w).plan # {}
      BY <2>1, GoingTypes
    <2> QED BY <1>0, <1>2, <2>2, <2>3, ProcessReplaced DEF PlanCycle
  <1>3. ASSUME NEW p \in Processes, NEW job \in Jobs, RunManually(p, job)
        PROVE  TypeOK'
    <2> DEFINE w == [Idle EXCEPT !.phase = "ready", !.cycle = now,
                                 !.trigger = "manual", !.saw = Len(runs),
                                 !.plan = {job}]
    <2>1. w \in ProcessTypes /\ w.phase = "ready" /\ w.plan # {}
      BY <1>0 DEF Idle, ProcessTypes, Phases, Triggers
    <2>2. process' = [process EXCEPT ![p] = w]
      BY <1>3 DEF RunManually
    <2> HIDE DEF w
    <2> QED BY <1>0, <1>3, <2>1, <2>2, ProcessReplaced DEF RunManually
  <1>4. ASSUME NEW p \in Processes, StartAttempt(p) PROVE TypeOK'
    <2> DEFINE w == [process[p] EXCEPT !.phase = "run", !.attempt = @ + 1,
                                       !.started = now]
    <2>1. w \in ProcessTypes /\ w.phase = "run" /\ w.plan # {}
      <3>1. process[p] \in ProcessTypes /\ process[p].plan # {}
        BY <1>4 DEF StartAttempt, TypeOK
      <3>. QED  BY <1>0, <3>1, StartedTypes
    <2>2. process' = [process EXCEPT ![p] = w]
      BY <1>4 DEF StartAttempt
    <2> HIDE DEF w
    <2> QED BY <1>0, <1>4, <2>1, <2>2, ProcessReplaced DEF StartAttempt
  <1>5. ASSUME NEW p \in Processes, NEW job \in Jobs, NEW status \in Statuses,
               EndAttempt(p, job, status)
        PROVE  TypeOK'
    <2> DEFINE again == Again(process[p])
               onward == Without(process[p], job)
               w == IF TryAgain(p, status) THEN again ELSE Going(onward)
    <2>1. again \in ProcessTypes /\ again.phase = "ready" /\ again.plan # {}
      BY <1>0, <1>5 DEF ProcessTypes, Phases, EndAttempt, Current, Again
    <2>2. onward \in ProcessTypes /\ onward.phase = "ready"
      BY <1>0 DEF ProcessTypes, Phases, Without
    <2>3. process' = [process EXCEPT ![p] = w]
      BY <1>5 DEF EndAttempt
    <2> HIDE DEF again, onward
    <2>8. Going(onward) \in ProcessTypes
            /\ (Going(onward).phase \in {"ready", "run"} <=> Going(onward).plan # {})
      BY <2>2, GoingTypes
    <2>7. w \in ProcessTypes /\ (w.phase \in {"ready", "run"} <=> w.plan # {})
      BY <2>1, <2>8
    <2>4. RowOf(p, job, status) \in Rows
      BY <1>0 DEF RowOf, Rows, ProcessTypes
    <2>5. runs' \in Seq(Rows)
      BY <1>0, <1>5, <2>4, RowAppended DEF EndAttempt
    <2>6. now' \in 0..MaxTime /\ faults' \in 0..MaxFaults
      BY <1>0, <1>5, BoundsAssumption DEF EndAttempt
    <2> HIDE DEF w
    <2> QED BY <2>3, <2>7, <2>5, <2>6, ProcessReplaced
  <1>6. ASSUME NEW p \in Processes, LoseProcess(p) PROVE TypeOK'
    <2>1. process' = [process EXCEPT ![p] = Idle]
      BY <1>6 DEF LoseProcess
    <2>2. now' \in 0..MaxTime /\ runs' \in Seq(Rows) /\ faults' \in 0..MaxFaults
      BY <1>0, <1>6, BoundsAssumption DEF LoseProcess
    <2> QED BY <2>1, <2>2, IdleTypes, ProcessReplaced
  <1>7. CASE Tick
    <2> HIDE DEF Rows, ProcessTypes
    <2> QED BY <1>7, BoundsAssumption DEF Tick, TypeOK
  <1>8. CASE UNCHANGED vars
    BY <1>8 DEF vars, TypeOK
  <1> QED
    BY <1>1, <1>2, <1>3, <1>4, <1>5, <1>6, <1>7, <1>8 DEF Next, Step

\* The scheduler's state is always well typed, and a process has something to
\* run exactly while it is running a cycle.
THEOREM SchedulerTypes == Spec => []TypeOK
  <1>1. TypeOK /\ [Next]_vars => TypeOK'
    BY NextTypes
  <1> QED BY InitTypes, <1>1, PTL DEF Spec

-----------------------------------------------------------------------------
\* job_runs is append-only in every step: the clock and the table only grow.
Grows ==
    /\ now <= now'
    /\ \/ runs' = runs
       \/ \E row \in Rows : runs' = Append(runs, row)

\* No step rewrites a row of job_runs.
LEMMA OldRowsStay ==
    ASSUME TypeOK, Grows
    PROVE  /\ Len(runs) \in Nat /\ Len(runs') \in Nat /\ Len(runs) <= Len(runs')
           /\ DOMAIN runs = 1..Len(runs) /\ DOMAIN runs' = 1..Len(runs')
           /\ \A i \in DOMAIN runs : runs'[i] = runs[i]
  <1>1. runs \in Seq(Rows)
    BY DEF TypeOK
  <1>2. Len(runs) \in Nat /\ DOMAIN runs = 1..Len(runs)
    <2> HIDE DEF Rows
    <2> QED BY <1>1
  <1>3. CASE runs' = runs
    BY <1>2, <1>3
  <1>4. ASSUME NEW row \in Rows, runs' = Append(runs, row)
        PROVE  /\ Len(runs') = Len(runs) + 1 /\ DOMAIN runs' = 1..(Len(runs) + 1)
               /\ \A i \in DOMAIN runs : runs'[i] = runs[i]
    BY <1>1, <1>4, RowAppended
  <1>5. CASE \E row \in Rows : runs' = Append(runs, row)
    <2> PICK row \in Rows : runs' = Append(runs, row)
      BY <1>5
    <2>1. /\ Len(runs') = Len(runs) + 1 /\ DOMAIN runs' = 1..(Len(runs) + 1)
          /\ \A i \in DOMAIN runs : runs'[i] = runs[i]
      BY <1>4
    <2> QED BY <1>2, <2>1
  <1> QED BY <1>3, <1>5 DEF Grows

\* What a process may rely on stays true while the others go on.
LEMMA CarefulKept ==
    ASSUME TypeOK, now' \in Nat, Grows,
           NEW w \in ProcessTypes, Careful(w)
    PROVE  Careful(w)'
  <1>0. now \in Nat /\ w.cycle \in Nat /\ w.started \in Nat /\ w.saw \in Nat
    <2>1. now \in 0..MaxTime
      BY DEF TypeOK
    <2> QED BY <2>1, BoundsAssumption DEF ProcessTypes
  <1>1. /\ Len(runs) \in Nat /\ Len(runs') \in Nat /\ Len(runs) <= Len(runs')
        /\ DOMAIN runs = 1..Len(runs) /\ DOMAIN runs' = 1..Len(runs')
        /\ \A i \in DOMAIN runs : runs'[i] = runs[i]
    BY OldRowsStay
  <1>2. /\ w.cycle <= now' /\ w.started <= now'
        /\ w.phase = "run" => w.cycle <= w.started
        /\ w.saw <= Len(runs')
    <2>1. /\ w.cycle <= now /\ w.started <= now /\ w.saw <= Len(runs)
          /\ w.phase = "run" => w.cycle <= w.started
      BY Zenon DEF Careful
    <2>2. now <= now'
      BY Zenon DEF Grows
    <2> QED BY <1>0, <1>1, <2>1, <2>2
  <1>3. ASSUME w.trigger = "scheduled", NEW job \in w.plan, NEW i \in 1..w.saw,
               DoneRun(i, job)'
        PROVE  Clear(job, runs'[i].started, w.cycle)
    <2>1. i \in DOMAIN runs
      BY <1>0, <1>1 DEF Careful
    <2>2. runs'[i] = runs[i]
      BY <1>1, <2>1
    <2>3. DoneRun(i, job)
      BY <1>3, <2>1, <2>2 DEF DoneRun
    <2> QED BY <1>3, <2>2, <2>3 DEF Careful
  <1> QED
    BY <1>2, <1>3 DEF Careful, Clear

\* Rows written so far stay clear of one another.
LEMMA RowsClearKept ==
    ASSUME TypeOK, RowsClear, runs' = runs
    PROVE  RowsClear'
  BY DEF RowsClear, DoneRun, Clear

\* Every other process, and the one whose record becomes w, stays careful.
LEMMA AllCareful ==
    ASSUME IInv, now' \in Nat, Grows, NEW p \in Processes, NEW w,
           process' = [process EXCEPT ![p] = w], Careful(w)'
    PROVE  \A q \in Processes : Careful(process[q])'
  <1> SUFFICES ASSUME NEW q \in Processes PROVE Careful(process[q])'
    OBVIOUS
  <1>1. process \in [Processes -> ProcessTypes]
    BY DEF IInv, TypeOK
  <1>2. CASE q = p
    <2>1. process'[q] = w
      BY <1>1, <1>2
    <2> QED BY <2>1 DEF Careful, DoneRun, Clear
  <1>3. CASE q # p
    <2>1. process'[q] = process[q] /\ process[q] \in ProcessTypes
      BY <1>1, <1>3
    <2> DEFINE v == process[q]
    <2>2. Careful(v) /\ v \in ProcessTypes
      BY <2>1 DEF IInv
    <2> QED BY <2>1, <2>2, CarefulKept DEF IInv, Careful, DoneRun, Clear
  <1> QED BY <1>2, <1>3

\* An idle process is careful, whatever the time and the table.
LEMMA IdleCareful ==
    ASSUME now \in Nat, Len(runs) \in Nat
    PROVE  Careful(Idle)
  BY DEF Careful, Idle

\* Going on with a plan, or having none left, is careful if the plan is.
LEMMA GoingCareful ==
    ASSUME NEW w, Careful(w), now \in Nat, Len(runs) \in Nat
    PROVE  Careful(Going(w))
  <1>1. CASE w.plan = {}
    BY <1>1, IdleCareful DEF Going
  <1>2. CASE w.plan # {}
    BY <1>2 DEF Going
  <1> QED BY <1>1, <1>2

\* A freshly made plan is clear of every run in the table.
LEMMA PlannedCareful ==
    ASSUME TypeOK, NEW w \in ProcessTypes, Careful(w)
    PROVE  Careful(Planned(w))
  <1> DEFINE v == Planned(w)
  <1>1. /\ v.cycle = w.cycle /\ v.started = w.started /\ v.phase = "ready"
        /\ v.saw = Len(runs) /\ v.plan = {job \in Jobs : DueAt(job, w.cycle)}
    BY DEF Planned, ProcessTypes
  <1>2. w.cycle \in Nat
    BY DEF ProcessTypes
  <1>3. ASSUME NEW job \in v.plan, NEW i \in 1..v.saw, DoneRun(i, job)
        PROVE  Clear(job, runs[i].started, v.cycle)
    <2>1. job \in Jobs /\ DueAt(job, w.cycle)
      BY <1>1
    <2> QED BY <1>1, <1>2, <1>3, <2>1, DueIsClear
  <1>4. v.cycle <= now /\ v.started <= now
    BY <1>1 DEF Careful
  <1>5. Len(runs) \in Nat
    <2> HIDE DEF Rows
    <2> QED BY DEF TypeOK
  <1>6. v.saw <= Len(runs)
    BY <1>1, <1>5
  <1> HIDE DEF v
  <1>7. Careful(v)
    BY <1>1, <1>3, <1>4, <1>6 DEF Careful
  <1> QED BY <1>7 DEF v

\* Dropping the finished job and trying again both keep a process careful.
LEMMA AgainCareful ==
    ASSUME NEW w \in ProcessTypes, Careful(w), now \in Nat, NEW job
    PROVE  Careful(Again(w)) /\ Careful(Without(w, job))
  BY DEF Careful, Again, Without, ProcessTypes

\* The row a scheduled attempt writes is clear of the runs it could see.
LEMMA RowClear ==
    ASSUME IInv, NEW p \in Processes, NEW job \in Jobs, NEW status \in Statuses,
           EndAttempt(p, job, status)
    PROVE  RowsClear'
  <1> DEFINE row == RowOf(p, job, status)
             n == Len(runs)
             w == process[p]
  <1>0. TypeOK /\ Careful(w) /\ RowsClear /\ w \in ProcessTypes
    BY DEF IInv, TypeOK
  <1>1. /\ row.job = job /\ row.trigger = w.trigger /\ row.status = status
        /\ row.started = w.started /\ row.saw = w.saw
    BY DEF RowOf
  <1>2. row \in Rows
    BY <1>0 DEF RowOf, Rows, ProcessTypes
  <1>3. runs \in Seq(Rows) /\ runs' = Append(runs, row)
    BY <1>0 DEF TypeOK, EndAttempt
  <1> HIDE DEF row
  <1>4. /\ DOMAIN runs = 1..n /\ n \in Nat /\ DOMAIN runs' = 1..(n + 1)
        /\ runs'[n + 1] = row
        /\ \A i \in DOMAIN runs : runs'[i] = runs[i]
    BY <1>2, <1>3, RowAppended
  <1>5. /\ w.cycle \in Nat /\ w.started \in Nat /\ w.saw \in Nat
        /\ w.cycle <= w.started /\ job \in w.plan
    <2>1. w.cycle \in Nat /\ w.started \in Nat /\ w.saw \in Nat
      BY <1>0 DEF ProcessTypes
    <2>2. w.phase = "run" /\ job \in w.plan
      BY DEF EndAttempt, Current
    <2>3. w.cycle <= w.started
      BY <1>0, <2>2, Zenon DEF Careful
    <2> QED BY <2>1, <2>2, <2>3
  <1> SUFFICES ASSUME NEW i \in DOMAIN runs', NEW k \in DOMAIN runs', i < k,
                      runs'[k].status = "done", runs'[k].trigger = "scheduled",
                      i <= runs'[k].saw, runs'[i].job = runs'[k].job,
                      runs'[i].status = "done"
               PROVE  Clear(runs'[k].job, runs'[i].started, runs'[k].started)
    BY DEF RowsClear, DoneRun, Clear
  <1>6. i \in DOMAIN runs /\ runs'[i] = runs[i] /\ i \in Nat /\ i >= 1
    BY <1>4
  <1>7. runs[i].started \in Nat
    BY <1>0, <1>6, RowTypes
  <1>8. CASE k = n + 1
    <2>1. DoneRun(i, job)
      BY <1>1, <1>4, <1>6, <1>8 DEF DoneRun
    <2>2. i \in 1..w.saw /\ w.trigger = "scheduled"
      BY <1>1, <1>4, <1>5, <1>6, <1>8
    <2>3. Clear(job, runs[i].started, w.cycle)
      BY <1>0, <1>5, <2>1, <2>2, Zenon DEF Careful
    <2>4. Clear(job, runs[i].started, w.started)
      BY <1>5, <1>7, <2>3, ClearLater
    <2> QED BY <1>1, <1>4, <1>6, <1>8, <2>4
  <1>9. CASE k # n + 1
    <2>1. k \in DOMAIN runs /\ runs'[k] = runs[k]
      BY <1>4, <1>9
    <2>2. DoneRun(i, runs[k].job)
      BY <1>6, <2>1 DEF DoneRun
    <2> QED BY <1>0, <1>6, <2>1, <2>2 DEF RowsClear
  <1> QED BY <1>8, <1>9

\* The invariant is inductive: the decision a process made at its due check stays
\* good until its row is written.
LEMMA NextCareful == IInv /\ [Next]_vars => IInv'
  <1> SUFFICES ASSUME IInv, [Next]_vars PROVE IInv'
    OBVIOUS
  <1>0. TypeOK /\ RowsClear /\ (\A q \in Processes : Careful(process[q]))
    BY DEF IInv
  <1>1. TypeOK'
    BY <1>0, NextTypes
  <1>2. now \in Nat /\ now' \in Nat /\ Len(runs) \in Nat /\ Len(runs') \in Nat
    <2> HIDE DEF Rows
    <2>1. now \in 0..MaxTime /\ now' \in 0..MaxTime
            /\ runs \in Seq(Rows) /\ runs' \in Seq(Rows)
      BY <1>0, <1>1 DEF TypeOK
    <2> QED BY <2>1, BoundsAssumption
  <1>3. \A q \in Processes : process[q] \in ProcessTypes
    BY <1>0 DEF TypeOK
  <1>13. ASSUME NEW p \in Processes, NEW w \in ProcessTypes, Careful(w),
                process' = [process EXCEPT ![p] = w], Grows
         PROVE  \A q \in Processes : Careful(process[q])'
    <2>1. Careful(w)'
      BY <1>0, <1>2, <1>13, CarefulKept
    <2> QED BY <1>2, <1>13, <2>1, AllCareful
  \* A step that leaves the clock and the table alone and gives p the record w.
  <1>4. ASSUME NEW p \in Processes, NEW w, Careful(w),
               process' = [process EXCEPT ![p] = w], UNCHANGED <<now, runs>>
        PROVE  IInv'
    <2>1. Careful(w)'
      BY <1>4 DEF Careful, DoneRun, Clear
    <2>2. Grows
      BY <1>2, <1>4 DEF Grows
    <2>3. \A q \in Processes : Careful(process[q])'
      BY <1>2, <1>4, <2>1, <2>2, AllCareful
    <2>4. RowsClear'
      BY <1>0, <1>4, RowsClearKept
    <2> QED BY <1>1, <2>3, <2>4 DEF IInv
  <1>5. ASSUME NEW p \in Processes, BeginCycle(p) PROVE IInv'
    <2> DEFINE w == [Idle EXCEPT !.phase = "context", !.cycle = now]
    <2>1. Careful(w)
      BY <1>2 DEF Careful, Idle
    <2>2. process' = [process EXCEPT ![p] = w] /\ UNCHANGED <<now, runs>>
      BY <1>5 DEF BeginCycle
    <2> HIDE DEF w
    <2> QED BY <1>4, <2>1, <2>2
  <1>6. ASSUME NEW p \in Processes, PlanCycle(p) PROVE IInv'
    <2>1. Careful(Planned(process[p]))
      BY <1>0, <1>3, PlannedCareful
    <2>2. Careful(Going(Planned(process[p])))
      BY <1>2, <2>1, GoingCareful
    <2>3. /\ process' = [process EXCEPT ![p] = Going(Planned(process[p]))]
          /\ UNCHANGED <<now, runs>>
      BY <1>6 DEF PlanCycle
    <2> QED BY <1>4, <2>2, <2>3
  <1>7. ASSUME NEW p \in Processes, NEW job \in Jobs, RunManually(p, job)
        PROVE  IInv'
    <2> DEFINE w == [Idle EXCEPT !.phase = "ready", !.cycle = now,
                                 !.trigger = "manual", !.saw = Len(runs),
                                 !.plan = {job}]
    <2>1. Careful(w)
      BY <1>2 DEF Careful, Idle
    <2>2. process' = [process EXCEPT ![p] = w] /\ UNCHANGED <<now, runs>>
      BY <1>7 DEF RunManually
    <2> HIDE DEF w
    <2> QED BY <1>4, <2>1, <2>2
  <1>8. ASSUME NEW p \in Processes, StartAttempt(p) PROVE IInv'
    <2> DEFINE w == [process[p] EXCEPT !.phase = "run", !.attempt = @ + 1,
                                       !.started = now]
    <2>1. Careful(w)
      BY <1>0, <1>2, <1>3 DEF Careful, ProcessTypes
    <2>2. process' = [process EXCEPT ![p] = w] /\ UNCHANGED <<now, runs>>
      BY <1>8 DEF StartAttempt
    <2> HIDE DEF w
    <2> QED BY <1>4, <2>1, <2>2
  <1>9. ASSUME NEW p \in Processes, NEW job \in Jobs, NEW status \in Statuses,
               EndAttempt(p, job, status)
        PROVE  IInv'
    <2> DEFINE w == IF TryAgain(p, status) THEN Again(process[p])
                    ELSE Going(Without(process[p], job))
               row == RowOf(p, job, status)
    <2>1. Careful(Again(process[p])) /\ Careful(Without(process[p], job))
      BY <1>0, <1>2, <1>3, AgainCareful
    <2>2. Careful(Going(Without(process[p], job)))
      BY <1>2, <2>1, GoingCareful
    <2>3. Again(process[p]) \in ProcessTypes /\ w \in ProcessTypes
      <3>1. Again(process[p]) \in ProcessTypes
        BY <1>3 DEF Again, ProcessTypes, Phases
      <3>2. /\ Without(process[p], job) \in ProcessTypes
            /\ Without(process[p], job).phase = "ready"
        BY <1>3 DEF Without, ProcessTypes, Phases
      <3>3. Going(Without(process[p], job)) \in ProcessTypes
        BY <3>2, GoingTypes
      <3> QED BY <3>1, <3>3
    <2>4. Careful(w)
      BY <2>1, <2>2
    <2>5. row \in Rows
      BY <1>3 DEF RowOf, Rows, ProcessTypes
    <2>6. process' = [process EXCEPT ![p] = w] /\ runs' = Append(runs, row)
            /\ now' = now
      BY <1>9 DEF EndAttempt
    <2> HIDE DEF w, row
    <2>7. Grows
      BY <1>2, <2>5, <2>6 DEF Grows
    <2>9. \A q \in Processes : Careful(process[q])'
      BY <1>13, <2>3, <2>4, <2>6, <2>7
    <2>10. RowsClear'
      BY <1>9, RowClear
    <2> QED BY <1>1, <2>9, <2>10 DEF IInv
  <1>10. ASSUME NEW p \in Processes, LoseProcess(p) PROVE IInv'
    <2>1. process' = [process EXCEPT ![p] = Idle] /\ UNCHANGED <<now, runs>>
      BY <1>10 DEF LoseProcess
    <2> QED BY <1>2, <1>4, <2>1, IdleCareful
  <1>11. CASE Tick
    <2>1. Grows /\ runs' = runs /\ process' = process
      BY <1>2, <1>11 DEF Grows, Tick
    <2>2. ASSUME NEW q \in Processes PROVE Careful(process[q])'
      <3> DEFINE v == process[q]
      <3>1. v \in ProcessTypes /\ Careful(v)
        BY <1>0, <1>3
      <3> QED BY <1>0, <1>2, <2>1, <3>1, CarefulKept DEF Careful, DoneRun, Clear
    <2>3. RowsClear'
      BY <1>0, <2>1, RowsClearKept
    <2> QED BY <1>1, <2>2, <2>3 DEF IInv
  <1>12. CASE UNCHANGED vars
    BY <1>0, <1>1, <1>12 DEF vars, IInv, Careful, RowsClear, DoneRun, Clear
  <1> QED
    BY <1>5, <1>6, <1>7, <1>8, <1>9, <1>10, <1>11, <1>12 DEF Next, Step

\* Nothing is planned and nothing recorded at first.
LEMMA InitCareful == Init => IInv
  <1> SUFFICES ASSUME Init PROVE IInv
    OBVIOUS
  <1>1. TypeOK
    BY InitTypes
  <1>2. now = 0 /\ runs = <<>> /\ \A p \in Processes : process[p] = Idle
    BY DEF Init
  <1>3. \A p \in Processes : Careful(process[p])
    BY <1>2, IdleCareful
  <1>4. RowsClear
    BY <1>2 DEF RowsClear
  <1> QED BY <1>1, <1>3, <1>4 DEF IInv

\* Clear rows are not too soon one after the other.
LEMMA ClearIsEnough == IInv => NoEarlyRepeat
  <1> SUFFICES ASSUME IInv, NEW i \in DOMAIN runs, NEW k \in DOMAIN runs,
                      i < k, runs[i].job = runs[k].job,
                      runs[i].status = "done", runs[k].status = "done",
                      runs[k].trigger = "scheduled", TooSoon(runs[i], runs[k])
               PROVE  runs[k].saw < i
    BY DEF NoEarlyRepeat
  <1>1. TypeOK /\ RowsClear
    BY DEF IInv
  <1>2. /\ i \in Nat /\ runs[i].started \in Nat /\ runs[i].job \in Jobs
        /\ runs[k].started \in Nat /\ runs[k].saw \in Nat
    BY <1>1, RowTypes
  <1>3. DoneRun(i, runs[k].job)
    BY DEF DoneRun
  <1>4. SUFFICES ASSUME i <= runs[k].saw PROVE FALSE
    BY <1>2
  <1>5. Clear(runs[k].job, runs[i].started, runs[k].started)
    BY <1>1, <1>3, <1>4, Zenon DEF RowsClear
  <1>6. Date(runs[i].started) \in Int /\ Date(runs[k].started) \in Int
    BY <1>2, DatesAreOrdered
  <1>7. ScheduleOf[runs[k].job].every \in Nat
    BY <1>2, JobsAssumption DEF Schedules
  <1> QED BY <1>2, <1>5, <1>6, <1>7 DEF Clear, TooSoon

\* No scheduled run repeats a job whose run for the day (or the interval) its
\* due check could see, whatever crashes, retries and other processes do.
THEOREM NeverRepeatedEarly == Spec => []NoEarlyRepeat
  <1>1. IInv /\ [Next]_vars => IInv'
    BY NextCareful
  <1>2. Spec => []IInv
    BY InitCareful, <1>1, PTL DEF Spec
  <1> QED BY <1>2, ClearIsEnough, PTL
-----------------------------------------------------------------------------
(***************************************************************************)
(* The order of the nightly jobs.  A process that still has the daily      *)
(* report to run either has the market update to run before it, or found   *)
(* in the table, or wrote there itself, the row of a market update of its  *)
(* cycle's day.                                                            *)
(***************************************************************************)

\* A market update of this day or a later one has left its row.
Updated(table, day) ==
    \E i \in DOMAIN table : table[i].job = Market /\ Date(table[i].started) >= day

\* What a process may rely on, whatever it is doing.
InOrder(table, w) ==
    w.trigger = "scheduled" /\ "daily_report" \in w.plan /\ Market \notin w.plan
      => Updated(table, Date(w.cycle))

\* No row starts in the future.
RowsBehind == \A i \in DOMAIN runs : runs[i].started <= now

OrderInv ==
    /\ IInv
    /\ RowsBehind
    /\ \A p \in Processes : InOrder(runs, process[p])
    /\ PricesBeforeReport

\* A nonempty set of natural numbers has a least element.
LEMMA LeastNatural ==
    ASSUME NEW T, T \subseteq Nat, T # {}
    PROVE  \E i \in T : \A j \in T : i <= j
  <1>1. PICK i \in T : \A j \in T : ~(<<j, i>> \in OpToRel(<, Nat))
    BY NatLessThanWellFounded, WFMin
  <1>2. ASSUME NEW j \in T, j < i PROVE FALSE
    <2>1. <<j, i>> \in Nat \X Nat /\ <<j, i>>[1] < <<j, i>>[2]
      BY <1>1, <1>2
    <2>2. <<j, i>> \in OpToRel(<, Nat)
      BY <2>1, Zenon DEF OpToRel
    <2> QED BY <1>1, <1>2, <2>2
  <1> QED BY <1>2

\* A bounded one has a greatest: the least of its bounds belongs to it.
LEMMA GreatestNatural ==
    ASSUME NEW T, T \subseteq Nat, T # {}, NEW n \in Nat, \A x \in T : x <= n
    PROVE  \E i \in T : \A j \in T : j <= i
  <1> DEFINE B == {u \in Nat : \A x \in T : x <= u}
  <1>1. B \subseteq Nat /\ B # {} /\ \A u \in Nat : u \in B <=> \A x \in T : x <= u
    BY Zenon
  <1> HIDE DEF B
  <1>2. PICK u \in B : \A v \in B : u <= v
    BY <1>1, LeastNatural
  <1>3. u \in Nat /\ \A x \in T : x <= u
    BY <1>1, <1>2
  <1>4. SUFFICES ASSUME u \notin T PROVE FALSE
    BY <1>3
  <1>5. PICK y \in T : TRUE
    OBVIOUS
  <1>6. \A x \in T : x \in Nat /\ x <= u - 1
    BY <1>3, <1>4
  <1>7. u - 1 \in Nat
    BY <1>3, <1>5, <1>6
  <1>8. u - 1 \in B
    BY <1>1, <1>6, <1>7
  <1> QED BY <1>2, <1>3, <1>8

\* The market update is due whenever the report is, unless it is done: a cycle
\* that plans the report alone has seen the row of the day's market update.
LEMMA ReportFollowsUpdate ==
    ASSUME TypeOK, RowsBehind, now \in Nat, NEW t \in Nat,
           DueAt("daily_report", t), ~DueAt(Market, t)
    PROVE  Updated(runs, Date(t))
  <1> DEFINE starts == DoneStarts(Market)
  <1>1. TimeOfDay(t) \in Int
    BY DayLengthAssumption, Z3 DEF TimeOfDay
  <1>2. /\ ScheduleOf[Market].kind = "daily" /\ ScheduleOf[Market].at \in Nat
        /\ ScheduleOf["daily_report"].kind = "daily" /\ ScheduleOf["daily_report"].at \in Nat
        /\ ScheduleOf[Market].at <= ScheduleOf["daily_report"].at
    BY OrderAssumption, JobsAssumption DEF Schedules
  <1>3. TimeOfDay(t) >= ScheduleOf["daily_report"].at
    BY <1>2 DEF DueAt, IsDue
  <1>4. TimeOfDay(t) >= ScheduleOf[Market].at
    BY <1>1, <1>2, <1>3
  <1>5. starts # {}
    BY <1>2, <1>4 DEF DueAt, IsDue
  <1>6. \A x \in starts : x \in Nat /\ x <= now
    BY RowTypes DEF DoneStarts, RowsBehind
  <1> HIDE DEF starts
  <1>7. PICK last \in starts : \A other \in starts : other <= last
    BY <1>5, <1>6, GreatestNatural
  <1>8. ~IsDue(ScheduleOf[Market], t, last)
    BY <1>7 DEF DueAt, starts
  <1>9. ~(Date(last) < Date(t))
    BY <1>2, <1>4, <1>8 DEF IsDue
  <1>10. Date(last) \in Int /\ Date(t) \in Int
    BY <1>6, <1>7, DatesAreOrdered
  <1>11. PICK i \in DOMAIN runs : runs[i].job = Market /\ runs[i].started = last
    BY <1>7 DEF starts, DoneStarts
  <1> QED BY <1>9, <1>10, <1>11 DEF Updated

\* A market update's row stays in the table.
LEMMA StaysUpdated ==
    ASSUME TypeOK, Grows, NEW day, Updated(runs, day)
    PROVE  Updated(runs', day)
  <1>1. PICK i \in DOMAIN runs : runs[i].job = Market /\ Date(runs[i].started) >= day
    BY DEF Updated
  <1>2. i \in DOMAIN runs' /\ runs'[i] = runs[i]
    BY <1>1, OldRowsStay
  <1> QED BY <1>1, <1>2 DEF Updated

\* An idle process relies on nothing.
LEMMA IdleInOrder == InOrder(runs, Idle)
  BY DEF InOrder, Idle

\* Every other process, and the one whose record becomes w, stays in order.
LEMMA AllInOrder ==
    ASSUME OrderInv, Grows, NEW p \in Processes, NEW w,
           process' = [process EXCEPT ![p] = w], InOrder(runs', w)
    PROVE  \A q \in Processes : InOrder(runs', process'[q])
  <1> SUFFICES ASSUME NEW q \in Processes PROVE InOrder(runs', process'[q])
    OBVIOUS
  <1>1. TypeOK /\ process \in [Processes -> ProcessTypes] /\ InOrder(runs, process[q])
    BY DEF OrderInv, IInv, TypeOK
  <1>2. CASE q = p
    <2>1. process'[q] = w
      BY <1>1, <1>2
    <2> QED BY <2>1 DEF InOrder, Updated
  <1>3. CASE q # p
    <2>1. process'[q] = process[q]
      BY <1>1, <1>3
    <2> QED BY <1>1, <2>1, StaysUpdated DEF InOrder
  <1> QED BY <1>2, <1>3

\* The rows of the table as they were keep what OrderInv says of them.
LEMMA TableKept ==
    ASSUME OrderInv, runs' = runs, now \in Nat, now' \in Nat, now <= now'
    PROVE  RowsBehind' /\ PricesBeforeReport'
  <1>1. RowsBehind'
    <2> SUFFICES ASSUME NEW i \in DOMAIN runs PROVE runs[i].started <= now'
      BY DEF RowsBehind
    <2>1. runs[i].started <= now /\ runs[i].started \in Nat
      BY RowTypes DEF OrderInv, IInv, RowsBehind
    <2> QED BY <2>1
  <1>2. PricesBeforeReport'
    BY DEF OrderInv, PricesBeforeReport
  <1> QED BY <1>1, <1>2

\* The row an attempt leaves is behind the clock, and if it is a scheduled
\* daily report's, the market update's is already there.
LEMMA RowInOrder ==
    ASSUME OrderInv, NEW p \in Processes, NEW job \in Jobs, NEW status \in Statuses,
           EndAttempt(p, job, status), RowOf(p, job, status) \in Rows
    PROVE  /\ RowsBehind'
           /\ PricesBeforeReport'
           /\ job = Market => Updated(runs', Date(process[p].cycle))
  <1> DEFINE row == RowOf(p, job, status)
             w == process[p]
             n == Len(runs) + 1
  <1>1. /\ row.job = job /\ row.trigger = w.trigger /\ row.started = w.started
        /\ row.cycle = w.cycle
    BY DEF RowOf
  <1>2. /\ TypeOK /\ Careful(w) /\ InOrder(runs, w) /\ RowsBehind /\ PricesBeforeReport
        /\ w.phase = "run" /\ Current(p, job) /\ now' = now /\ runs' = Append(runs, row)
    BY DEF OrderInv, IInv, EndAttempt
  <1>3. w \in ProcessTypes /\ runs \in Seq(Rows)
    BY <1>2 DEF TypeOK
  <1>4. w.cycle \in Nat /\ w.started \in Nat /\ w.cycle <= w.started /\ w.started <= now
    BY <1>2, <1>3 DEF ProcessTypes, Careful
  <1> HIDE DEF row, w
  <1>5. /\ Len(runs) \in Nat /\ DOMAIN runs = 1..Len(runs) /\ DOMAIN runs' = 1..n
        /\ runs'[n] = row /\ \A i \in DOMAIN runs : runs'[i] = runs[i]
    BY <1>2, <1>3, RowAppended DEF row
  <1>6. RowsBehind'
    BY <1>1, <1>2, <1>4, <1>5 DEF RowsBehind
  <1>7. Date(w.cycle) \in Int /\ Date(w.started) \in Int /\ Date(w.cycle) <= Date(w.started)
    BY <1>4, DatesAreOrdered
  <1>8. ASSUME job = Market PROVE Updated(runs', Date(w.cycle))
    <2>1. n \in DOMAIN runs' /\ runs'[n].job = Market /\ Date(runs'[n].started) >= Date(w.cycle)
      BY <1>1, <1>5, <1>7, <1>8
    <2> QED BY <2>1 DEF Updated
  <1>9. ASSUME NEW k \in DOMAIN runs', runs'[k].job = "daily_report",
               runs'[k].trigger = "scheduled"
        PROVE  \E i \in 1..(k - 1) : /\ runs'[i].job = Market
                                     /\ Date(runs'[i].started) >= Date(runs'[k].cycle)
    <2>1. CASE k # n
      <3>1. k \in DOMAIN runs /\ runs'[k] = runs[k]
        BY <1>5, <2>1
      <3>2. PICK i \in 1..(k - 1) :
              runs[i].job = Market /\ Date(runs[i].started) >= Date(runs[k].cycle)
        BY <1>2, <1>9, <3>1 DEF PricesBeforeReport
      <3>3. i \in DOMAIN runs
        BY <1>5, <3>1, <3>2
      <3>4. runs'[i] = runs[i]
        BY <1>5, <3>3
      <3> QED BY <3>1, <3>2, <3>4
    <2>2. CASE k = n
      <3>1. job = "daily_report" /\ w.trigger = "scheduled"
        BY <1>1, <1>5, <1>9, <2>2
      <3>2. Market \notin w.plan /\ "daily_report" \in w.plan
        <4>1. Rank[Market] \in Int /\ Rank["daily_report"] \in Int
                /\ Rank[Market] < Rank["daily_report"]
          BY OrderAssumption, JobsAssumption
        <4>2. "daily_report" \in w.plan
                /\ \A other \in w.plan : Rank["daily_report"] <= Rank[other]
          BY <1>2, <3>1 DEF Current, w
        <4> QED BY <4>1, <4>2
      <3>3. Updated(runs, Date(w.cycle))
        BY <1>2, <3>1, <3>2 DEF InOrder
      <3>4. PICK i \in DOMAIN runs :
              runs[i].job = Market /\ Date(runs[i].started) >= Date(w.cycle)
        BY <3>3 DEF Updated
      <3>5. runs'[i] = runs[i] /\ runs'[k].cycle = w.cycle
        BY <1>1, <1>5, <2>2, <3>4
      <3>6. i \in 1..(k - 1)
        BY <1>5, <2>2, <3>4
      <3> QED BY <3>4, <3>5, <3>6
    <2> QED BY <2>1, <2>2
  <1>10. PricesBeforeReport'
    BY <1>9 DEF PricesBeforeReport
  <1> QED BY <1>6, <1>8, <1>10 DEF w

\* The order is kept by every step.
LEMMA NextInOrder == OrderInv /\ [Next]_vars => OrderInv'
  <1> SUFFICES ASSUME OrderInv, [Next]_vars PROVE OrderInv'
    OBVIOUS
  <1>0. IInv /\ TypeOK /\ IInv' /\ TypeOK'
    BY NextCareful DEF OrderInv, IInv
  <1>1. now \in Nat /\ now' \in Nat
    BY <1>0, BoundsAssumption DEF TypeOK
  <1>2. \A q \in Processes : process[q] \in ProcessTypes /\ InOrder(runs, process[q])
    BY <1>0 DEF TypeOK, OrderInv
  <1>3. ASSUME NEW p \in Processes, NEW w, InOrder(runs', w),
               process' = [process EXCEPT ![p] = w], UNCHANGED <<now, runs>>
        PROVE  OrderInv'
    <2>1. Grows
      BY <1>1, <1>3 DEF Grows
    <2> QED BY <1>0, <1>1, <1>3, <2>1, AllInOrder, TableKept DEF OrderInv
  <1>4. ASSUME NEW p \in Processes, BeginCycle(p) PROVE OrderInv'
    <2> DEFINE w == [Idle EXCEPT !.phase = "context", !.cycle = now]
    <2>1. InOrder(runs', w)
      BY DEF InOrder, Idle
    <2>2. process' = [process EXCEPT ![p] = w] /\ UNCHANGED <<now, runs>>
      BY <1>4 DEF BeginCycle
    <2> HIDE DEF w
    <2> QED BY <1>3, <2>1, <2>2
  <1>5. ASSUME NEW p \in Processes, PlanCycle(p) PROVE OrderInv'
    <2> DEFINE v == Planned(process[p])
    <2>1. v.cycle \in Nat /\ v.cycle = process[p].cycle
            /\ v.plan = {job \in Jobs : DueAt(job, v.cycle)}
      BY <1>2 DEF Planned, ProcessTypes
    <2>2. process' = [process EXCEPT ![p] = Going(v)] /\ UNCHANGED <<now, runs>>
      BY <1>5 DEF PlanCycle
    <2> HIDE DEF v
    <2>3. ASSUME "daily_report" \in v.plan, Market \notin v.plan
          PROVE  Updated(runs, Date(v.cycle))
      <3>1. DueAt("daily_report", v.cycle) /\ ~DueAt(Market, v.cycle)
        BY <2>1, <2>3, OrderAssumption
      <3> QED BY <1>0, <1>1, <2>1, <3>1, ReportFollowsUpdate DEF OrderInv
    <2>4. Going(v) = v \/ Going(v) = Idle
      BY DEF Going
    <2>5. InOrder(runs, Going(v))
      BY <2>3, <2>4, IdleInOrder DEF InOrder
    <2> DEFINE u == Going(v)
    <2>6. InOrder(runs', u)
      BY <2>2, <2>5 DEF InOrder, Updated
    <2> HIDE DEF u
    <2>7. process' = [process EXCEPT ![p] = u]
      BY <2>2 DEF u
    <2> QED BY <1>3, <2>2, <2>6, <2>7
  <1>6. ASSUME NEW p \in Processes, NEW job \in Jobs, RunManually(p, job) PROVE OrderInv'
    <2> DEFINE w == [Idle EXCEPT !.phase = "ready", !.cycle = now,
                                 !.trigger = "manual", !.saw = Len(runs),
                                 !.plan = {job}]
    <2>1. InOrder(runs', w)
      BY DEF InOrder, Idle
    <2>2. process' = [process EXCEPT ![p] = w] /\ UNCHANGED <<now, runs>>
      BY <1>6 DEF RunManually
    <2> HIDE DEF w
    <2> QED BY <1>3, <2>1, <2>2
  <1>7. ASSUME NEW p \in Processes, StartAttempt(p) PROVE OrderInv'
    <2> DEFINE w == [process[p] EXCEPT !.phase = "run", !.attempt = @ + 1,
                                       !.started = now]
    <2>1. w.trigger = process[p].trigger /\ w.plan = process[p].plan
            /\ w.cycle = process[p].cycle
      BY <1>2 DEF ProcessTypes
    <2>2. process' = [process EXCEPT ![p] = w] /\ UNCHANGED <<now, runs>>
      BY <1>7 DEF StartAttempt
    <2> HIDE DEF w
    <2>3. InOrder(runs', w)
      BY <1>2, <2>1, <2>2 DEF InOrder, Updated
    <2> QED BY <1>3, <2>2, <2>3
  <1>8. ASSUME NEW p \in Processes, NEW job \in Jobs, NEW status \in Statuses,
               EndAttempt(p, job, status)
        PROVE  OrderInv'
    <2> DEFINE again == Again(process[p])
               onward == Without(process[p], job)
               w == IF TryAgain(p, status) THEN again ELSE Going(onward)
    <2>1. /\ again.trigger = process[p].trigger /\ again.plan = process[p].plan
          /\ again.cycle = process[p].cycle
          /\ onward.trigger = process[p].trigger /\ onward.plan = process[p].plan \ {job}
          /\ onward.cycle = process[p].cycle
      BY <1>2 DEF ProcessTypes, Again, Without
    <2>2. process' = [process EXCEPT ![p] = w] /\ now' = now
      BY <1>8 DEF EndAttempt
    <2>3. RowOf(p, job, status) \in Rows
      BY <1>2, <1>8 DEF RowOf, Rows, ProcessTypes
    <2>4. /\ RowsBehind' /\ PricesBeforeReport'
          /\ job = Market => Updated(runs', Date(process[p].cycle))
      BY <1>8, <2>3, RowInOrder
    <2>5. Grows
      BY <1>1, <1>8, <2>2, <2>3 DEF Grows, EndAttempt
    <2>6. Updated(runs, Date(process[p].cycle)) => Updated(runs', Date(process[p].cycle))
      BY <1>0, <2>5, StaysUpdated
    <2> HIDE DEF again, onward
    <2>7. InOrder(runs', again)
      BY <1>2, <2>1, <2>6 DEF InOrder
    <2>8. InOrder(runs', onward)
      BY <1>2, <2>1, <2>4, <2>6 DEF InOrder
    <2>9. w = again \/ w = onward \/ w = Idle
      BY DEF Going
    <2> HIDE DEF w
    <2>10. InOrder(runs', w)
      BY <2>7, <2>8, <2>9, IdleInOrder DEF InOrder, Idle
    <2> QED BY <1>0, <2>2, <2>4, <2>5, <2>10, AllInOrder DEF OrderInv
  <1>9. ASSUME NEW p \in Processes, LoseProcess(p) PROVE OrderInv'
    <2>1. process' = [process EXCEPT ![p] = Idle] /\ UNCHANGED <<now, runs>>
      BY <1>9 DEF LoseProcess
    <2>2. InOrder(runs', Idle)
      BY DEF InOrder, Idle
    <2> QED BY <1>3, <2>1, <2>2
  <1>10. CASE Tick
    <2>1. process' = process /\ runs' = runs /\ now <= now'
      BY <1>1, <1>10 DEF Tick
    <2>2. \A q \in Processes : InOrder(runs', process'[q])
      BY <1>2, <2>1 DEF InOrder, Updated
    <2> QED BY <1>0, <1>1, <2>1, <2>2, TableKept DEF OrderInv
  <1>11. CASE UNCHANGED vars
    <2>1. process' = process /\ runs' = runs /\ now' = now
      BY <1>11 DEF vars
    <2>2. \A q \in Processes : InOrder(runs', process'[q])
      BY <1>2, <2>1 DEF InOrder, Updated
    <2> QED BY <1>0, <1>1, <2>1, <2>2, TableKept DEF OrderInv
  <1> QED
    BY <1>4, <1>5, <1>6, <1>7, <1>8, <1>9, <1>10, <1>11 DEF Next, Step

\* Nothing is planned and nothing recorded at first.
LEMMA InitInOrder == Init => OrderInv
  <1> SUFFICES ASSUME Init PROVE OrderInv
    OBVIOUS
  <1>1. runs = <<>> /\ \A p \in Processes : process[p] = Idle
    BY DEF Init
  <1>2. RowsBehind /\ PricesBeforeReport
    BY <1>1 DEF RowsBehind, PricesBeforeReport
  <1> QED BY <1>1, <1>2, InitCareful, IdleInOrder DEF OrderInv

\* Whatever the worker, its replicas, an operator's runs, failures and crashes
\* do, a scheduled daily report comes after a market update of its day.
THEOREM PricesComeFirst == Spec => []PricesBeforeReport
  <1>1. OrderInv /\ [Next]_vars => OrderInv'
    BY NextInOrder
  <1>2. OrderInv => PricesBeforeReport
    BY DEF OrderInv
  <1> QED BY InitInOrder, <1>1, <1>2, PTL DEF Spec

-----------------------------------------------------------------------------
(***************************************************************************)
(* What the jobs leave behind.  Every step of NightNext is a step of the   *)
(* scheduler or leaves it alone, so that the order above holds here too.   *)
(* A report tells of its period and, of what was recorded before it was    *)
(* made, leaves nothing out; a day has bars exactly when a market update   *)
(* that found some is in the table.                                        *)
(***************************************************************************)

\* A report as it is at time t, with these records in the tables.
Told(records, t, n) ==
    /\ n.kind \in Kinds /\ n.end \in Nat /\ n.start = FirstDay(n.kind, n.end)
    /\ n.at \in Nat /\ n.at <= t
    /\ \A e \in n.shown : e.table \in DatedTables(n.kind) => InWindow(e.at, n.start..n.end)
    /\ \A e \in records :
         e.table \in DatedTables(n.kind) /\ InWindow(e.at, n.start..n.end) /\ e.at < n.at
           => e \in n.shown

\* A market update that found bars.
Served(row) == row.job = Market /\ row.status = "done" /\ Date(row.cycle) \in ServedDays

BarsTell ==
    /\ closes \in [Assets -> SUBSET Nat]
    /\ \A a \in Assets : \A day \in closes[a] :
         \E i \in DOMAIN runs : Served(runs[i]) /\ Date(runs[i].cycle) = day
    /\ \A i \in DOMAIN runs :
         Served(runs[i]) => \A a \in Assets : Date(runs[i].cycle) \in closes[a]

NightInv ==
    /\ OrderInv
    /\ \A e \in entries : e.at \in Nat
    /\ \A n \in vault : Told(entries, now, n)
    /\ BarsTell

\* A calendar day is a natural number.
LEMMA DatesAreDays == ASSUME NEW t \in Nat PROVE Date(t) \in Nat
  BY DayLengthAssumption, Z3 DEF Date

\* Which tables each kind of report selects by its period.
LEMMA TablesOfKinds ==
    /\ DatedTables("daily") = {"signal", "document", "review"}
    /\ DatedTables("weekly") = {"signal", "document", "review", "closed_trade", "item"}
    /\ DatedTables("monthly") = {"signal", "document", "review", "closed_trade"}
  BY DEF DatedTables

\* What a report shows in the sections it selects by its period, and no others.
ShownFrom(shown, kind, window) ==
    \A table \in DatedTables(kind) :
      \A e : e.table = table => (e \in shown <=> e \in Windowed(table, window))

\* A record is in the part of a table it belongs to, if it is in the window.
LEMMA InItsPart ==
    ASSUME NEW table, NEW window, NEW e
    PROVE  e \in Windowed(table, window)
             <=> e \in entries /\ e.table = table /\ InWindow(e.at, window)
  BY DEF Windowed

\* The sections of each kind cover its dated tables; the regime, the pending
\* entries and the learning review are not among them.
LEMMA SectionsCover ==
    ASSUME NEW kind \in Kinds, NEW asOf, NEW at
    PROVE  ShownFrom(Build(kind, asOf, at).shown, kind, FirstDay(kind, asOf)..asOf)
  <1> DEFINE window == FirstDay(kind, asOf)..asOf
             shown == Build(kind, asOf, at).shown
  <1>1. \A e : e \in RegimeSection => e.table = "regime"
    BY DEF RegimeSection
  <1>2. \A e : e \in LearningSection => e.table = "learning"
    BY DEF LearningSection
  <1>3. \A e : e \in ResearchSection(window)
                 <=> e \in Windowed("document", window) \/ (e \in entries /\ e.table = "pending")
    BY DEF ResearchSection
  <1>4. CASE kind = "daily"
    <2>1. shown = RegimeSection \cup SignalsSection(window) \cup ResearchSection(window)
                    \cup ThesisSection(window)
      BY <1>4 DEF Build
    <2> HIDE DEF window, shown
    <2>2. ShownFrom(shown, kind, window)
      BY <1>1, <1>3, <1>4, <2>1, InItsPart, TablesOfKinds
      DEF ShownFrom, SignalsSection, ThesisSection
    <2> QED BY <2>2 DEF window, shown
  <1>5. CASE kind = "weekly"
    <2>1. shown = RegimeSection \cup SignalsSection(window) \cup ResearchSection(window)
                    \cup ThesisSection(window) \cup TradeSection(window)
                    \cup WatchlistSection(window)
      BY <1>5 DEF Build
    <2> HIDE DEF window, shown
    <2>2. ShownFrom(shown, kind, window)
      BY <1>1, <1>3, <1>5, <2>1, InItsPart, TablesOfKinds
      DEF ShownFrom, SignalsSection, ThesisSection, TradeSection, WatchlistSection
    <2> QED BY <2>2 DEF window, shown
  <1>6. CASE kind = "monthly"
    <2>1. shown = RegimeSection \cup SignalsSection(window) \cup ResearchSection(window)
                    \cup ThesisSection(window) \cup TradeSection(window)
                    \cup LearningSection
      BY <1>6 DEF Build
    <2> HIDE DEF window, shown
    <2>2. ShownFrom(shown, kind, window)
      BY <1>1, <1>2, <1>3, <1>6, <2>1, InItsPart, TablesOfKinds
      DEF ShownFrom, SignalsSection, ThesisSection, TradeSection
    <2> QED BY <2>2 DEF window, shown
  <1> QED BY <1>4, <1>5, <1>6 DEF Kinds

\* A report tells all there is when it is made.
LEMMA BuildTells ==
    ASSUME NEW kind \in Kinds, NEW asOf \in Nat, NEW at \in Nat
    PROVE  Told(entries, at, Build(kind, asOf, at))
  <1> DEFINE n == Build(kind, asOf, at)
             window == FirstDay(kind, asOf)..asOf
  <1>1. /\ n.kind = kind /\ n.end = asOf /\ n.start = FirstDay(kind, asOf) /\ n.at = at
        /\ n.start..n.end = window
    BY DEF Build
  <1>2. ShownFrom(n.shown, kind, window)
    BY SectionsCover
  <1> HIDE DEF n, window
  <1>3. ASSUME NEW e \in n.shown, e.table \in DatedTables(n.kind)
        PROVE  InWindow(e.at, n.start..n.end)
    <2>1. e \in Windowed(e.table, window)
      BY <1>1, <1>2, <1>3 DEF ShownFrom
    <2> QED BY <1>1, <2>1, InItsPart
  <1>4. ASSUME NEW e \in entries, e.table \in DatedTables(n.kind),
               InWindow(e.at, n.start..n.end)
        PROVE  e \in n.shown
    <2>1. e \in Windowed(e.table, window)
      BY <1>1, <1>4, InItsPart
    <2> QED BY <1>1, <1>2, <1>4, <2>1 DEF ShownFrom
  <1>5. Told(entries, at, n)
    BY <1>1, <1>3, <1>4 DEF Told
  <1> QED BY <1>5 DEF n

\* What is recorded after a report was made takes nothing from it.
LEMMA ToldLater ==
    ASSUME NEW records, NEW later, NEW t \in Nat, NEW u \in Nat, t <= u, NEW n,
           Told(records, t, n), \A e \in later : e \in records \/ e.at = t
    PROVE  Told(later, u, n)
  <1>1. n.at \in Nat /\ n.at <= t /\ n.at <= u
    BY DEF Told
  <1>2. \A e \in later : e.at < n.at => e \in records
    BY <1>1
  <1> QED BY <1>1, <1>2, Zenon DEF Told

\* Publishing a report that tells all leaves only such reports.
LEMMA VaultTold ==
    ASSUME NEW report, \A n \in vault : Told(entries, now, n), Told(entries, now, report)
    PROVE  \A n \in Publish(report) : Told(entries, now, n)
  BY DEF Publish

-----------------------------------------------------------------------------
\* A row that serves a day comes with its bars; any other row changes nothing.
LEMMA BarsAppended ==
    ASSUME TypeOK, BarsTell, NEW row \in Rows, runs' = Append(runs, row),
           \/ ~Served(row) /\ closes' = closes
           \/ /\ Served(row)
              /\ closes' = [a \in Assets |-> closes[a] \cup {Date(row.cycle)}]
    PROVE  BarsTell'
  <1> DEFINE n == Len(runs) + 1
  <1>1. runs \in Seq(Rows) /\ row.cycle \in Nat
    BY DEF TypeOK, Rows
  <1>2. /\ Len(runs) \in Nat /\ DOMAIN runs = 1..Len(runs) /\ DOMAIN runs' = 1..n
        /\ runs'[n] = row /\ \A i \in DOMAIN runs : runs'[i] = runs[i]
    BY <1>1, RowAppended
  <1>3. n \in DOMAIN runs' /\ \A i \in DOMAIN runs : i \in DOMAIN runs'
    BY <1>2
  <1>4. \A i \in DOMAIN runs' : i \in DOMAIN runs \/ i = n
    BY <1>2
  <1> HIDE DEF n
  <1>5. Date(row.cycle) \in Nat
    BY <1>1, DatesAreDays
  <1>6. closes' \in [Assets -> SUBSET Nat]
    BY <1>5 DEF BarsTell
  <1>7. \A a \in Assets : closes'[a] = closes[a] \/
          (Served(row) /\ closes'[a] = closes[a] \cup {Date(row.cycle)})
    BY DEF BarsTell
  <1>8. \A a \in Assets : closes[a] \subseteq closes'[a]
          /\ (Served(row) => Date(row.cycle) \in closes'[a])
    BY DEF BarsTell
  <1>9. ASSUME NEW a \in Assets, NEW day \in closes'[a]
        PROVE  \E i \in DOMAIN runs' : Served(runs'[i]) /\ Date(runs'[i].cycle) = day
    <2>1. CASE day \in closes[a]
      <3>1. PICK i \in DOMAIN runs : Served(runs[i]) /\ Date(runs[i].cycle) = day
        BY <2>1 DEF BarsTell
      <3> QED BY <1>2, <1>3, <3>1
    <2>2. CASE Served(row) /\ day = Date(row.cycle)
      BY <1>2, <1>3, <2>2
    <2> QED BY <1>7, <1>9, <2>1, <2>2
  <1>10. ASSUME NEW i \in DOMAIN runs', Served(runs'[i]), NEW a \in Assets
         PROVE  Date(runs'[i].cycle) \in closes'[a]
    <2>1. CASE i \in DOMAIN runs
      <3>1. runs'[i] = runs[i] /\ Date(runs[i].cycle) \in closes[a]
        BY <1>2, <1>10, <2>1 DEF BarsTell
      <3> QED BY <1>8, <3>1
    <2>2. CASE i = n
      BY <1>2, <1>8, <1>10, <2>2
    <2> QED BY <1>4, <2>1, <2>2
  <1> QED BY <1>6, <1>9, <1>10 DEF BarsTell, Served

\* The jobs' own tables are nothing to the scheduler.
LEMMA NightIsScheduled == NightNext => [Next]_vars
  <1> SUFFICES ASSUME NightNext PROVE [Next]_vars
    OBVIOUS
  <1>1. ASSUME NEW p \in Processes, Work(p) PROVE Next
    BY <1>1 DEF Work, Next, Step
  <1>2. ASSUME NEW p \in Processes, NEW job \in Jobs, NEW status \in Statuses,
               EndAttempt(p, job, status)
        PROVE  Next
    BY <1>2 DEF Next, Step
  <1>3. ASSUME NEW p \in Processes, End(p) PROVE Next
    <2>1. Market \in Jobs /\ "done" \in Statuses
      BY OrderAssumption DEF Statuses
    <2> QED BY <1>2, <1>3, <2>1 DEF End, EndMarket, EndQuietly, EndReport
  <1>4. ASSUME NEW p \in Processes, Die(p) PROVE Next
    BY <1>4 DEF Die, Next
  <1>5. ASSUME Tick PROVE Next
    BY <1>5 DEF Next
  <1>6. ASSUME Happens PROVE UNCHANGED vars
    BY <1>6 DEF Happens
  <1> QED BY <1>1, <1>3, <1>4, <1>5, <1>6 DEF NightNext, Record, Fill, LoseFill

\* Each report job writes a report of its kind.
LEMMA ReportKinds == \A job \in DOMAIN ReportOf : ReportOf[job] \in Kinds /\ job # Market
  BY DEF ReportOf, Kinds, Market

\* What a report job publishes tells all there is.
LEMMA ReportTells ==
    ASSUME TypeOK, NEW p \in Processes, NEW job \in DOMAIN ReportOf
    PROVE  Told(entries, now, Report(p, job))
  <1>1. now \in Nat /\ process[p].cycle \in Nat
    BY BoundsAssumption DEF TypeOK, ProcessTypes
  <1>2. Date(process[p].cycle) \in Nat
    BY <1>1, DatesAreDays
  <1> QED BY <1>1, <1>2, ReportKinds, BuildTells DEF Report

\* A step that adds neither a row nor a bar leaves the trail as telling as it was.
LEMMA BarsKept == BarsTell /\ runs' = runs /\ closes' = closes => BarsTell'
  BY DEF BarsTell

\* The end of an attempt: its row and the bars that come with it.
LEMMA EndTellsBars ==
    ASSUME TypeOK, BarsTell, NEW p \in Processes, End(p)
    PROVE  BarsTell'
  <1>1. ASSUME NEW job \in Jobs, NEW status \in Statuses, EndAttempt(p, job, status)
        PROVE  /\ RowOf(p, job, status) \in Rows
               /\ runs' = Append(runs, RowOf(p, job, status))
               /\ RowOf(p, job, status).job = job /\ RowOf(p, job, status).status = status
               /\ RowOf(p, job, status).cycle = process[p].cycle
    <2>1. process[p] \in ProcessTypes
      BY DEF TypeOK
    <2>2. RowOf(p, job, status) \in Rows
      BY <1>1, <2>1 DEF RowOf, Rows, ProcessTypes
    <2> QED BY <1>1, <2>2 DEF EndAttempt, RowOf
  <1>2. CASE EndMarket(p)
    <2> DEFINE row == RowOf(p, Market, "done")
    <2>1. Market \in Jobs /\ "done" \in Statuses
      BY OrderAssumption DEF Statuses
    <2>2. /\ row \in Rows /\ runs' = Append(runs, row)
          /\ row.job = Market /\ row.status = "done" /\ row.cycle = process[p].cycle
      BY <1>1, <1>2, <2>1 DEF EndMarket
    <2> HIDE DEF row
    <2>3. Served(row) /\ closes' = [a \in Assets |-> closes[a] \cup {Date(row.cycle)}]
      BY <1>2, <2>2 DEF EndMarket, Served
    <2> QED BY <2>2, <2>3, BarsAppended
  <1>3. ASSUME NEW job \in Jobs, NEW status \in Statuses,
               EndQuietly(p, job, status) \/ EndReport(p, job, status)
        PROVE  BarsTell'
    <2> DEFINE row == RowOf(p, job, status)
    <2>1. EndAttempt(p, job, status) /\ closes' = closes
      BY <1>3 DEF EndQuietly, EndReport
    <2>2. /\ row \in Rows /\ runs' = Append(runs, row)
          /\ row.job = job /\ row.status = status /\ row.cycle = process[p].cycle
      BY <1>1, <2>1
    <2> HIDE DEF row
    <2>3. ~Served(row)
      BY <1>3, <2>2, ReportKinds DEF EndQuietly, EndReport, Served
    <2> QED BY <2>1, <2>2, <2>3, BarsAppended
  <1> QED BY <1>2, <1>3 DEF End

\* The reports in the vault after the end of an attempt.
LEMMA EndTells ==
    ASSUME TypeOK, \A n \in vault : Told(entries, now, n), NEW p \in Processes, End(p)
    PROVE  entries' = entries /\ now' = now /\ \A n \in vault' : Told(entries, now, n)
  <1>1. CASE EndMarket(p)
    BY <1>1 DEF EndMarket, EndAttempt, desk
  <1>2. ASSUME NEW job \in Jobs, NEW status \in Statuses, EndQuietly(p, job, status)
        PROVE  entries' = entries /\ now' = now /\ vault' = vault
    BY <1>2 DEF EndQuietly, EndAttempt, desk
  <1>3. ASSUME NEW job \in Jobs, NEW status \in Statuses, EndReport(p, job, status)
        PROVE  /\ entries' = entries /\ now' = now
               /\ \A n \in vault' : Told(entries, now, n)
    <2>1. /\ job \in DOMAIN ReportOf /\ vault' = Publish(Report(p, job))
          /\ entries' = entries /\ now' = now
      BY <1>3 DEF EndReport, EndAttempt, desk
    <2>2. Told(entries, now, Report(p, job))
      BY <2>1, ReportTells
    <2> QED BY <2>1, <2>2, VaultTold
  <1> QED BY <1>1, <1>2, <1>3 DEF End

\* The reports in the vault after a process died, perhaps with one just written.
LEMMA DeathTells ==
    ASSUME TypeOK, \A n \in vault : Told(entries, now, n), NEW p \in Processes, Die(p)
    PROVE  /\ entries' = entries /\ now' = now /\ runs' = runs /\ closes' = closes
           /\ \A n \in vault' : Told(entries, now, n)
  <1>1. entries' = entries /\ now' = now /\ runs' = runs /\ closes' = closes
    BY DEF Die, LoseProcess, desk
  <1>2. vault' = vault \/ \E job \in DOMAIN ReportOf : vault' = Publish(Report(p, job))
    BY DEF Die
  <1>3. ASSUME NEW job \in DOMAIN ReportOf, vault' = Publish(Report(p, job))
        PROVE  \A n \in vault' : Told(entries, now, n)
    BY <1>3, ReportTells, VaultTold
  <1> QED BY <1>1, <1>2, <1>3

\* NightInv is inductive.
LEMMA NextNight == NightInv /\ [NightNext]_nightVars => NightInv'
  <1> SUFFICES ASSUME NightInv, [NightNext]_nightVars PROVE NightInv'
    OBVIOUS
  <1>0. /\ OrderInv /\ TypeOK /\ BarsTell /\ (\A e \in entries : e.at \in Nat)
        /\ \A n \in vault : Told(entries, now, n)
    BY DEF NightInv, OrderInv, IInv
  <1>1. OrderInv' /\ TypeOK'
    <2>1. [Next]_vars
      BY NightIsScheduled DEF nightVars, vars
    <2>2. OrderInv'
      BY <1>0, <2>1, NextInOrder
    <2> QED BY <2>2 DEF OrderInv, IInv
  <1>2. now \in Nat /\ now' \in Nat
    BY <1>0, <1>1, BoundsAssumption DEF TypeOK
  <1>3. ASSUME entries' = entries, now <= now', BarsTell',
               \A n \in vault' : Told(entries, now, n)
        PROVE  NightInv'
    <2>1. \A n \in vault' : Told(entries', now', n)
      BY <1>2, <1>3, ToldLater
    <2> QED BY <1>0, <1>1, <1>3, <2>1 DEF NightInv
  <1>4. ASSUME NEW p \in Processes, Work(p), UNCHANGED <<closes, vault, desk>>
        PROVE  NightInv'
    <2>1. /\ entries' = entries /\ closes' = closes /\ vault' = vault
          /\ now' = now /\ runs' = runs
      BY <1>4 DEF desk, Work, BeginCycle, PlanCycle, StartAttempt
    <2> QED BY <1>0, <1>2, <1>3, <2>1, BarsKept
  <1>5. ASSUME NEW p \in Processes, End(p) PROVE NightInv'
    BY <1>0, <1>2, <1>3, <1>5, EndTells, EndTellsBars
  <1>6. ASSUME NEW p \in Processes, Die(p) PROVE NightInv'
    BY <1>0, <1>2, <1>3, <1>6, DeathTells, BarsKept
  <1>7. CASE Tick /\ UNCHANGED <<closes, vault, desk>>
    <2>1. /\ entries' = entries /\ closes' = closes /\ vault' = vault
          /\ now <= now' /\ runs' = runs
      BY <1>2, <1>7 DEF desk, Tick
    <2> QED BY <1>0, <1>3, <2>1, BarsKept
  <1>8. ASSUME Happens, \A e \in entries' : e \in entries \/ e.at = now
        PROVE  NightInv'
    <2>1. closes' = closes /\ vault' = vault /\ now' = now /\ runs' = runs
      BY <1>8 DEF Happens, vars
    <2>2. \A n \in vault' : Told(entries', now', n)
      BY <1>0, <1>2, <1>8, <2>1, ToldLater
    <2>3. \A e \in entries' : e.at \in Nat
      BY <1>0, <1>2, <1>8
    <2>4. BarsTell'
      BY <1>0, <2>1, BarsKept
    <2> QED BY <1>1, <2>2, <2>3, <2>4 DEF NightInv
  <1>9. ASSUME NEW table \in Recorded, Record(table) PROVE NightInv'
    <2>1. Happens /\ entries' = entries \cup {[table |-> table, at |-> now]}
      BY <1>9 DEF Record
    <2>2. \A e \in entries' : e \in entries \/ e.at = now
      BY <2>1
    <2> QED BY <1>8, <2>1, <2>2
  <1>10. CASE Fill \/ LoseFill
    BY <1>8, <1>10 DEF Fill, LoseFill
  <1>11. CASE UNCHANGED nightVars
    <2>1. /\ entries' = entries /\ closes' = closes /\ vault' = vault
          /\ now' = now /\ runs' = runs
      BY <1>11 DEF nightVars, vars, desk
    <2> QED BY <1>0, <1>2, <1>3, <2>1, BarsKept
  <1> QED BY <1>4, <1>5, <1>6, <1>7, <1>9, <1>10, <1>11 DEF NightNext

\* At first there is no report, no bar and no row.
LEMMA InitNight == NightInit => NightInv
  <1> SUFFICES ASSUME NightInit PROVE NightInv
    OBVIOUS
  <1>1. /\ Init /\ runs = <<>> /\ closes = [a \in Assets |-> {}]
        /\ entries = Backlog /\ vault = {}
    BY DEF NightInit, Init
  <1>2. OrderInv
    BY <1>1, InitInOrder
  <1>3. BarsTell
    BY <1>1 DEF BarsTell
  <1> QED BY <1>1, <1>2, <1>3, NightAssumption DEF NightInv

\* The invariant of the nightly work.
LEMMA NightKept == NightSpec => []NightInv
  BY InitNight, NextNight, PTL DEF NightSpec

\* In the nightly work too, a scheduled daily report comes after a market
\* update of its day, or of a later one.
THEOREM ReportsFollowPrices == NightSpec => []PricesBeforeReport
  <1>1. NightInv => PricesBeforeReport
    BY DEF NightInv, OrderInv
  <1> QED BY <1>1, NightKept, PTL

\* The period of a report reaches back to the end of one it adjoins.
LEMMA AdjoiningPeriods ==
    ASSUME NEW m, NEW n, n.kind \in Kinds, m.end \in Nat, n.end \in Nat,
           Adjoins(n.kind, m, n)
    PROVE  FirstDay(n.kind, n.end) \in Int /\ FirstDay(n.kind, n.end) <= m.end + 1
  <1>1. WeekDays \in Nat /\ MonthDays \in Nat \ {0}
    BY NightAssumption
  <1>2. CASE n.kind = "daily"
    BY <1>2 DEF Adjoins, FirstDay
  <1>3. CASE n.kind = "weekly"
    BY <1>1, <1>3 DEF Adjoins, FirstDay
  <1>4. CASE n.kind = "monthly"
    <2>1. \A x \in Nat : (x \div MonthDays) * MonthDays \in Int
                           /\ (x \div MonthDays) * MonthDays <= x
      BY <1>1, Z3
    <2>2. FirstDay(n.kind, n.end) = ((m.end + 1) \div MonthDays) * MonthDays
      BY <1>4 DEF Adjoins, FirstDay, Month
    <2> QED BY <2>1, <2>2
  <1> QED BY <1>2, <1>3, <1>4 DEF Kinds

\* Reports of one kind that follow each other closely enough lose nothing that
\* was stored before they were made, and none tells of a time after its period.
THEOREM ReportsLoseNothing == NightSpec => []NothingFallsBetween
  <1>1. ASSUME NightInv, NEW n \in vault, NEW e \in n.shown, e.table \in DatedTables(n.kind)
        PROVE  Date(e.at) \in n.start..n.end
    BY <1>1 DEF NightInv, Told, InWindow
  <1>2. ASSUME NightInv, NEW n \in vault, NEW m \in vault, NEW e \in entries,
               e.table \in DatedTables(n.kind), Adjoins(n.kind, m, n),
               m.end < Date(e.at), Date(e.at) <= n.end, e.at < n.at
        PROVE  e \in n.shown
    <2>1. Told(entries, now, n) /\ Told(entries, now, m) /\ e.at \in Nat
      BY <1>2 DEF NightInv
    <2>2. n.kind \in Kinds /\ n.end \in Nat /\ m.end \in Nat
            /\ n.start = FirstDay(n.kind, n.end)
      BY <2>1 DEF Told
    <2>3. n.start \in Int /\ n.start <= m.end + 1
      BY <1>2, <2>2, AdjoiningPeriods
    <2>4. Date(e.at) \in Nat
      BY <2>1, DatesAreDays
    <2>5. Date(e.at) \in n.start..n.end
      BY <1>2, <2>2, <2>3, <2>4
    <2> QED BY <1>2, <2>1, <2>5 DEF Told, InWindow
  <1>3. NightInv => NothingFallsBetween
    BY <1>1, <1>2 DEF NothingFallsBetween
  <1> QED BY <1>3, NightKept, PTL

-----------------------------------------------------------------------------
(***************************************************************************)
(* The health endpoint.  The worst verdict wins; what each check can say;  *)
(* what a failed row that nothing newer contradicts comes down to; and     *)
(* what the age of the stored bars says of the market updates.             *)
(***************************************************************************)
Verdicts == {"healthy", "degraded", "unavailable"}

\* The aggregate of some verdicts is one of them and none is worse.
LEMMA WorstWins ==
    ASSUME NEW checks, checks \subseteq Verdicts, checks # {}
    PROVE  /\ "unavailable" \in checks <=> Aggregate(checks) = "unavailable"
           /\ Aggregate(checks) = "healthy" => checks = {"healthy"}
  <1>1. Severity["healthy"] = 0 /\ Severity["degraded"] = 1 /\ Severity["unavailable"] = 2
    BY DEF Severity
  <1>2. \E v \in checks : \A w \in checks : Severity[w] <= Severity[v]
    <2>1. CASE "unavailable" \in checks
      BY <1>1, <2>1 DEF Verdicts
    <2>2. CASE "unavailable" \notin checks /\ "degraded" \in checks
      BY <1>1, <2>2 DEF Verdicts
    <2>3. CASE "unavailable" \notin checks /\ "degraded" \notin checks
      <3>1. \A w \in checks : w = "healthy"
        BY <2>3 DEF Verdicts
      <3>2. "healthy" \in checks
        BY <3>1
      <3> QED BY <1>1, <3>1, <3>2
    <2> QED BY <2>1, <2>2, <2>3
  <1> DEFINE worst == CHOOSE v \in checks : \A w \in checks : Severity[w] <= Severity[v]
  <1>3. worst \in checks /\ \A w \in checks : Severity[w] <= Severity[worst]
    BY <1>2, Zenon
  <1>4. Aggregate(checks) = worst
    BY DEF Aggregate
  <1> HIDE DEF worst
  <1>5. "unavailable" \in checks => worst = "unavailable"
    BY <1>1, <1>3 DEF Verdicts
  <1>6. worst = "healthy" => \A w \in checks : w = "healthy"
    BY <1>1, <1>3 DEF Verdicts
  <1> QED BY <1>3, <1>4, <1>5, <1>6

\* A graded check says its verdict or that all is well.
LEMMA GradedVerdicts ==
    ASSUME NEW bad, NEW verdict
    PROVE  Graded(bad, verdict) \in {verdict, "healthy"}
             /\ (bad => Graded(bad, verdict) = verdict)
             /\ (~bad => Graded(bad, verdict) = "healthy")
  BY Zenon DEF Graded

\* What the five dependencies can say.
LEMMA DependencyVerdicts ==
    ASSUME NEW config \in Configurations
    PROVE  DependencyChecks(config) \subseteq Verdicts /\ DependencyChecks(config) # {}
  <1>1. CheckDatabase(config) \in Verdicts
    BY GradedVerdicts DEF CheckDatabase, Verdicts
  <1>2. CheckClaude(config) \in Verdicts
    BY GradedVerdicts DEF CheckClaude, Verdicts
  <1>3. CheckApiAuth(config) \in Verdicts
    <2>1. config.tokens \in BOOLEAN /\ config.production \in BOOLEAN
      BY DEF Configurations
    <2> QED BY <2>1 DEF CheckApiAuth, Verdicts
  <1>4. CheckObsidian(config) \in Verdicts
    <2>1. config.obsidian \in {"unset", "reachable", "error", "rejected", "unreachable"}
      BY DEF Configurations
    <2> QED BY <2>1 DEF CheckObsidian, Verdicts
  <1>5. CheckMarketData(config) \in Verdicts
    <2>1. config.provider \in {"unbuildable", "synthetic", "down", "up"}
      BY DEF Configurations
    <2>2. Graded(config.production, "degraded") \in Verdicts
      BY GradedVerdicts DEF Verdicts
    <2> QED BY <2>1, <2>2 DEF CheckMarketData, Verdicts
  <1> QED BY <1>1, <1>2, <1>3, <1>4, <1>5 DEF DependencyChecks

\* A check with four outcomes, each under a condition of its own.
LEMMA FourOutcomes ==
    ASSUME NEW p, NEW np, NEW q, NEW r, NEW x, NEW y, NEW z, NEW w, np <=> ~p
    PROVE  LET verdict == CASE p -> x [] np /\ q -> y [] np /\ r /\ ~q -> z [] OTHER -> w
           IN  /\ p => verdict = x
               /\ ~p /\ q => verdict = y
               /\ ~p /\ ~q /\ r => verdict = z
               /\ ~p /\ ~q /\ ~r => verdict = w
  BY Zenon

\* All stored bars are older than the limit.
AllAged(bars, t, limit) == \A at \in bars : Aged(at, t, limit)

\* What the age of the bars comes down to.
LEMMA FreshnessVerdict ==
    ASSUME NEW bars, NEW t
    PROVE  /\ CheckPriceFreshness(bars, t) \in Verdicts
           /\ AllAged(bars, t, PriceStale) => CheckPriceFreshness(bars, t) # "healthy"
           /\ CheckPriceFreshness(bars, t) = "unavailable" =>
                bars # {} /\ AllAged(bars, t, PriceCritical)
  <1> DEFINE old == AllAged(bars, t, PriceStale)
             dead == AllAged(bars, t, PriceCritical)
             none == bars = {}
             some == bars # {}
             verdict == CASE none -> "degraded"
                          [] some /\ dead -> "unavailable"
                          [] some /\ old /\ ~dead -> "degraded"
                          [] OTHER -> "healthy"
  <1>1. CheckPriceFreshness(bars, t) = verdict
    BY Zenon DEF CheckPriceFreshness, AllAged
  <1>2. /\ none => verdict = "degraded"
        /\ ~none /\ dead => verdict = "unavailable"
        /\ ~none /\ ~dead /\ old => verdict = "degraded"
        /\ ~none /\ ~dead /\ ~old => verdict = "healthy"
    <2>1. some <=> ~none
      OBVIOUS
    <2> HIDE DEF none, some, old, dead
    <2> QED BY <2>1, FourOutcomes, Zenon
  <1> HIDE DEF verdict, old, dead
  <1>3. verdict \in Verdicts
    BY <1>2 DEF Verdicts
  <1>4. old => verdict # "healthy"
    BY <1>2
  <1>5. verdict = "unavailable" => bars # {} /\ dead
    BY <1>2
  <1> QED BY <1>1, <1>3, <1>4, <1>5 DEF old, dead

\* Only a failing job makes this check call the system broken.
LEMMA FailureVerdict ==
    ASSUME NEW trail, NEW t
    PROVE  /\ CheckJobFailures(trail, t) \in Verdicts
           /\ CheckJobFailures(trail, t) = "unavailable" <=> CurrentlyFailing(trail) # {}
  <1> DEFINE failing == CurrentlyFailing(trail) # {}
             recent == RecentFailures(trail, t) # {}
             verdict == CASE failing -> "unavailable"
                          [] ~failing /\ recent -> "degraded"
                          [] OTHER -> "healthy"
  <1>1. CheckJobFailures(trail, t) = verdict
    BY Zenon DEF CheckJobFailures
  <1>2. /\ failing => verdict = "unavailable"
        /\ ~failing /\ recent => verdict = "degraded"
        /\ ~failing /\ ~recent => verdict = "healthy"
    <2> HIDE DEF failing, recent
    <2> QED BY Zenon
  <1> HIDE DEF verdict, recent
  <1>3. verdict \in Verdicts /\ (verdict = "unavailable" <=> failing)
    BY <1>2 DEF Verdicts
  <1> QED BY <1>1, <1>3

\* A probe that sees a row sees every newer one.
LEMMA SeenNewer ==
    ASSUME TypeOK, NEW k \in DOMAIN runs, NEW z \in DOMAIN runs,
           z = k \/ StartedAfter(runs, z, k), Seen(runs, k)
    PROVE  Seen(runs, z)
  <1> DEFINE after(j) == {i \in DOMAIN runs : StartedAfter(runs, i, j)}
  <1>1. /\ Len(runs) \in Nat /\ DOMAIN runs = 1..Len(runs)
        /\ \A i \in DOMAIN runs : runs[i].started \in Nat /\ i \in Nat
    <2>1. runs \in Seq(Rows)
      BY DEF TypeOK
    <2>2. Len(runs) \in Nat /\ DOMAIN runs = 1..Len(runs)
      <3> HIDE DEF Rows
      <3> QED BY <2>1
    <2> QED BY <2>2, RowTypes
  <1>2. ASSUME NEW i \in DOMAIN runs, StartedAfter(runs, i, z)
        PROVE  StartedAfter(runs, i, k)
    BY <1>1, <1>2 DEF StartedAfter
  <1>3. after(z) \in SUBSET after(k)
    BY <1>2, Zenon
  <1>4. IsFiniteSet(after(k))
    <2>1. IsFiniteSet(DOMAIN runs)
      BY <1>1, FS_Interval
    <2>2. after(k) \in SUBSET DOMAIN runs
      BY Zenon
    <2> HIDE DEF after
    <2> QED BY <2>1, <2>2, FS_Subset
  <1>5. Cardinality(after(k)) < RunLimit
    BY Zenon DEF Seen
  <1> HIDE DEF after
  <1>6. IsFiniteSet(after(z)) /\ Cardinality(after(z)) <= Cardinality(after(k))
    BY <1>3, <1>4, FS_Subset
  <1>7. Cardinality(after(z)) \in Nat /\ Cardinality(after(k)) \in Nat
    BY <1>4, <1>6, FS_CardinalityType
  <1>8. Cardinality(after(z)) < RunLimit
    BY <1>5, <1>6, <1>7, HealthAssumption
  <1> QED BY <1>8 DEF after, Seen

\* The newest row of a job.
LEMMA NewestOfItsJob ==
    ASSUME TypeOK, RowsBehind, now \in Nat, NEW k \in DOMAIN runs
    PROVE  \E z \in DOMAIN runs :
             /\ runs[z].job = runs[k].job
             /\ \A i \in DOMAIN runs :
                  runs[i].job = runs[k].job /\ i # z => StartedAfter(runs, z, i)
  <1> DEFINE own == {i \in DOMAIN runs : runs[i].job = runs[k].job}
             starts == {runs[i].started : i \in own}
  <1>1. /\ Len(runs) \in Nat
        /\ \A i \in DOMAIN runs : /\ i \in Nat /\ i <= Len(runs)
                                  /\ runs[i].started \in Nat /\ runs[i].started <= now
    BY RowTypes DEF RowsBehind
  <1>2. k \in own /\ \A i : i \in own <=> i \in DOMAIN runs /\ runs[i].job = runs[k].job
    OBVIOUS
  <1>3. \A i \in own : runs[i].started \in starts
    OBVIOUS
  <1>4. \A s \in starts : \E i \in own : runs[i].started = s
    OBVIOUS
  <1> HIDE DEF own, starts
  <1>5. starts \subseteq Nat /\ starts # {} /\ \A s \in starts : s <= now
    BY <1>1, <1>2, <1>3, <1>4
  <1>6. PICK s \in starts : \A other \in starts : other <= s
    BY <1>5, GreatestNatural
  <1> DEFINE last == {i \in own : runs[i].started = s}
  <1>7. last \subseteq Nat /\ last # {} /\ \A i \in last : i <= Len(runs)
    BY <1>1, <1>2, <1>4, <1>6
  <1>8. \A i : i \in last <=> i \in own /\ runs[i].started = s
    OBVIOUS
  <1> HIDE DEF last
  <1>9. PICK z \in last : \A i \in last : i <= z
    BY <1>1, <1>7, GreatestNatural
  <1>10. z \in DOMAIN runs /\ runs[z].job = runs[k].job /\ runs[z].started = s
    BY <1>2, <1>8, <1>9
  <1>11. ASSUME NEW i \in DOMAIN runs, runs[i].job = runs[k].job, i # z
         PROVE  StartedAfter(runs, z, i)
    <2>1. i \in own /\ runs[i].started \in Nat /\ runs[i].started <= s /\ i \in Nat /\ z \in Nat
            /\ s \in Nat
      BY <1>1, <1>2, <1>3, <1>5, <1>6, <1>10, <1>11
    <2>2. runs[i].started = s => i <= z
      BY <1>8, <1>9, <2>1
    <2> QED BY <1>10, <1>11, <2>1, <2>2 DEF StartedAfter
  <1> QED BY <1>10, <1>11

\* The check of the job runs finds a failing job exactly when there is one.
LEMMA BrokenIsFailing ==
    ASSUME TypeOK, RowsBehind, now \in Nat
    PROVE  Broken <=> CurrentlyFailing(runs) # {}
  <1>1. \A i \in DOMAIN runs : runs[i].started \in Nat /\ i \in Nat
    BY RowTypes
  <1>2. ASSUME Broken PROVE CurrentlyFailing(runs) # {}
    <2>1. PICK k \in DOMAIN runs :
            /\ runs[k].status = "failed" /\ Seen(runs, k)
            /\ \A i \in DOMAIN runs :
                 runs[i].job = runs[k].job /\ runs[i].status # "failed"
                   => ~StartedAfter(runs, i, k)
      BY <1>2 DEF Broken
    <2>2. PICK z \in DOMAIN runs :
            /\ runs[z].job = runs[k].job
            /\ \A i \in DOMAIN runs :
                 runs[i].job = runs[k].job /\ i # z => StartedAfter(runs, z, i)
      BY <2>1, NewestOfItsJob
    <2>3. z = k \/ StartedAfter(runs, z, k)
      BY <2>1, <2>2
    <2>4. runs[z].status = "failed"
      BY <2>1, <2>2, <2>3
    <2>5. Seen(runs, z)
      BY <2>1, <2>3, SeenNewer
    <2>6. LatestOfItsJob(runs, z)
      BY <2>2 DEF LatestOfItsJob
    <2> QED BY <2>4, <2>5, <2>6 DEF CurrentlyFailing, Failures
  <1>3. ASSUME CurrentlyFailing(runs) # {} PROVE Broken
    <2>1. PICK k \in DOMAIN runs :
            runs[k].status = "failed" /\ Seen(runs, k) /\ LatestOfItsJob(runs, k)
      BY <1>3 DEF CurrentlyFailing, Failures
    <2>2. ASSUME NEW i \in DOMAIN runs, runs[i].job = runs[k].job,
                 runs[i].status # "failed", StartedAfter(runs, i, k)
          PROVE  FALSE
      <3>1. Seen(runs, i)
        BY <2>1, <2>2, SeenNewer
      <3>2. StartedAfter(runs, k, i)
        BY <2>1, <2>2, <3>1 DEF LatestOfItsJob
      <3> QED BY <1>1, <2>1, <2>2, <3>2 DEF StartedAfter
    <2> QED BY <2>1, <2>2 DEF Broken
  <1> QED BY <1>2, <1>3

\* A day is stored as a bar exactly when a market update served it, so the
\* bars are old exactly when the market updates have been silent.
LEMMA SilenceAges ==
    ASSUME BarsTell, NEW limit
    PROVE  Silent(limit) <=> AllAged(Stored.bars, now, limit)
  <1> DEFINE bars == {day * DayLength : day \in UNION {closes[a] : a \in Assets}}
             Old(day) == now - day * DayLength > limit
  <1>1. Stored.bars = bars
    BY DEF Stored
  <1>2. \A a \in Assets : \A day \in closes[a] : day * DayLength \in bars
    OBVIOUS
  <1>3. \A at \in bars : \E a \in Assets : \E day \in closes[a] : at = day * DayLength
    OBVIOUS
  <1> HIDE DEF bars
  <1>4. ASSUME Silent(limit), NEW a \in Assets, NEW day \in closes[a] PROVE Old(day)
    <2>1. PICK i \in DOMAIN runs : Served(runs[i]) /\ Date(runs[i].cycle) = day
      BY <1>4 DEF BarsTell
    <2> QED BY <1>4, <2>1 DEF Silent, Served
  <1>5. ASSUME NEW i \in DOMAIN runs, Served(runs[i]), AllAged(bars, now, limit)
        PROVE  Old(Date(runs[i].cycle))
    <2>1. PICK a \in Assets : Date(runs[i].cycle) \in closes[a]
      BY <1>5, NightAssumption DEF BarsTell
    <2>2. Date(runs[i].cycle) * DayLength \in bars
      BY <1>2, <2>1
    <2> QED BY <1>5, <2>2 DEF AllAged, Aged
  <1>6. Silent(limit) => AllAged(bars, now, limit)
    BY <1>3, <1>4 DEF AllAged, Aged
  <1>7. AllAged(bars, now, limit) => Silent(limit)
    BY <1>5 DEF Silent, Served
  <1> QED BY <1>1, <1>6, <1>7

\* What the stored records and the trail can say, and what makes them alarm.
LEMMA RecordVerdicts ==
    ASSUME TypeOK, RowsBehind, now \in Nat
    PROVE  LET findings == RecordChecks(Stored, runs, now)
               drift == Distance(books.expected, books.cash) > CashTolerance
           IN  /\ findings \subseteq Verdicts
               /\ CheckPriceFreshness(Stored.bars, now) \in findings
               /\ "unavailable" \in findings
                    <=> \/ CheckPriceFreshness(Stored.bars, now) = "unavailable"
                        \/ drift \/ Broken
  <1> DEFINE price == CheckPriceFreshness(Stored.bars, now)
             cash == CheckPortfolioConsistency(Stored.books)
             theses == CheckStaleTheses(Stored.reviews, now)
             queue == CheckResearchQueueAge(Stored.pending, now)
             lists == CheckWatchlists(Stored.watchlists)
             quiet == CheckScheduler(runs, now)
             failing == CheckJobFailures(runs, now)
             drift == Distance(books.expected, books.cash) > CashTolerance
             trail == IF runs = <<>> THEN {"degraded"} ELSE {quiet, failing}
             findings == RecordChecks(Stored, runs, now)
  <1>1. findings = {price, cash, theses, queue, lists} \cup trail
    BY DEF RecordChecks, DataChecks, JobChecks
  <1>2. price \in Verdicts
    BY FreshnessVerdict
  <1>3. cash \in {"healthy", "unavailable"} /\ (cash = "unavailable" <=> drift)
    <2>1. cash = Graded(drift, "unavailable")
      <3>1. Stored.books = {books}
        BY DEF Stored
      <3>2. (\E b \in {books} : Distance(b.expected, b.cash) > CashTolerance) <=> drift
        BY Zenon
      <3> HIDE DEF drift
      <3>3. Graded(\E b \in {books} : Distance(b.expected, b.cash) > CashTolerance, "unavailable")
              = Graded(drift, "unavailable")
        BY <3>2 DEF Graded
      <3> QED BY <3>1, <3>3 DEF CheckPortfolioConsistency
    <2> HIDE DEF cash, drift
    <2> QED BY <2>1, GradedVerdicts
  <1>4. theses \in {"healthy", "degraded"} /\ queue \in {"healthy", "degraded"}
          /\ lists \in {"healthy", "degraded"} /\ quiet \in {"healthy", "degraded"}
    BY GradedVerdicts DEF CheckStaleTheses, CheckResearchQueueAge, CheckWatchlists, CheckScheduler
  <1>5. failing \in Verdicts /\ (failing = "unavailable" <=> Broken)
    BY FailureVerdict, BrokenIsFailing
  <1>6. runs = <<>> => ~Broken
    BY DEF Broken
  <1> HIDE DEF price, cash, theses, queue, lists, quiet, failing, drift, findings
  <1>7. trail \subseteq Verdicts /\ ("unavailable" \in trail <=> Broken)
    BY <1>4, <1>5, <1>6 DEF Verdicts
  <1> HIDE DEF trail
  <1>8. findings \subseteq Verdicts
    BY <1>1, <1>2, <1>3, <1>4, <1>7 DEF Verdicts
  <1>9. "unavailable" \in findings <=> price = "unavailable" \/ drift \/ Broken
    BY <1>1, <1>3, <1>4, <1>7
  <1>10. price \in findings
    BY <1>1
  <1> QED BY <1>8, <1>9, <1>10 DEF findings, price, drift

\* The health endpoint hides no failing job, no balance the ledger does not
\* explain and no silent market update, and calls nothing else broken.
THEOREM HealthTellsTheTruth == NightSpec => []HealthIsHonest
  <1>1. NightInv => HealthIsHonest
    <2> SUFFICES ASSUME NightInv, NEW config \in Configs
                 PROVE  LET drift == Distance(books.expected, books.cash) > CashTolerance
                            broken == drift \/ Broken
                            verdict == FullHealth(config, RecordChecks(Stored, runs, now))
                        IN  /\ broken => verdict = "unavailable"
                            /\ Silent(PriceStale) => verdict # "healthy"
                            /\ verdict = "unavailable" =>
                                 broken \/ Silent(PriceCritical)
                                   \/ Aggregate(DependencyChecks(config)) = "unavailable"
      BY DEF HealthIsHonest
    <2> DEFINE findings == RecordChecks(Stored, runs, now)
               needs == DependencyChecks(config)
               price == CheckPriceFreshness(Stored.bars, now)
               drift == Distance(books.expected, books.cash) > CashTolerance
               verdict == FullHealth(config, findings)
    <2>1. TypeOK /\ RowsBehind /\ BarsTell /\ now \in Nat
      BY BoundsAssumption DEF NightInv, OrderInv, IInv, TypeOK
    <2>2. needs \subseteq Verdicts /\ needs # {}
      BY DependencyVerdicts, NightAssumption
    <2>3. /\ findings \subseteq Verdicts /\ price \in findings
          /\ "unavailable" \in findings <=> price = "unavailable" \/ drift \/ Broken
      BY <2>1, RecordVerdicts
    <2>4. /\ Silent(PriceStale) => price # "healthy"
          /\ price = "unavailable" => Silent(PriceCritical)
      BY <2>1, FreshnessVerdict, SilenceAges
    <2>5. verdict = Aggregate(needs \cup findings)
      BY DEF FullHealth
    <2> HIDE DEF findings, needs, price, drift, verdict
    <2>6. /\ "unavailable" \in needs \cup findings <=> verdict = "unavailable"
          /\ verdict = "healthy" => needs \cup findings = {"healthy"}
      BY <2>2, <2>3, <2>5, WorstWins
    <2>7. "unavailable" \in needs <=> Aggregate(needs) = "unavailable"
      BY <2>2, WorstWins
    <2>8. /\ drift \/ Broken => verdict = "unavailable"
          /\ Silent(PriceStale) => verdict # "healthy"
          /\ verdict = "unavailable" =>
               (drift \/ Broken) \/ Silent(PriceCritical) \/ Aggregate(needs) = "unavailable"
      BY <2>3, <2>4, <2>6, <2>7
    <2> QED BY <2>8 DEF drift, verdict, findings, needs
  <1> QED BY <1>1, NightKept, PTL
=============================================================================
