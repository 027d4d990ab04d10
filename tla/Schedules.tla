----------------------------- MODULE Schedules ------------------------------
(***************************************************************************)
(* When a registered job is due (apps/worker/scheduler/schedule.py).  Time *)
(* is a natural number of ticks and DayLength ticks make a UTC day, so     *)
(* that "the same calendar day" and "at or after 22:00" keep the meaning   *)
(* they have in the code.                                                  *)
(***************************************************************************)
EXTENDS Integers

CONSTANT DayLength      \* ticks in a day

ASSUME DayLengthAssumption == DayLength \in Nat \ {0}

Date(t) == t \div DayLength

TimeOfDay(t) == t % DayLength

\* Stands for "this job has never succeeded".
Never == -1

Daily(at) == [kind |-> "daily", at |-> at, every |-> 0]
Interval(every) == [kind |-> "interval", at |-> 0, every |-> every]
Manual == [kind |-> "manual", at |-> 0, every |-> 0]

Schedules == [kind : {"daily", "interval", "manual"}, at : Nat, every : Nat]

\* A mutant of IsDue that compares with the clock only.
IsDueByClock(schedule, t, last) ==
    /\ schedule.kind = "daily"
    /\ TimeOfDay(t) >= schedule.at

\* Schedule.is_due: t is the cycle's clock, last the start of the newest run
\* that counts as done.
IsDue(schedule, t, last) ==
    \/ /\ schedule.kind = "interval"
       /\ last = Never \/ t - last >= schedule.every
    \/ /\ schedule.kind = "daily"
       /\ TimeOfDay(t) >= schedule.at
       /\ last = Never \/ Date(last) < Date(t)
=============================================================================
