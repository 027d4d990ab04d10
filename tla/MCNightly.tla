----------------------------- MODULE MCNightly -------------------------------
(***************************************************************************)
(* One worker with the market update and the report jobs over days of two  *)
(* ticks, weeks and months of two days.  The daily report is due with the  *)
(* market update, as after an outage, so that their order in a cycle is    *)
(* the alphabet's; a healthy database at the start.                        *)
(***************************************************************************)
EXTENDS NightlyWork

MCJobs == {"daily_market_update", "daily_report", "monthly_report", "weekly_report"}
MCRank == [daily_market_update |-> 1, daily_report |-> 2, weekly_report |-> 4, monthly_report |-> 3]
MCScheduleOf == [daily_market_update |-> Daily(1), daily_report |-> Daily(1),
                 weekly_report |-> Interval(WeekDays * DayLength),
                 monthly_report |-> Interval(MonthDays * DayLength)]

Best == [database |-> TRUE, claude |-> TRUE, production |-> TRUE, tokens |-> TRUE,
         obsidian |-> "reachable", provider |-> "up"]
MCBacklog == {[table |-> t, at |-> 0] : t \in {"pending", "review", "item"}}
MCConfigs == {Best, [Best EXCEPT !.obsidian = "unset", !.claude = FALSE]}
=============================================================================
