------------------------------ MODULE Calendar ------------------------------
(* The two calendars of a scheduled report as functions: when a schedule    *)
(* fires next (scheduling/calculator.py, contracts.py) and which window a    *)
(* relative period names (reports/periods.py, contracts.py).                 *)
(* A date is a day number counted from a first of January, an instant or a   *)
(* wall-clock time a number of half hours from its midnight; months are      *)
(* numbered from 0. A zone changes its offset once, at the instant "at".     *)
EXTENDS Integers, Sequences, FiniteSetsExt
CONSTANTS
    MonthLengths,    \* days of each month of the calendar, from the first one
    FirstWeekday     \* weekday of day 0, Monday being 0
ASSUME CalendarAssumption ==
    /\ MonthLengths \in Seq(28..31) /\ Len(MonthLengths) % 12 = 0
    /\ FirstWeekday \in 0..6

HalfHours == 48
Horizon == Len(MonthLengths)
MonthStart[k \in 0..Horizon] == IF k = 0 THEN 0 ELSE MonthStart[k - 1] + MonthLengths[k]
LastDay == MonthStart[Horizon] - 1
MonthOf == [d \in 0..LastDay |-> CHOOSE k \in 0..(Horizon - 1) : MonthStart[k] <= d /\ d < MonthStart[k + 1]]

----------------------------------------------------------------------------
(* Schedules                                                                *)

Kinds == {"daily", "weekly", "monthly", "quarterly"}

(* A field is present exactly when its kind calls for it; 0 is absent, days *)
(* of the week are numbered from 1 here.                                    *)
WellFormed(c) ==
    /\ (c.day_of_week # 0) = (c.kind = "weekly")
    /\ (c.day_of_month # 0) = (c.kind \in {"monthly", "quarterly"})
    /\ (c.month_of_quarter # 0) = (c.kind = "quarterly")

AnySchedule == [kind : Kinds, time : 0..(HalfHours - 1), day_of_week : 0..7,
                day_of_month : 0..28, month_of_quarter : 0..3]
AnyZone == [before : Int, after : Int, at : Int]

Weekday(d) == (d + FirstWeekday) % 7

QuarterCycleMonth(n, month) == (month % 3) + 1 = n

DayInMonth(c) ==
    {MonthStart[k] + c.day_of_month - 1 :
        k \in {j \in 0..(Horizon - 1) : c.kind = "quarterly" => QuarterCycleMonth(c.month_of_quarter, j % 12)}}

(* Candidate dates: never before the month or the day of today, nearest     *)
(* first.                                                                   *)
CandidateDates(c, today) ==
    IF c.kind = "daily" THEN today..LastDay
    ELSE IF c.kind = "weekly" THEN {d \in today..LastDay : Weekday(d) + 1 = c.day_of_week}
    ELSE {d \in DayInMonth(c) : d >= MonthStart[MonthOf[today]]}

Shift(zone) == Max({zone.after - zone.before, zone.before - zone.after})

(* astimezone: an instant on the wall, and a wall-clock time with fold 0 as *)
(* an instant; one that is skipped or repeated takes the earlier offset.    *)
Wall(u, zone) == u + IF u < zone.at THEN zone.before ELSE zone.after
Instant(w, zone) == w - IF w < zone.at + Max({zone.before, zone.after}) THEN zone.before ELSE zone.after

(* Mutant: the present half hour counts                                     *)
ComputeNextRunInclusive(c, zone, after) ==
    LET reference == Wall(after, zone)
        walls == {HalfHours * d + c.time : d \in CandidateDates(c, reference \div HalfHours)}
    IN  Instant(Min({w \in walls : w >= reference}), zone)

(* Candidate and reference carry the same zone, so Python compares them on  *)
(* the wall; only the accepted one becomes an instant.                      *)
ComputeNextRun(c, zone, after) ==
    LET reference == Wall(after, zone)
        walls == {HalfHours * d + c.time : d \in CandidateDates(c, reference \div HalfHours)}
    IN  Instant(Min({w \in walls : w > reference}), zone)

(* The specification: every date the rule names, as an instant.             *)
RuleDates(c) == {d \in 0..LastDay :
    \/ c.kind = "daily"
    \/ c.kind = "weekly" /\ (d + FirstWeekday) % 7 = c.day_of_week - 1
    \/ /\ c.kind \in {"monthly", "quarterly"}
       /\ d - MonthStart[MonthOf[d]] + 1 = c.day_of_month
       /\ c.kind = "quarterly" => \E q \in 0..3 : MonthOf[d] % 12 = 3 * q + c.month_of_quarter - 1}
RuleInstants(c, zone) == {Instant(HalfHours * d + c.time, zone) : d \in RuleDates(c)}

(* The instants just after the clocks were changed, for as long as the       *)
(* change: set back, the wall repeats these hours; set forward, it has       *)
(* skipped as many.                                                          *)
InShift(u, zone) == zone.at <= u /\ u < zone.at + Shift(zone)
Repeating(u, zone) == zone.after < zone.before /\ InShift(u, zone)
Skipping(u, zone) == zone.before < zone.after /\ InShift(u, zone)

----------------------------------------------------------------------------
(* Relative periods: half open, on UTC dates                                *)

PeriodKinds == {"current_month", "previous_month", "current_quarter", "previous_quarter",
                "current_year", "previous_year", "last_n_days"}
ReportPeriod(start, end) == [start |-> start, end |-> end]

(* ReportPeriod: after its start and within five years *)
MaxPeriodDays == 366 * 5
ValidPeriod(p) == p.start < p.end /\ p.end - p.start <= MaxPeriodDays

QuarterStart(d) == 3 * (MonthOf[d] \div 3)

LastDays(n, today) == ReportPeriod(today - n, today)

ResolvePeriod(kind, n, today) ==
    LET month == MonthOf[today] quarter == QuarterStart(today) year == 12 * (month \div 12)
    IN  CASE kind = "current_month" -> ReportPeriod(MonthStart[month], MonthStart[month + 1])
          [] kind = "previous_month" -> ReportPeriod(MonthStart[month - 1], MonthStart[month])
          [] kind = "current_quarter" -> ReportPeriod(MonthStart[quarter], MonthStart[quarter + 3])
          [] kind = "previous_quarter" -> ReportPeriod(MonthStart[quarter - 3], MonthStart[quarter])
          [] kind = "current_year" -> ReportPeriod(MonthStart[year], MonthStart[year + 12])
          [] kind = "previous_year" -> ReportPeriod(MonthStart[year - 12], MonthStart[year])
          [] kind = "last_n_days" -> LastDays(n, today)
Current == [previous_month |-> "current_month", previous_quarter |-> "current_quarter", previous_year |-> "current_year"]
----------------------------------------------------------------------------
(* compute_next_run is a fire of the rule, and strictly after the given     *)
(* instant but while the wall repeats an hour: a fire of the first round is *)
(* then returned in the second, less than the change too late. It passes    *)
(* over no fire in between but those of the times the wall has just         *)
(* skipped. Outside these hours it is thus the first fire after.            *)
NextRunIsNextFire(c, zone, after) ==
    LET next == ComputeNextRun(c, zone, after)
    IN  /\ next \in RuleInstants(c, zone)
        /\ next > IF Repeating(after, zone) THEN after - Shift(zone) ELSE after
        /\ \A u \in RuleInstants(c, zone) :
              after < u /\ u < next => Skipping(after, zone) /\ InShift(u, zone)

(* resolve_relative_period: every window is one ReportPeriod accepts; the   *)
(* previous one of a kind is what the current one was on the day before it  *)
(* began, the current one holds today, and the last n days are n whole days *)
(* up to today.                                                             *)
PeriodsFitTogether(kind, n, today) ==
    LET p == ResolvePeriod(kind, n, today)
    IN  /\ ValidPeriod(p)
        /\ kind \in DOMAIN Current =>
              LET now == ResolvePeriod(Current[kind], n, today)
              IN p = ResolvePeriod(Current[kind], n, now.start - 1) /\ p.end = now.start
        /\ kind \in {"current_month", "current_quarter", "current_year"} => p.start <= today /\ today < p.end
        /\ kind = "last_n_days" => p.end = today /\ p.end - p.start = n

=============================================================================
