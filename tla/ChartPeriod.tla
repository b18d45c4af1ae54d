----------------------------- MODULE ChartPeriod -----------------------------
(***************************************************************************)
(* The period of the charts on the Money page: four presets and two date   *)
(* fields (features/expenses/ExpensesPeriodPicker.tsx), the calendar       *)
(* arithmetic of a preset (features/expenses/period.ts), and that of the   *)
(* server, which lays out the months of the range                          *)
(* (services/expenses.py).                                                 *)
(***************************************************************************)
EXTENDS Integers

CONSTANT ChartDays      \* days on a calendar, and days a visitor types

Presets == {"1m", "3m", "6m", "1y"}
PresetMonths(p) == CASE p = "1m" -> 1 [] p = "3m" -> 3 [] p = "6m" -> 6 [] p = "1y" -> 12

\* A date field that was cleared: the empty string, before every date.
NoDay == [y |-> 0, m |-> 0, d |-> 0]

Leap(y) == y % 4 = 0 /\ (y % 100 # 0 \/ y % 400 = 0)
DaysInMonth(y, m) ==
    IF m = 2 THEN IF Leap(y) THEN 29 ELSE 28 ELSE IF m \in {4, 6, 9, 11} THEN 30 ELSE 31

IsDay(day) ==
    /\ day \in [y : Int, m : Int, d : Int]
    /\ day.m \in 1..12 /\ day.d \in 1..DaysInMonth(day.y, day.m)

\* The order of the strings YYYY-MM-DD
Later(a, b) == \/ a.y > b.y
               \/ a.y = b.y /\ (a.m > b.m \/ (a.m = b.m /\ a.d > b.d))

ASSUME ChartDaysAssumption == \A day \in ChartDays : IsDay(day)

\* JavaScript's remainder has the sign of what is divided.
Remainder(a, b) == IF a >= 0 THEN a % b ELSE - ((- a) % b)

MonthsOf(day, months) == day.y * 12 + (day.m - 1) + months

\* shiftMonths: the same day so many months on, or the last of a shorter month.
ShiftMonths(day, months) ==
    LET total == MonthsOf(day, months)
        year == total \div 12
        month == Remainder(Remainder(total, 12) + 12, 12) + 1
        last == DaysInMonth(year, month) IN
    [y |-> year, m |-> month, d |-> IF day.d < last THEN day.d ELSE last]

\* _shift_month: the first of a month so many months on.
ServerShift(day, months) ==
    LET total == MonthsOf(day, months) IN
    [y |-> total \div 12, m |-> (total % 12) + 1, d |-> 1]

RangeFrom(p, day) == ShiftMonths(day, - PresetMonths(p))
RangeTo(day) == ShiftMonths(day, 0)

VARIABLES today, preset, dateFrom, dateTo

chartVars == <<today, preset, dateFrom, dateTo>>

ChartInit ==
    /\ today \in ChartDays
    /\ preset = "1y"
    /\ dateFrom = RangeFrom("1y", today) /\ dateTo = RangeTo(today)

PickPreset(p) ==
    /\ preset' = p
    /\ dateFrom' = RangeFrom(p, today) /\ dateTo' = RangeTo(today)
    /\ UNCHANGED today

\* A date typed, picked or cleared: `max` and `min` hold nobody back.
PickFrom(day) ==
    /\ dateFrom' = day /\ preset' = "none"
    /\ UNCHANGED <<today, dateTo>>

PickTo(day) ==
    /\ dateTo' = day /\ preset' = "none"
    /\ UNCHANGED <<today, dateFrom>>

\* The page stays open overnight.
NextDay ==
    /\ \E day \in ChartDays : Later(day, today) /\ today' = day
    /\ UNCHANGED <<preset, dateFrom, dateTo>>

ChartNext ==
    \/ \E p \in Presets : PickPreset(p)
    \/ \E day \in ChartDays \cup {NoDay} : PickFrom(day) \/ PickTo(day)
    \/ NextDay

ChartSpec == ChartInit /\ [][ChartNext]_chartVars

\* Nothing is asked for while the range is the wrong way round.
InvalidRange == Later(dateFrom, dateTo)

FieldDays == {day \in [y : Int, m : Int, d : Int] : day = NoDay \/ IsDay(day)}

ChartTypeOK ==
    /\ today \in ChartDays
    /\ preset \in Presets \cup {"none"}
    /\ dateFrom \in FieldDays /\ dateTo \in FieldDays

\* While a preset is lit both fields hold a day of the calendar and the first
\* is not after the second, however short the month it falls in: the charts are
\* asked for (ExpensesPage.tsx:108-111, period.ts:20-36).
LitPresetIsAsked ==
    preset # "none" => IsDay(dateFrom) /\ IsDay(dateTo) /\ ~InvalidRange
=============================================================================
