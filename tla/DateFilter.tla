----------------------------- MODULE DateFilter -----------------------------
(***************************************************************************)
(* The filters of the dashboard's header: the popover that chooses a range *)
(* of dates (components/date-filter.tsx) and the account select            *)
(* (components/account-filter.tsx).  Both keep their state in the address: *)
(* each writes the whole query string, from the parameters it sees.  A     *)
(* navigation takes time, and until it is over they see the old ones.      *)
(*                                                                         *)
(* The lists send what is in the address to the API, which has its own     *)
(* idea of now (daterange.go).  Days are numbers, and an instant is a      *)
(* number of half days: midnight begins a day, the rest of it is one.      *)
(***************************************************************************)
EXTENDS Integers, Sequences, Nothing

CONSTANTS
    MonthStart,  \* the first days of the months, from a January, in order
    Today,       \* the days it may be, by the browser's clock
    Skew,        \* how many days UTC may be ahead of that clock: of -1, 0, 1
    Account,
    Preset,      \* the presets that are used
    FirstFrom,   \* what the from of the first address may be
    MaxPushes,   \* navigations
    Malformed

Param == Int \cup {None, Malformed}
AnyPreset == {"today", "yesterday", "thisWeek", "lastWeek", "thisMonth", "lastMonth",
              "thisYear", "lastYear", "allTime"}

ASSUME FilterAssumption ==
    /\ None \notin Int /\ Malformed \notin Int /\ None # Malformed
    /\ None \notin [account : Account \cup {None}, from : Param, to : Param]
    /\ FirstFrom \subseteq Param /\ Preset \subseteq AnyPreset
    /\ Skew \subseteq {-1, 0, 1} /\ MaxPushes \in Nat

\* The calendar has whole years, and the year before each day that it may be,
\* none of which is before 2023.
ASSUME CalendarAssumption ==
    LET last == Len(MonthStart) IN
    /\ MonthStart \in Seq(Int) /\ last % 12 = 1
    /\ \A m, k \in 1..last : m < k => MonthStart[m] < MonthStart[k]
    /\ \A m \in 1..(last - 1) : MonthStart[m + 1] - MonthStart[m] \in 28..31
    /\ \A m \in 1..(last - 12) :
          m % 12 = 1 => MonthStart[m + 12] - MonthStart[m] \in {365, 366}
    /\ Today \subseteq Nat
    /\ \A d \in Today : \E m \in 13..(last - 1) :
          MonthStart[m] <= d /\ d < MonthStart[m + 1]

VARIABLES
    today, skew,
    past,        \* 1 if it is past midnight by UTC, 0 at midnight exactly
    url,         \* the parameters of the page that is shown
    going,       \* those of a navigation under way, or None
    open, date,  \* the popover, and the range chosen in it
    pushes,
    picked,      \* the filters the user chose, whatever became of them
    overtaken    \* whether a filter was set while a navigation was under way

clock == <<today, skew, past>>
dvars == <<clock, url, going, open, date, pushes, picked, overtaken>>

-----------------------------------------------------------------------------
(* date-fns.                                                               *)

Span(f, t) == [from |-> f, to |-> t]
NoRange == Span(None, None)

Month(d) == CHOOSE m \in DOMAIN MonthStart : MonthStart[m] <= d /\ d < MonthStart[m + 1]
January(m) == m - ((m - 1) % 12)

StartOfMonth(d) == MonthStart[Month(d)]
EndOfMonth(d) == MonthStart[Month(d) + 1] - 1
StartOfYear(d) == MonthStart[January(Month(d))]
EndOfYear(d) == MonthStart[January(Month(d)) + 12] - 1
\* Day 0 is a Sunday and a week starts on a Monday.
StartOfWeek(d) == d - ((d - 1) % 7)
EndOfWeek(d) == StartOfWeek(d) + 6

\* The same day n months before, or the last of a shorter month.
SubMonths(d, n) ==
    LET m == Month(d) - n
        same == MonthStart[m] + (d - StartOfMonth(d))
    IN IF same < MonthStart[m + 1] THEN same ELSE MonthStart[m + 1] - 1

\* RollingYear, a faulty variant: the last year up to today.
RollingYear(p, now) == Span(SubMonths(now, 12) - 1, now)
\* onPresetSelect.  Time begins, for the preset allTime, in 2000.
PresetRange(p, now) ==
    CASE p = "today" -> Span(now, now)
      [] p = "yesterday" -> Span(now - 1, now - 1)
      [] p = "thisWeek" -> Span(StartOfWeek(now), EndOfWeek(now))
      [] p = "lastWeek" -> Span(StartOfWeek(now - 7), EndOfWeek(now - 7))
      [] p = "thisMonth" -> Span(StartOfMonth(now), EndOfMonth(now))
      [] p = "lastMonth" -> Span(StartOfMonth(SubMonths(now, 1)), EndOfMonth(SubMonths(now, 1)))
      [] p = "thisYear" -> Span(StartOfYear(now), EndOfYear(now))
      [] p = "lastYear" -> Span(StartOfYear(SubMonths(now, 12)), EndOfYear(SubMonths(now, 12)))
      [] p = "allTime" -> Span(-8401, now)

-----------------------------------------------------------------------------
(* The address, and what is made of it.                                    *)

Or(value, default) == IF value \in {None, Malformed} THEN default ELSE value

\* paramState: what the button in the header says and the popover starts from.
\* MonthBack, a faulty variant: the API's range begins 30 days back.
MonthBack == Span(Or(url.from, SubMonths(today, 1)), Or(url.to, today))
ParamState == Span(Or(url.from, today - 30), Or(url.to, today))

\* parseDateRange of the API, in UTC: only what is omitted has a default, and
\* the defaults keep the time of day of now.
Midnight(d) == 2 * d
EndOfDay(d) == 2 * d + 1
CalendarDay(i) == i \div 2
MaxDateRangeDays == 366

Asked(f, t) ==
    LET now == Midnight(today + skew) + past IN
    Span(IF f = None THEN now - 2 * 30 ELSE Midnight(f), IF t = None THEN now ELSE EndOfDay(t))
Accepted(f, t) ==
    /\ Malformed \notin {f, t}
    /\ LET r == Asked(f, t) IN
       r.from <= r.to /\ CalendarDay(r.to) - CalendarDay(r.from) < MaxDateRangeDays

\* The days of the rows that are listed: a row is stored at its day's midnight
\* and is listed if that is within what was asked for.
Listed(f, t) == Span(CalendarDay(Asked(f, t).from + 1), CalendarDay(Asked(f, t).to))

-----------------------------------------------------------------------------
(* The controls.  Each builds the query from the parameters it sees.       *)

\* push: the latest navigation replaces one that is under way.
Push(target) ==
    /\ pushes < MaxPushes /\ pushes' = pushes + 1
    /\ going' = target
    /\ overtaken' = (overtaken \/ going # None)
    /\ UNCHANGED <<clock, url>>

\* OnlyDates, a faulty variant: the account is not carried over.
OnlyDates(range) == [account |-> None, from |-> range.from, to |-> range.to]
WithDates(range) == [account |-> url.account, from |-> range.from, to |-> range.to]

WithAccount(a) == [url EXCEPT !.account = a]

OpenFilter ==
    /\ ~open
    /\ open' = TRUE /\ date' = ParamState
    /\ UNCHANGED <<clock, url, going, pushes, picked, overtaken>>

PickPreset(p) ==
    /\ open
    /\ date' = PresetRange(p, today)
    /\ UNCHANGED <<clock, url, going, open, pushes, picked, overtaken>>

\* The calendar: a first click begins a range, the second ends it.
PickDay ==
    /\ open
    /\ date' = IF date.from # None /\ date.to = None THEN Span(date.from, today)
                                                     ELSE Span(today - 1, None)
    /\ UNCHANGED <<clock, url, going, open, pushes, picked, overtaken>>

Whole == date.from # None /\ date.to # None

\* The popover is closed by any click elsewhere.
ClosePopover ==
    /\ open
    /\ open' = FALSE /\ date' = NoRange
    /\ UNCHANGED <<clock, url, going, pushes, picked, overtaken>>

Apply ==
    /\ open /\ Whole
    /\ Push(WithDates(date))
    /\ picked' = [picked EXCEPT !.from = date.from, !.to = date.to]
    /\ open' = FALSE /\ date' = NoRange

Reset ==
    /\ open /\ Whole
    /\ Push(WithDates(NoRange))
    /\ picked' = [picked EXCEPT !.from = None, !.to = None]
    /\ open' = FALSE /\ date' = NoRange

PickAccount(a) ==
    /\ ~open /\ a # url.account
    /\ Push(WithAccount(a))
    /\ picked' = [picked EXCEPT !.account = a]
    /\ UNCHANGED <<open, date>>

Arrive ==
    /\ going # None
    /\ url' = going /\ going' = None
    /\ UNCHANGED <<clock, open, date, pushes, picked, overtaken>>

-----------------------------------------------------------------------------

FilterInit ==
    /\ today \in Today /\ skew \in Skew /\ past \in 0..1
    /\ \E f \in FirstFrom : url = [account |-> None, from |-> f, to |-> None]
    /\ picked = url
    /\ going = None
    /\ open = FALSE /\ date = NoRange
    /\ pushes = 0 /\ overtaken = FALSE

FilterNext ==
    \/ \E p \in Preset : PickPreset(p)
    \/ \E a \in Account \cup {None} : PickAccount(a)
    \/ OpenFilter \/ PickDay \/ ClosePopover \/ Apply \/ Reset \/ Arrive

FilterSpec == FilterInit /\ [][FilterNext]_dvars

-----------------------------------------------------------------------------
(* Properties.                                                             *)

Address == [account : Account \cup {None}, from : Param, to : Param]

\* The type of every variable.
FilterTypeOK ==
    /\ today \in Today /\ skew \in Skew /\ past \in 0..1
    /\ url \in Address /\ picked \in Address /\ going \in Address \cup {None}
    /\ open \in BOOLEAN /\ overtaken \in BOOLEAN
    /\ date \in [from : Int \cup {None}, to : Int \cup {None}]
    /\ pushes \in 0..MaxPushes

\* Every preset but the last is a range the API takes, whatever day it is:
\* this year is within its 366 days in a leap year too, and the months and
\* years before end where they should.  "All time" is always refused.
PresetsAccepted ==
    \A p \in AnyPreset :
        LET r == PresetRange(p, today) IN Accepted(r.from, r.to) <=> p # "allTime"

\* How far the header is from the days the lists show (date-filter.tsx:228).
\* What the address says it names exactly.  A default end is off by the day by
\* which UTC and the browser's clock may differ; a default start by that and,
\* but at midnight exactly, by one day more: the rows of the first day the
\* header names lie before the time of day from which the API lists them.
LabelTruthful ==
    Accepted(url.from, url.to) =>
        LET listed == Listed(url.from, url.to) IN
        /\ listed.from - ParamState.from = IF url.from = None THEN skew + past ELSE 0
        /\ listed.to - ParamState.to = IF url.to = None THEN skew ELSE 0

\* Setting one filter leaves the other as the user set it, unless one was set
\* before the navigation of the other was over, which undoes it.
FiltersCompose == going = None /\ ~overtaken => url = picked

\* The presets are ranges the API takes, on every day, the header names the
\* days that are listed but for what the defaults' clock takes off, and the two
\* filters leave each other alone (date-filter.tsx, account-filter.tsx).
FiltersHold == PresetsAccepted /\ LabelTruthful /\ FiltersCompose
=============================================================================
