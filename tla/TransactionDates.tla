-------------------------- MODULE TransactionDates --------------------------
(***************************************************************************)
(* The date of a transaction on its way from the API to a picker and back  *)
(* (features/transactions/api/transaction-date.ts, transaction-payload.ts).*)
(*                                                                         *)
(* It is a day.  The API sends it as an instant, that day's midnight in    *)
(* UTC; the picker holds an instant too, the day's midnight where the      *)
(* browser is.  Instants and offsets are counted in half hours, days in    *)
(* days.  In some countries the clocks go forward at midnight, so that one *)
(* day has none.                                                           *)
(***************************************************************************)
EXTENDS Integers, Nothing

CONSTANTS
    Day,          \* a set of days
    Zone,         \* offsets from UTC the browser may have
    MaxJourneys   \* changes of zone

ASSUME DatesAssumption ==
    /\ Day \subseteq Int /\ Zone \subseteq Int /\ None \notin Int
    /\ MaxJourneys \in Nat

VARIABLES
    zone, springs,  \* the browser's offset, and the day it grows at midnight
    storedDay,      \* server: the day of the transaction
    picker,         \* the instant the form holds, None without a form
    intended,       \* the day the form's user means
    away,           \* whether the zone changed under the open form
    journeys

datevars == <<zone, springs, storedDay, picker, intended, away, journeys>>

Length == 48                  \* of a day
Hour == 2

-----------------------------------------------------------------------------
(* The Date of JavaScript.                                                 *)

\* The offset in force at an instant.
Offset(i) ==
    IF springs # None /\ i + zone >= Length * springs THEN zone + Hour ELSE zone

\* getUTC..., get..., new Date(y, m, d): a local midnight that does not exist
\* is read with the offset from before it, and becomes one o'clock.
UTCDay(i) == i \div Length
LocalDay(i) == (i + Offset(i)) \div Length
LocalMidnight(d) ==
    IF Offset(Length * d - zone - Hour) = zone THEN Length * d - zone
                                               ELSE Length * d - zone - Hour

-----------------------------------------------------------------------------
(* transaction-date.ts                                                     *)

\* ApiDate: what the API serializes a day as.
ApiDate(d) == Length * d

\* LocalParts, a faulty variant: the instant is read where the browser is.
LocalParts(i) == LocalDay(i)
CalendarDateFromApi(i) == UTCDay(i)

LocalDateFromCalendarDate(d) == LocalMidnight(d)

\* IsoSlice, a faulty variant: toISOString().slice(0, 10).
IsoSlice(i) == UTCDay(i)
CalendarDateFromLocalDate(i) == LocalDay(i)

LocalDateFromApi(i) == LocalDateFromCalendarDate(CalendarDateFromApi(i))

\* toTransactionInput
ToTransactionInput(i) == CalendarDateFromLocalDate(i)

-----------------------------------------------------------------------------
(* The form.                                                               *)

\* The edit sheet's default, from the row the API sent.
OpenEditForm ==
    /\ picker = None
    /\ picker' = LocalDateFromApi(ApiDate(storedDay))
    /\ intended' = storedDay /\ away' = FALSE
    /\ UNCHANGED <<zone, springs, storedDay, journeys>>

\* The default of a new transaction: this moment, at any time of a day.
OpenNewForm ==
    /\ picker = None
    /\ \E d \in Day, time \in {0, Hour, Length - 1} :
          /\ picker' = LocalMidnight(d) + time
          /\ LocalDay(picker') = d /\ intended' = d
    /\ away' = FALSE
    /\ UNCHANGED <<zone, springs, storedDay, journeys>>

\* DatePicker, whose calendar gives a day's local midnight.
PickDate(d) ==
    /\ picker # None
    /\ picker' = LocalMidnight(d)
    /\ intended' = d /\ away' = FALSE
    /\ UNCHANGED <<zone, springs, storedDay, journeys>>

SubmitForm ==
    /\ picker # None
    /\ storedDay' = ToTransactionInput(picker)
    /\ picker' = None /\ intended' = None
    /\ UNCHANGED <<zone, springs, away, journeys>>

Travel(z) ==
    /\ z # zone
    /\ journeys < MaxJourneys /\ journeys' = journeys + 1
    /\ zone' = z
    /\ away' = (away \/ picker # None)
    /\ UNCHANGED <<springs, storedDay, picker, intended>>

-----------------------------------------------------------------------------

DatesInit ==
    /\ zone \in Zone /\ springs \in Day \cup {None}
    /\ storedDay \in Day
    /\ picker = None /\ intended = None /\ away = FALSE
    /\ journeys = 0

DatesNext ==
    \/ OpenEditForm \/ OpenNewForm \/ SubmitForm
    \/ \E d \in Day : PickDate(d)
    \/ \E z \in Zone : Travel(z)

DatesSpec == DatesInit /\ [][DatesNext]_datevars

-----------------------------------------------------------------------------
(* Properties.                                                             *)

\* The type of every variable.
DatesTypeOK ==
    /\ zone \in Zone /\ springs \in Day \cup {None}
    /\ storedDay \in Int
    /\ picker \in Int \cup {None} /\ intended \in Int \cup {None}
    /\ away \in BOOLEAN /\ journeys \in 0..MaxJourneys

\* Saving files a transaction under the day its user meant, in every zone:
\* an edit that changes nothing else leaves the day, wherever the row was
\* last saved, and a picked day is that day (transaction-date.ts:8).  A form
\* that is open while the browser's zone changes is the exception.
DayKept ==
    [][picker # None /\ picker' = None => storedDay' = intended \/ away]_datevars
=============================================================================
