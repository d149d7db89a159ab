------------------------------- MODULE TimeUtil -------------------------------
(* time_util.cpp: the clock as a time stamp and as a date. The calendar of the *)
(* system (GetSystemTime, gmtime_r, mktime) is external. An instant is a pair  *)
(* of the seconds since 1970 and of the nanoseconds since that second; a time  *)
(* stamp in microseconds is kept as such a pair too.                           *)
EXTENDS Integers, Sequences, FiniteSetsExt, TLC

\* External: the proleptic calendar, and the date of a second.
Leap(y) == (y % 4 = 0 /\ y % 100 # 0) \/ y % 400 = 0
MonthDays(y) == <<31, IF Leap(y) THEN 29 ELSE 28, 31, 30, 31, 30, 31, 31, 30, 31, 30, 31>>
YearStart(y) == (365 * (y - 1970)) + ((y - 1969) \div 4) \* to 2099
MonthStart(y, m) == YearStart(y) + MapThenSumSet(LAMBDA k : MonthDays(y)[k], 1..(m - 1))

Date(sec) ==
    LET day == sec \div 86400
        y == CHOOSE y \in (1970 + (day \div 366))..(1970 + (day \div 365)) :
                 YearStart(y) <= day /\ day < YearStart(y + 1)
        m == CHOOSE m \in 1..12 :
                 MonthStart(y, m) <= day /\ day < MonthStart(y, m) + MonthDays(y)[m]
    IN  [year |-> y, month |-> m, day |-> day - MonthStart(y, m) + 1,
         hour |-> (sec % 86400) \div 3600, minute |-> (sec % 3600) \div 60, second |-> sec % 60]

\* External: tm counts years from 1900 and months from 0; mktime takes it for a
\* time of the zone, one hour off when its tm_isdst says so in vain.
Tm(date) == [date EXCEPT !.year = @ - 1900, !.month = @ - 1]
mktime(tm, zone, isdst) ==
    ((MonthStart(tm.year + 1900, tm.month + 1) + tm.day - 1) * 86400)
        + (tm.hour * 3600) + (tm.minute * 60) + tm.second - (zone * 3600)
        - (IF isdst THEN 3600 ELSE 0)

-----------------------------------------------------------------------------
GetCurrentTimestampByMicroSec(now) == <<now[1], now[2] \div 1000>>
GetCurrentTimestampByMilliSec(now) == <<now[1], GetCurrentTimestampByMicroSec(now)[2] \div 1000>>
GetCurrentTimestampBySec(now) == now[1]

\* The nanoseconds of the clock are taken for its seconds, and the fields of tm
\* for years and months.
ClockTime(now, platform, zone) ==
    IF platform = "windows"
    THEN Date(now[1] + (zone * 3600)) @@ [milliseconds |-> now[2] \div 1000000]
    ELSE Tm(Date(now[2] + (zone * 3600))) @@ [milliseconds |-> 0]
GetUTCTime(now, platform) == ClockTime(now, platform, 0)
GetLocalTime(now, platform, zone) == ClockTime(now, platform, zone)

\* ticks: hundreds of nanoseconds since 1601, kept as an instant too.
FILETIMEToUTC(now) == GetUTCTime(now, "windows")

\* tm_isdst is not set: stray is what it happens to be.
UTCToTimeStamp(t, zone, stray) ==
    <<mktime([year |-> t.year - 1900, month |-> t.month - 1, day |-> t.day,
              hour |-> t.hour, minute |-> t.minute, second |-> t.second], zone, stray), 0>>
-----------------------------------------------------------------------------
\* The last second of a year, of a February, and others.
LOCAL Seconds ==
    {YearStart(y) * 86400 + s : y \in {1970, 1972, 1973, 2000, 2001, 2024, 2037}, s \in {0, 5097599}}
        \cup {MonthStart(y, 3) * 86400 - 1 : y \in {1972, 1999, 2000, 2001}} \cup {1700000000}
TimeInputs ==
    [now : {<<s, n>> : s \in {s \in Seconds : s >= 86400}, n \in {86400, 999999999}},
     zone : {-5, 0, 8}, stray : BOOLEAN]

\* On Windows a date turns back into its time stamp, to the second, where the zone
\* is that of UTC and the stray flag is clear; and in any zone the stamps of two
\* dates are as far apart as the dates.
TimeRoundTrips(d) ==
    LET StampOf(now) == UTCToTimeStamp(GetUTCTime(now, "windows"), d.zone, d.stray)
        later == <<d.now[1] + 86399, d.now[2]>>
    IN  /\ d.zone = 0 /\ ~d.stray => StampOf(d.now) = <<GetCurrentTimestampBySec(d.now), 0>>
        /\ StampOf(later)[1] - StampOf(d.now)[1] = 86399

\* The dates are those of the calendar on Windows: one second later is the next
\* one.
TimeAgrees(d) ==
    LET t == GetLocalTime(d.now, "windows", d.zone)
        next == GetLocalTime(<<d.now[1] + 1, d.now[2]>>, "windows", d.zone)
    IN  /\ next.second = (t.second + 1) % 60
        /\ next.minute = IF next.second = 0 THEN (t.minute + 1) % 60 ELSE t.minute
        /\ next.day \in {t.day, t.day + 1, 1}
        /\ (next.day # t.day) = (<<t.hour, t.minute, t.second>> = <<23, 59, 59>>)
=============================================================================
