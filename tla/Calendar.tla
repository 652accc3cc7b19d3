----------------------------- MODULE Calendar -------------------------------
(***************************************************************************)
(* The clock: the 32-bit register the device and the SAM board stamp their *)
(* messages with (rtc.c), and the date arithmetic beside it (calendar.c).  *)
(*                                                                         *)
(* TLC's integers are narrower than u32, so what does not fit is a pair:   *)
(* the register is <<bits 31..17, bits 16..0>>, a timestamp is <<days,     *)
(* seconds of the day>>.  Months and days count from 0 in calendar.c and   *)
(* from 1 in rtc.c.                                                        *)
(***************************************************************************)
EXTENDS Integers, Sequences

CONSTANTS
    Years,      \* years the clock may show
    Clocks,     \* times of day to begin with, <<hour, minute, second>>
    MaxSteps    \* bound: operations on one date

EPOCH_YEAR == 1970
OVERFLOW_YEAR == 2106
SECS_PER_MINUTE == 60
SECS_PER_HOUR == 3600
SECS_PER_DAY == 86400

VARIABLES date,   \* [year, month, day, hour, minute, second]
          moved   \* history: how often it was moved

dateVars == <<date, moved>>

\* calendar_leapyear
calendar_leapyear(year) == year % 4 = 0 /\ (year % 100 # 0 \/ year % 400 = 0)

\* calendar_yearsize
calendar_yearsize(year) == IF calendar_leapyear(year) THEN 366 ELSE 365

\* month[2][12]
MonthDays(leap, month) ==
    CASE month = 1 -> IF leap THEN 29 ELSE 28
      [] month \in {3, 5, 8, 10} -> 30
      [] OTHER -> 31

\* The register has 6 bits for the year: the moves must not lead out of them.
ASSUME CalendarAssumption ==
    /\ MaxSteps \in Nat /\ Years \subseteq 2000..(2063 - MaxSteps)
    /\ Clocks \subseteq (0..23) \X (0..59) \X (0..59)

\* calendar_is_date_valid
calendar_is_date_valid(d) ==
    /\ d.second < 60 /\ d.minute < 60 /\ d.hour < 24
    /\ d.month < 12 /\ d.day < 31
    /\ d.day < MonthDays(calendar_leapyear(d.year), d.month)
    /\ EPOCH_YEAR <= d.year /\ d.year < OVERFLOW_YEAR
-----------------------------------------------------------------------------
\* calendar_add_year_to_date and calendar_add_month_to_date
YearAdded(d) == IF d.year < 2105 THEN [d EXCEPT !.year = @ + 1] ELSE d
MonthAdded(d) ==
    IF d.month + 1 = 12 THEN [YearAdded(d) EXCEPT !.month = 0]
    ELSE [d EXCEPT !.month = @ + 1]

\* Broken on purpose, for the mutants: no new day.
HourAddedSameDay(d) == [d EXCEPT !.hour = (@ + 1) % 24]

\* calendar_add_day_to_date
DayAdded(d) ==
    IF d.day + 1 = MonthDays(calendar_leapyear(d.year % 256), d.month)
    THEN [MonthAdded(d) EXCEPT !.day = 0]
    ELSE [d EXCEPT !.day = @ + 1]

\* calendar_add_hour_to_date, calendar_add_minute_to_date and calendar_add_second_to_date
HourAdded(d) ==
    IF d.hour + 1 = 24 THEN [DayAdded(d) EXCEPT !.hour = 0] ELSE [d EXCEPT !.hour = @ + 1]
MinuteAdded(d) ==
    IF d.minute + 1 = 60 THEN [HourAdded(d) EXCEPT !.minute = 0]
    ELSE [d EXCEPT !.minute = @ + 1]
SecondAdded(d) ==
    IF d.second + 1 = 60 THEN MinuteAdded([d EXCEPT !.second = 0])
    ELSE [d EXCEPT !.second = @ + 1]

\* calendar_date_to_tz: a whole number of hours and some minutes east.
ToTimeZone(d, hour, min) ==
    LET m == IF d.minute + min >= 60
             THEN [HourAdded(d) EXCEPT !.minute = d.minute + min - 60]
             ELSE [d EXCEPT !.minute = @ + min]
        h == d.hour + hour
    IN IF h >= 24 THEN [DayAdded(m) EXCEPT !.hour = h - 24] ELSE [m EXCEPT !.hour = h]
-----------------------------------------------------------------------------
\* calendar_date_to_timestamp, of a valid date
calendar_date_to_timestamp(d) ==
    LET leap == calendar_leapyear(d.year)
        months[m \in 0..12] == IF m = 0 THEN 0 ELSE months[m - 1] + MonthDays(leap, m - 1)
        years[y \in EPOCH_YEAR..OVERFLOW_YEAR] ==
            IF y = EPOCH_YEAR THEN 0 ELSE years[y - 1] + calendar_yearsize(y - 1)
    IN <<d.day + months[d.month] + years[d.year],
         SECS_PER_HOUR * d.hour + SECS_PER_MINUTE * d.minute + d.second>>

\* calendar_timestamp_to_date: 2106 is the last year of an u32 of seconds.
calendar_timestamp_to_date(stamp) ==
    LET clock == stamp[2]
        within[y \in EPOCH_YEAR..OVERFLOW_YEAR] == [days \in Nat |->
            IF y < OVERFLOW_YEAR /\ days >= calendar_yearsize(y) THEN within[y + 1][days - calendar_yearsize(y)]
            ELSE <<y, days>>]
        year == within[EPOCH_YEAR][stamp[1]]
        leap == calendar_leapyear(year[1])
        left[m \in 0..12] == [days \in Nat |->
            IF m < 12 /\ days >= MonthDays(leap, m) THEN left[m + 1][days - MonthDays(leap, m)]
            ELSE <<m, days>>]
        month == left[0][year[2]]
    IN [year |-> year[1], month |-> month[1], day |-> month[2],
        hour |-> clock \div SECS_PER_HOUR,
        minute |-> (clock % SECS_PER_HOUR) \div SECS_PER_MINUTE, second |-> clock % SECS_PER_MINUTE]

\* The date as the modem and rtc.c have it: the first day of January is 1, 1.
Civil(d) == [d EXCEPT !.month = @ + 1, !.day = @ + 1]

\* Broken on purpose: the hour a bit too low.
ToRegisterOverlaps(t) ==
    <<((t.year - 2000) % 64) * 512 + t.month * 32 + t.day,
      t.hour * 2048 + t.minute * 64 + t.second>>

\* rtc_calendar_time_to_register_value
ToRegister(t) ==
    <<((t.year - 2000) % 64) * 512 + t.month * 32 + t.day,
      t.hour * 4096 + t.minute * 64 + t.second>>

\* rtc_calendar_register_value_to_time
ToTime(r) ==
    [year |-> r[1] \div 512 + 2000, month |-> (r[1] \div 32) % 16, day |-> r[1] % 32,
     hour |-> r[2] \div 4096, minute |-> (r[2] \div 64) % 64, second |-> r[2] % 64]

\* check_time: the board is told to set its clock when the registers differ by
\* more than 60, "second" in its log.
check_time(local, remote) ==
    LET high == local[1] - remote[1]
        low  == local[2] - remote[2]
    IN \/ high \notin -1..1
       \/ high * 131072 + low \notin -60..60

\* Broken on purpose: the year begins in January.
DayWeekFromJanuary(t) ==
    (7000 + t.day + t.year + t.year \div 4 - t.year \div 100 + t.year \div 400
        + (31 * t.month) \div 12) % 7

\* day_week: 0 is Sunday
day_week(t) ==
    LET a == (14 - t.month) \div 12
        y == t.year - a
        m == t.month + 12 * a - 2
    IN (7000 + t.day + y + y \div 4 - y \div 100 + y \div 400 + (31 * m) \div 12) % 7
-----------------------------------------------------------------------------
CalendarInit ==
    /\ moved = 0
    /\ \E year \in Years, month \in 0..11, day \in 0..30, clock \in Clocks :
          /\ date = [year |-> year, month |-> month, day |-> day,
                     hour |-> clock[1], minute |-> clock[2], second |-> clock[3]]
          /\ calendar_is_date_valid(date)

Moves(d) == moved < MaxSteps /\ moved' = moved + 1 /\ date' = d

AddSecond == Moves(SecondAdded(date))
AddMinute == Moves(MinuteAdded(date))
AddHour   == Moves(HourAdded(date))
AddDay    == Moves(DayAdded(date))
ShiftEast(hour) == Moves(ToTimeZone(date, hour, 0))

CalendarNext ==
    \/ AddSecond
    \/ AddMinute
    \/ AddHour
    \/ AddDay
    \/ \E hour \in {3, 12} : ShiftEast(hour)

CalendarSpec == CalendarInit /\ [][CalendarNext]_dateVars
-----------------------------------------------------------------------------
(* What the clock promises. *)

After(seconds) ==
    LET now == calendar_date_to_timestamp(date)
        clock == now[2] + seconds
    IN calendar_date_to_timestamp(date)' = <<now[1] + clock \div SECS_PER_DAY, clock % SECS_PER_DAY>>

\* Adding a second, a minute, an hour, a day, or the hours of a time zone moves the
\* timestamp by just that, over the ends of days, months, leap Februaries
\* and years (calendar.c:78-190, 303-334, 462-471).
MovesExactly ==
    [][/\ AddSecond => After(1)
       /\ AddMinute => After(60)
       /\ AddHour => After(3600)
       /\ AddDay => After(86400)
       /\ \A hour \in {3, 12} : ShiftEast(hour) => After(3600 * hour)]_dateVars

Below(r, s) == r[1] < s[1] \/ (r[1] = s[1] /\ r[2] < s[2])

Register == ToRegister(Civil(date))

\* The register leads back to the time it was made of, a later time is a greater
\* register, and a clock that is a minute or more off is told to set itself,
\* though the registers are no count of seconds (rtc.c:11-32, incury.c:193-204).
RegisterKeepsOrder ==
    [][/\ ToTime(Register) = Civil(date)
       /\ Below(Register, Register')
       /\ ~ AddSecond => check_time(Register, Register') /\ check_time(Register', Register)]_dateVars

\* A timestamp leads back to its date, which the program's own test accepts, and
\* its days give the day of the week of rtc.c, "(day_number + 4) % 7"
\* (calendar.c:203-265, 303-334, rtc.c:4-9).
DatesAgree ==
    LET stamp == calendar_date_to_timestamp(date)
    IN /\ calendar_is_date_valid(date)
       /\ calendar_timestamp_to_date(stamp) = date
       /\ day_week(Civil(date)) = (stamp[1] + 4) % 7
=============================================================================
