------------------------------- MODULE CivilClock -------------------------------
(***************************************************************************)
(* The reference for Date and VpUtils: a calendar that advances day by day *)
(* by the rules that everyone knows, along with the number of days that    *)
(* have passed and the day of the week, and a text that is typed letter by *)
(* letter.  The invariants say that the algorithms of date.h and of        *)
(* vp_utils.h, none of which counts day by day, agree with it.             *)
(***************************************************************************)
EXTENDS VpUtils, DateParse, FiniteSets

CONSTANTS
  FirstYear, LastYear,  \* bound: the years the clock runs through
  DetailedYears,        \* bound: the years of which it shows each day
  Shifts,               \* bound: the months and days that are added to dates
  TimesOfDay, Zones,    \* bound: the times of a day, in ticks; the time zones
  Letter, MaxLetters,   \* bound: the texts that are typed; 0 is the delimiter
  Moves, MaxMoved,      \* bound: the months and years a cursor moves by, how far
  DateFormats,          \* bound: formats that determine a date, without separators
  WideFormats,          \* bound: the same with separators and wide years
  CenturyFormats,       \* bound: formats with a year of two digits
  Mixed,                \* bound: how far apart the dates are whose fields are mixed
  TimeFormats           \* bound: formats that determine a date and a time

(* Every year is one that year_ok accepts, those that a shift or a move    *)
(* reaches included: date.h says nothing of the others.  No time zone is   *)
(* more than a day away.                                                   *)
YearOk(y) == -32767 <= y /\ y <= 32767

ASSUME CivilClockAssumption ==
  /\ FirstYear \in Int /\ YearOk(FirstYear) /\ FirstYear <= 1970
  /\ LastYear \in Int /\ YearOk(LastYear) /\ 1970 <= LastYear
  /\ \A n \in Shifts :
       n \in Int /\ YearOk((12 * FirstYear + n) \div 12) /\ YearOk((12 * LastYear + 11 + n) \div 12)
  /\ Moves \subseteq Int
  /\ MaxMoved \in Nat /\ YearOk(1970 + (-MaxMoved) \div 12) /\ YearOk(1970 + MaxMoved \div 12)
  /\ TimesOfDay \subseteq 0..(TicksPerDay - 1)
  /\ Zones \subseteq -24..24

VARIABLES
  date,     \* the current date
  elapsed,  \* the days since 1970-01-01
  wd,       \* the day of the week, Sunday being 0
  text,     \* the text typed so far
  cursors,  \* one object of each class that names a month, advanced in place
  moved     \* by how many months

vars == <<date, elapsed, wd, text, cursors, moved>>

LeapYear(y) == y % 4 = 0 /\ (y % 100 = 0 => y % 400 = 0)

MonthLength(y, m) ==
  CASE m \in {4, 6, 9, 11} -> 30
    [] m = 2 -> IF LeapYear(y) THEN 29 ELSE 28
    [] OTHER -> 31

Tomorrow ==
  IF date.day < MonthLength(date.year, date.month) THEN ymd(date.year, date.month, date.day + 1)
  ELSE IF date.month < 12 THEN ymd(date.year, date.month + 1, 1)
  ELSE ymd(date.year + 1, 1, 1)

Advance(to, n) ==
  /\ date' = to
  /\ elapsed' = elapsed + n
  /\ wd' = (wd + n) % 7
  /\ text = <<>> /\ moved = 0
  /\ UNCHANGED <<text, cursors, moved>>

NextDay ==
  /\ date.year \in DetailedYears
  /\ Tomorrow.year <= LastYear
  /\ Advance(Tomorrow, 1)

(* A whole year at once, from New Year to New Year, forwards and backwards.*)
NextYear ==
  /\ date.month = 1 /\ date.day = 1 /\ date.year < LastYear
  /\ Advance(ymd(date.year + 1, 1, 1), IF LeapYear(date.year) THEN 366 ELSE 365)

PreviousYear ==
  /\ date.month = 1 /\ date.day = 1 /\ date.year > FirstYear
  /\ Advance(ymd(date.year - 1, 1, 1), IF LeapYear(date.year - 1) THEN -366 ELSE -365)

Type(c) ==
  /\ elapsed = 0 /\ moved = 0
  /\ Len(text) < MaxLetters
  /\ text' = Append(text, c)
  /\ UNCHANGED <<date, elapsed, wd, cursors, moved>>

(* The cursors start at the month of 1970-01-01.                           *)
FirstSunday == weekday_indexed_of(0, 1)
CursorsAt(y, m) ==
  [ym |-> ym(y, m), ymd |-> ymd(y, m, 31), ymdl |-> ymd_last(y, m),
   ymw |-> ymw(y, m, FirstSunday), ymwl |-> ymw_last(y, m, weekday_last_of(0))]

Move(dm, dy) ==
  /\ elapsed = 0 /\ text = <<>>
  /\ moved' = moved + dm + 12 * dy
  /\ moved' \in -MaxMoved..MaxMoved
  /\ cursors' = [ym |-> year_month_advance(cursors.ym, dm, dy),
                 ymd |-> year_month_day_advance(cursors.ymd, dm, dy),
                 ymdl |-> year_month_day_last_advance(cursors.ymdl, dm, dy),
                 ymw |-> year_month_weekday_advance(cursors.ymw, dm, dy),
                 ymwl |-> year_month_weekday_last_advance(cursors.ymwl, dm, dy)]
  /\ UNCHANGED <<date, elapsed, wd, text>>

(* 1970-01-01 was a Thursday.                                              *)
Init ==
  /\ date = ymd(1970, 1, 1)
  /\ elapsed = 0
  /\ wd = 4
  /\ text = <<>>
  /\ cursors = CursorsAt(1970, 1)
  /\ moved = 0

Next ==
  \/ NextDay \/ NextYear \/ PreviousYear
  \/ \E c \in Letter \cup {0} : Type(c)
  \/ \E dm, dy \in Moves : Move(dm, dy)

Spec == Init /\ [][Next]_vars

-------------------------------------------------------------------------------
Month == ym(date.year, date.month)
Length == MonthLength(date.year, date.month)
FirstWeekday == (wd - (date.day - 1)) % 7

(* ok() accepts exactly the dates that exist: every day of a month of this *)
(* year, or of some year, and the fifth weekday only in a month that has   *)
(* one.                                                                    *)
OkMeansExists ==
  /\ \A m \in 0..13, d \in 0..32 :
       LET exists == m \in 1..12 /\ d \in 1..MonthLength(date.year, m)
       IN  /\ year_month_day_ok(ymd(date.year, m, d)) <=> exists
           /\ month_day_ok(md(m, d)) <=> exists \/ (m = 2 /\ d = 29)
  /\ \A w \in (0..6) \cup {8}, n \in 0..6 :
       LET wdi == weekday_indexed_of(w, n)
           named == w <= 6 /\ n \in 1..5
       IN  /\ month_weekday_ok(mw(date.month, wdi)) <=> named
           /\ year_month_weekday_ok(ymw(date.year, date.month, wdi))
                <=> named /\ ((w - FirstWeekday) % 7) + 7 * (n - 1) + 1 <= Length

(* The date, the day of the week and "the n-th weekday of the month" that  *)
(* date.h computes from a number of days are those of the calendar, over   *)
(* leap years, centuries, eras of 400 years and the year 0, and each of    *)
(* the four ways to name the day gives its number again, and ok() accepts  *)
(* the dates that exist.                                                   *)
DatesMatchDays ==
  /\ OkMeansExists
  /\ from_days(elapsed) = date
  /\ weekday_from_days(elapsed) = wd /\ weekday_of(iso_encoding(wd)) = wd
  /\ LET nth == Cardinality({d \in 1..date.day : (FirstWeekday + d - 1) % 7 = wd})
         x == year_month_weekday_from_days(elapsed)
     IN  /\ x = ymw(date.year, date.month, weekday_indexed_of(wd, nth))
         /\ year_month_weekday_to_days(x) = elapsed
  /\ to_days(date) = elapsed
  /\ date.day = Length <=> last_to_days(ymd_last(date.year, date.month)) = elapsed
  /\ date.day > Length - 7 <=>
       year_month_weekday_last_to_days(ymw_last(date.year, date.month, weekday_last_of(wd)))
         = elapsed

(* Adding months, years and days moves along the calendar and back: dates, *)
(* months and days of the week compare and subtract as their numbers do,   *)
(* and a cursor that is advanced in place, by months and years in any      *)
(* order, ends in the month it should.                                     *)
ArithmeticFollowsCalendar ==
  /\ cursors = CursorsAt(1970 + moved \div 12, 1 + (moved % 12))
  /\ moved = 0 =>
     \A n \in Shifts :
       LET later == year_month_plus(Month, n)
           other == from_days(elapsed + n)
       IN  /\ year_month_minus(later, Month) = n
           /\ later.month = month_plus(date.month, n) /\ month_ok(later.month)
           /\ month_minus(later.month, date.month) = n % 12
           /\ year_month_less(Month, later) <=> n > 0
           /\ year_month_day_last_less(ymd_last(date.year, date.month),
                                       ymd_last(later.year, later.month)) <=> n > 0
           /\ year_month_plus(later, -n) = Month
           /\ weekday_plus(wd, n) = weekday_from_days(elapsed + n)
           /\ weekday_minus(weekday_plus(wd, n), wd) = n % 7
           /\ year_month_day_less(date, other) <=> n > 0
           /\ other.year = date.year =>
                (month_day_less(md(date.month, date.day), md(other.month, other.day)) <=> n > 0)
           /\ other.month = date.month /\ other.year = date.year =>
                day_plus(date.day, n) = other.day /\ day_minus(other.day, date.day) = n

(* The text that is written of a date or a time, but for the i-th field of *)
(* a format, which is that of another one.                                 *)
MixedText(fmt, i, fds, other) ==
  LET Field(k) == to_stream(<<fmt[k]>>, IF k = i THEN other ELSE fds).text
  IN  FlattenSeq([k \in DOMAIN fmt |-> Field(k)])

Clock == <<<<"H", -1>>, <<"M", -1>>, <<"S", -1>>>>

IsDate(x, d) == ~x.failed /\ x.ymd = d
IsTime(x, tp) == ~x.failed /\ to_days(x.ymd) * MsPerDay + to_duration(x.tod) = tp

(* The text of x, unless x was not read.                                   *)
DateRefused(x, fmt, mixed) ==
  \/ x.failed
  \/ to_stream(fmt, fields_of_date(x.ymd)).text = mixed
  \/ read_fields(fmt, mixed).V = 53 /\ put_V(fields_of_date(x.ymd)) = <<0, 1>>
  \/ read_fields(fmt, mixed).j = 366 /\ put_j(fields_of_date(x.ymd)) = <<0, 0, 1>>

TimeRefused(x, fmt, mixed) ==
  \/ x.failed
  \/ to_stream(fmt, fields_of_time(to_days(x.ymd) * MsPerDay + to_duration(x.tod))).text = mixed

ReadsDate(fmt, mixed) == DateRefused(read_as("year_month_day", fmt, mixed), fmt, mixed)
ReadsTime(fmt, mixed) == TimeRefused(read_as("sys_time", fmt, mixed), fmt, mixed)
ReadsDuration(x, d) == IF d < 0 THEN x.failed ELSE ~x.failed /\ to_duration(x.tod) = d

(* Two digits mean a year of 1969..2068.  At the first and the last of     *)
(* these the year that a week belongs to may be another.                   *)
TwoDigitYears == 1970..2067

(* A date that is written in any sufficient choice of fields is read as    *)
(* that date again, years before 1 with a width, and years of two digits   *)
(* from 1970 to 2067; and what is read from fields that need not fit       *)
(* together is written as the same text, so that fields that contradict    *)
(* each other are refused.  (Of a year without a week 53 or a day 366 that *)
(* reads as its successor, week 1, or as day 1 of the same year.)          *)
DateTextReadsBack ==
  /\ \A fmt \in WideFormats \cup (IF date.year > 0 THEN DateFormats ELSE {})
                 \cup (IF date.year \in TwoDigitYears THEN CenturyFormats ELSE {}) :
       IsDate(read_as("year_month_day", fmt, to_stream(fmt, fields_of_date(date)).text), date)
  /\ date.year > 0 /\ date.year \in DetailedYears \cup TwoDigitYears /\ date.month \in {1, 12} =>
     \A fmt \in DateFormats, n \in Mixed :
       \A i \in DOMAIN fmt :
         ReadsDate(fmt, MixedText(fmt, i, fields_of_date(date),
                                      fields_of_date(from_days(elapsed + n))))

(* The same of a time point, to the millisecond, in 24 or 12 hours, and of *)
(* a duration, of which a negative one is refused.                         *)
TimeTextReadsBack ==
  elapsed \in -3..3 /\ text = <<>> /\ moved = 0 =>
    \A t \in TimesOfDay :
      LET tp == floor(elapsed * TicksPerDay + t, TicksPerMs)
      IN  /\ \A fmt \in TimeFormats :
               IsTime(read_as("sys_time", fmt, to_stream(fmt, fields_of_time(tp)).text), tp)
          /\ \A fmt \in TimeFormats, t2 \in TimesOfDay :
               \A i \in DOMAIN fmt :
                 LET other == floor(elapsed * TicksPerDay + t2, TicksPerMs)
                 IN  ReadsTime(fmt, MixedText(fmt, i, fields_of_time(tp), fields_of_time(other)))
          /\ ReadsDuration(
               read_as("duration", Clock, to_stream(Clock, fields_of_duration(tp)).text), tp)


(* The time point, in ticks, of the parts of a time.                       *)
TimeOf(parts) ==
  ((to_days(ymd(parts[1], parts[2], parts[3])) * 24 + parts[4]) * 3600000
     + parts[5] * 60000 + parts[6] * 1000 + parts[7]) * TicksPerMs

(* time_split gives the parts of exactly the time point it got, but for    *)
(* the ticks within the millisecond, before and after the epoch and in     *)
(* every time zone, and each part is in its range.  make_time also takes   *)
(* durations that are not a time of a day, and negative ones.              *)
TimeSplitExact ==
  elapsed \in -3..3 /\ text = <<>> /\ moved = 0 =>
    \A t \in TimesOfDay :
      LET tp == elapsed * TicksPerDay + t
          time == make_time(trunc(tp, TicksPerMs))
      IN  /\ \A zone \in Zones :
               LET parts == time_split(tp, zone)
               IN  /\ tp + zone * TicksPerHour - TimeOf(parts) \in 0..(TicksPerMs - 1)
                   /\ parts[4] \in 0..23 /\ parts[5] \in 0..59
                   /\ parts[6] \in 0..59 /\ parts[7] \in 0..999
          /\ to_duration(time) = trunc(tp, TicksPerMs)
          /\ in_conventional_range(time) <=> to_duration(time) \in 0..(MsPerDay - 1)
          /\ in_conventional_range(time) =>
               /\ is_am(time.hours) # is_pm(time.hours)
               /\ make24(make12(time.hours), is_pm(time.hours)) = time.hours

(* Formatted times sort as text in the order of the times, as the widths   *)
(* of the parts are fixed.                                                 *)
FormattedTimesSort ==
  elapsed \in -3..3 /\ text = <<>> /\ moved = 0 =>
    \A t1, t2 \in TimesOfDay, d \in {0, 1} :
      LET tp1 == elapsed * TicksPerDay + t1
          tp2 == (elapsed + d) * TicksPerDay + t2
      IN  tp2 - tp1 >= TicksPerMs =>
            Before(time_format(tp1, DefaultTemplate, 8), time_format(tp2, DefaultTemplate, 8))

(* Splitting at the delimiter loses nothing but a delimiter at the end: no *)
(* token holds one, and joined by it the tokens are the text again.        *)
SplitKeepsText ==
  LET tokens == string_split(text, 0)
      joined == FlattenSeq([i \in DOMAIN tokens |->
                              IF i < Len(tokens) THEN Append(tokens[i], 0) ELSE tokens[i]])
  IN  /\ \A i \in DOMAIN tokens : \A j \in DOMAIN tokens[i] : tokens[i][j] # 0
      /\ text = IF ends_with(text, <<0>>) THEN Append(joined, 0) ELSE joined

===============================================================================
