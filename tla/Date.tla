---------------------------------- MODULE Date ----------------------------------
(***************************************************************************)
(* The calendar of utils/date.h, which time_split and time_format use: its *)
(* types, their ok(), their arithmetic and their conversions from and to   *)
(* the number of days since 1970-01-01 (sys_days).                         *)
(*                                                                         *)
(* An object is a number or a record of the fields of its class, and an    *)
(* operator is named for its class and what it does.  The overloads of an  *)
(* operator that only swap or convert its arguments are one definition.    *)
(* DateText has the streams; the literals are left out.                    *)
(***************************************************************************)
EXTENDS Integers, Sequences

(* The decimal digits of a number, as the standard library writes it.      *)
digits[n \in Nat] == IF n < 10 THEN <<n>> ELSE Append(digits[n \div 10], n % 10)

unsigned_char(n) == n % 256
short(n) == ((n + 32768) % 65536) - 32768

(* Division as in C++ truncates towards zero.                              *)
trunc(n, unit) == IF n >= 0 THEN n \div unit ELSE -((-n) \div unit)

(* Rounding a duration to a coarser unit.                                  *)
floor(n, unit) ==
  LET t == trunc(n, unit) IN IF t * unit > n THEN t - 1 ELSE t

-------------------------------------------------------------------------------
(* The types.                                                              *)

day == 0..255
month == 0..255
year == -32768..32767
weekday == 0..255
weekday_indexed == [weekday : 0..15, index : 0..15]
weekday_last == [weekday : weekday]
year_month == [year : year, month : month]
month_day == [month : month, day : day]
month_day_last == [month : month]
month_weekday == [month : month, wdi : weekday_indexed]
month_weekday_last == [month : month, wdl : weekday_last]
year_month_day == [year : year, month : month, day : day]
year_month_day_last == [year : year, mdl : month_day_last]
year_month_weekday == [year : year, month : month, wdi : weekday_indexed]
year_month_weekday_last == [year : year, month : month, wdl : weekday_last]

-------------------------------------------------------------------------------
(* day, month, year.                                                       *)

day_ok(d) == 1 <= d /\ d <= 31
day_minus(x, y) == x - y
day_plus(d, n) == unsigned_char(d + n)

month_ok(m) == 1 <= m /\ m <= 12

(* The difference is unsigned: it wraps below zero.                        *)
month_minus(x, y) == LET d == x - y IN IF d \in 0..11 THEN d ELSE d + 12

(* Variant with a bug: the quotient truncates for months before January.   *)
month_plus_trunc(m, n) ==
  LET mu == m + n - 1
  IN  unsigned_char(mu - trunc(mu, 12) * 12 + 1)

month_plus(m, n) ==
  LET mu == m + n - 1
      yr == trunc(IF mu >= 0 THEN mu ELSE mu - 11, 12)
  IN  unsigned_char(mu - yr * 12 + 1)

(* Variant with a bug: every hundredth year is a leap year.                *)
is_leap_julian(y) == y % 4 = 0

(* The remainders of C++ have the sign of y, which a test for 0 ignores.   *)
is_leap(y) == y % 4 = 0 /\ (y % 100 # 0 \/ y % 400 = 0)

year_ok(y) == y # -32768
year_minus(x, y) == x - y
year_plus(y, n) == short(y + n)

-------------------------------------------------------------------------------
(* weekday, weekday_indexed, weekday_last.                                 *)

(* Below -4 the day number z is converted to 2^32 + z.                     *)
weekday_from_days(z) ==
  LET two32 == (65536 % 7) * (65536 % 7)
  IN  IF z >= -4 THEN (z + 4) % 7 ELSE (two32 + z) % 7

weekday_of(wd) == IF wd # 7 THEN unsigned_char(wd) ELSE 0
weekday_ok(wd) == wd <= 6
iso_encoding(wd) == IF wd = 0 THEN 7 ELSE wd

weekday_minus(x, y) ==
  LET wdu == x - y
      wk == trunc(IF wdu >= 0 THEN wdu ELSE wdu - 6, 7)
  IN  wdu - wk * 7

weekday_plus(wd, n) ==
  LET wdu == wd + n
      wk == trunc(IF wdu >= 0 THEN wdu ELSE wdu - 6, 7)
  IN  weekday_of(wdu - wk * 7)

(* Both fields have four bits, and weekday() reads the first as a number.  *)
weekday_indexed_of(wd, i) == [weekday |-> weekday_of(wd % 16), index |-> i % 16]

weekday_indexed_ok(wdi) == weekday_ok(wdi.weekday) /\ 1 <= wdi.index /\ wdi.index <= 5
weekday_last_of(wd) == [weekday |-> wd]

-------------------------------------------------------------------------------
(* Fields that compare as in a dictionary, most significant first.         *)
Before(x, y) ==
  \E i \in DOMAIN x : x[i] < y[i] /\ \A j \in 1..(i - 1) : x[j] = y[j]

(* year_month.                                                             *)
ym(y, m) == [year |-> y, month |-> m]
year_month_ok(x) == year_ok(x.year) /\ month_ok(x.month)
year_month_less(x, y) == Before(<<x.year, x.month>>, <<y.year, y.month>>)

year_month_plus(x, dm) ==
  LET dmi == x.month - 1 + dm
      dy == trunc(IF dmi >= 0 THEN dmi ELSE dmi - 11, 12)
  IN  ym(year_plus(x.year, dy), dmi - dy * 12 + 1)

year_month_minus(x, y) == year_minus(x.year, y.year) * 12 + (x.month - y.month)
year_month_plus_years(x, dy) == ym(year_plus(x.year, dy), x.month)

(* An object that is advanced in place, by += and -= of months and years.  *)
year_month_advance(x, dm, dy) == year_month_plus_years(year_month_plus(x, dm), dy)

(* month_day, month_day_last, month_weekday, month_weekday_last.           *)
md(m, d) == [month |-> m, day |-> d]
md_last(m) == [month |-> m]
mw(m, wdi) == [month |-> m, wdi |-> wdi]
mw_last(m, wdl) == [month |-> m, wdl |-> wdl]

month_day_ok(x) ==
  /\ month_ok(x.month)
  /\ 1 <= x.day /\ x.day <= <<31, 29, 31, 30, 31, 30, 31, 31, 30, 31, 30, 31>>[x.month]
month_day_less(x, y) == Before(<<x.month, x.day>>, <<y.month, y.day>>)

month_day_last_ok(x) == month_ok(x.month)
month_weekday_ok(x) == month_ok(x.month) /\ weekday_indexed_ok(x.wdi)
month_weekday_last_ok(x) == month_ok(x.month) /\ weekday_ok(x.wdl.weekday)

-------------------------------------------------------------------------------
(* year_month_day and year_month_day_last.                                 *)

ymd(y, m, d) == [year |-> y, month |-> m, day |-> d]

(* Variant with a bug: the era of a day before the year 0 truncates.       *)
from_days_trunc(dp) ==
  LET z == dp + 719468
      era == trunc(z, 146097)
      doe == z - era * 146097
      yoe == (doe - doe \div 1460 + doe \div 36524 - doe \div 146096) \div 365
      doy == doe - (365 * yoe + yoe \div 4 - yoe \div 100)
      mp == (5 * doy + 2) \div 153
      m == IF mp < 10 THEN mp + 3 ELSE mp - 9
  IN  ymd(short(yoe + era * 400 + (IF m <= 2 THEN 1 ELSE 0)), m,
          doy - (153 * mp + 2) \div 5 + 1)

(* Years start in March and come in eras of 400: the day of the era gives  *)
(* the year of the era, and the day of the year the month.                 *)
from_days(dp) ==
  LET z == dp + 719468
      era == trunc(IF z >= 0 THEN z ELSE z - 146096, 146097)
      doe == z - era * 146097
      yoe == (doe - doe \div 1460 + doe \div 36524 - doe \div 146096) \div 365
      doy == doe - (365 * yoe + yoe \div 4 - yoe \div 100)
      mp == (5 * doy + 2) \div 153
      m == IF mp < 10 THEN mp + 3 ELSE mp - 9
  IN  ymd(short(yoe + era * 400 + (IF m <= 2 THEN 1 ELSE 0)), m,
          doy - (153 * mp + 2) \div 5 + 1)

to_days(x) ==
  LET y == x.year - (IF x.month <= 2 THEN 1 ELSE 0)
      era == trunc(IF y >= 0 THEN y ELSE y - 399, 400)
      yoe == y - era * 400
      doy == (153 * (IF x.month > 2 THEN x.month - 3 ELSE x.month + 9) + 2) \div 5 + x.day - 1
      doe == yoe * 365 + yoe \div 4 - yoe \div 100 + doy
  IN  era * 146097 + doe - 719468

ymd_last(y, m) == [year |-> y, mdl |-> md_last(m)]

year_month_day_last_day(x) ==
  LET m == x.mdl.month
  IN  IF (m # 2 \/ ~is_leap(x.year)) /\ month_day_last_ok(x.mdl)
      THEN <<31, 28, 31, 30, 31, 30, 31, 31, 30, 31, 30, 31>>[m]
      ELSE 29

year_month_day_last_ok(x) == year_ok(x.year) /\ month_day_last_ok(x.mdl)
last_to_ymd(x) == ymd(x.year, x.mdl.month, year_month_day_last_day(x))
last_to_days(x) == to_days(last_to_ymd(x))
year_month_day_last_less(x, y) == Before(<<x.year, x.mdl.month>>, <<y.year, y.mdl.month>>)

year_month_day_last_plus(x, dm) ==
  LET next == year_month_plus(ym(x.year, x.mdl.month), dm) IN ymd_last(next.year, next.month)
year_month_day_last_plus_years(x, dy) == [x EXCEPT !.year = year_plus(@, dy)]
year_month_day_last_advance(x, dm, dy) ==
  year_month_day_last_plus_years(year_month_day_last_plus(x, dm), dy)

year_month_day_ok(x) ==
  /\ year_ok(x.year) /\ month_ok(x.month)
  /\ 1 <= x.day /\ x.day <= year_month_day_last_day(ymd_last(x.year, x.month))

year_month_day_less(x, y) == Before(<<x.year, x.month, x.day>>, <<y.year, y.month, y.day>>)

(* The day stays, even if the month that is reached is shorter.            *)
year_month_day_plus(x, dm) ==
  LET next == year_month_plus(ym(x.year, x.month), dm) IN ymd(next.year, next.month, x.day)
year_month_day_plus_years(x, dy) == ymd(year_plus(x.year, dy), x.month, x.day)
year_month_day_advance(x, dm, dy) == year_month_day_plus_years(year_month_day_plus(x, dm), dy)

-------------------------------------------------------------------------------
(* year_month_weekday: the third Sunday of a month; and the last Sunday.   *)

ymw(y, m, wdi) == [year |-> y, month |-> m, wdi |-> wdi]
ymw_last(y, m, wdl) == [year |-> y, month |-> m, wdl |-> wdl]

year_month_weekday_from_days(d) ==
  LET x == from_days(d)
  IN  ymw(x.year, x.month, weekday_indexed_of(weekday_from_days(d), (x.day - 1) \div 7 + 1))

year_month_weekday_to_days(x) ==
  LET d == to_days(ymd(x.year, x.month, 1))
  IN  d + weekday_minus(x.wdi.weekday, weekday_from_days(d)) + (x.wdi.index - 1) * 7

year_month_weekday_ok(x) ==
  /\ year_ok(x.year) /\ month_ok(x.month) /\ weekday_ok(x.wdi.weekday) /\ x.wdi.index >= 1
  /\ \/ x.wdi.index <= 4
     \/ LET first == weekday_from_days(to_days(ymd(x.year, x.month, 1)))
        IN  weekday_minus(x.wdi.weekday, first) + (x.wdi.index - 1) * 7 + 1
              <= year_month_day_last_day(ymd_last(x.year, x.month))

year_month_weekday_plus(x, dm) ==
  LET next == year_month_plus(ym(x.year, x.month), dm) IN ymw(next.year, next.month, x.wdi)
year_month_weekday_plus_years(x, dy) == ymw(year_plus(x.year, dy), x.month, x.wdi)
year_month_weekday_advance(x, dm, dy) ==
  year_month_weekday_plus_years(year_month_weekday_plus(x, dm), dy)

year_month_weekday_last_to_days(x) ==
  LET d == last_to_days(ymd_last(x.year, x.month))
  IN  d - weekday_minus(weekday_from_days(d), x.wdl.weekday)

year_month_weekday_last_ok(x) ==
  year_ok(x.year) /\ month_ok(x.month) /\ weekday_ok(x.wdl.weekday)

year_month_weekday_last_plus(x, dm) ==
  LET next == year_month_plus(ym(x.year, x.month), dm) IN ymw_last(next.year, next.month, x.wdl)
year_month_weekday_last_plus_years(x, dy) == ymw_last(year_plus(x.year, dy), x.month, x.wdl)
year_month_weekday_last_advance(x, dm, dy) ==
  year_month_weekday_last_plus_years(year_month_weekday_last_plus(x, dm), dy)

-------------------------------------------------------------------------------
(* Times of day, in milliseconds: decimal_format_seconds and hh_mm_ss.     *)

abs(n) == IF n >= 0 THEN n ELSE -n

decimal_format_seconds(d) ==
  [seconds |-> trunc(d, 1000), subseconds |-> d - trunc(d, 1000) * 1000]

make_time(d) ==
  LET n == abs(d)
      h == trunc(n, 3600000)
      m == trunc(n, 60000) - h * 60
  IN  [hours |-> h, minutes |-> m, s |-> decimal_format_seconds(n - h * 3600000 - m * 60000),
       negative |-> d < 0]

to_duration(t) ==
  (t.s.seconds * 1000 + t.s.subseconds + t.minutes * 60000 + t.hours * 3600000)
    * (IF t.negative THEN -1 ELSE 1)

in_conventional_range(t) ==
  ~t.negative /\ t.hours < 24 /\ t.minutes < 60 /\ t.s.seconds < 60 /\ t.s.subseconds < 1000

is_am(h) == 0 <= h /\ h < 12
is_pm(h) == 12 <= h /\ h < 24

make12(h) ==
  CASE h = 0 -> 12
    [] h \in 1..12 -> h
    [] OTHER -> h - 12

make24(h, pm) ==
  CASE pm /\ h # 12 -> h + 12
    [] ~pm /\ h = 12 -> 0
    [] OTHER -> h

===============================================================================
