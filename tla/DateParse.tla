------------------------------- MODULE DateParse --------------------------------
(***************************************************************************)
(* The counterpart of DateText: from_stream reads fields in the order of a *)
(* format, in any number that determines a date and a time, works out the  *)
(* date and the time they name, and refuses fields that contradict each    *)
(* other.                                                                  *)
(***************************************************************************)
EXTENDS DateText

-------------------------------------------------------------------------------
(* The stream: what is left to read, and whether reading has failed.  A    *)
(* reader returns the number that it has read, too.                        *)

value_of(s) == FoldLeft(LAMBDA x, c : 10 * x + c, 0, s)

(* At least one digit, and at most M.                                      *)
read_unsigned(is, M) ==
  LET Reads(n) == n <= Len(is) /\ \A i \in 1..n : is[i] \in 0..9
      count == CHOOSE n \in 0..M : Reads(n) /\ (n < M => ~Reads(n + 1))
  IN  [ok |-> count > 0, value |-> value_of(SubSeq(is, 1, count)),
       rest |-> SubSeq(is, count + 1, Len(is))]

(* Only a reader meets this sign.                                          *)
PLUS == 16

(* The sign counts as a digit.                                             *)
read_signed(is, M) ==
  IF is # <<>> /\ Head(is) \in {MINUS, PLUS}
  THEN LET x == read_unsigned(Tail(is), M - 1)
       IN  [x EXCEPT !.value = IF Head(is) = MINUS THEN -@ ELSE @]
  ELSE read_unsigned(is, M)

(* Seconds with a fraction, in milliseconds: the decimal point counts as a *)
(* digit, a second one ends the number.  Bound: at most three digits of a   *)
(* fraction are there to read.                                             *)
read_long_double(is, M) ==
  LET whole == read_unsigned(is, M)
      n == Len(is) - Len(whole.rest)
      fraction == read_unsigned(Tail(whole.rest), M - n - 1)
      f == Len(whole.rest) - 1 - Len(fraction.rest)
  IN  IF n >= M \/ whole.rest = <<>> \/ Head(whole.rest) # POINT
      THEN [whole EXCEPT !.value = @ * 1000]
      ELSE [fraction EXCEPT !.ok = TRUE, !.value = whole.value * 1000 + @ * 10^(3 - f)]

(* What has been read of each field, and what says that it has not been.   *)
not_a ==
  [Y |-> -32768, y |-> 100, g |-> 100, G |-> -32768, C |-> int_min, m |-> 0, d |-> 0,
   j |-> -1, wd |-> 8, H |-> int_min, I |-> 0, p |-> -1, M |-> int_min, s |-> int_min,
   U |-> 100, V |-> 100, W |-> 100]

broken(f) == [f EXCEPT !.failed = TRUE]

(* A field that is read twice must be the same.                            *)
checked_set(f, field, from) ==
  IF f[field] = not_a[field] THEN [f EXCEPT ![field] = from]
  ELSE IF f[field] = from THEN f
  ELSE broken(f)

take(f, field, x) ==
  IF x.ok THEN checked_set([f EXCEPT !.is = x.rest], field, x.value) ELSE broken(f)

read_char(f, c) ==
  IF f.is # <<>> /\ Head(f.is) = c THEN [f EXCEPT !.is = Tail(@)] ELSE broken(f)

-------------------------------------------------------------------------------
(* One command, after which the loop ends if the stream has failed.        *)

max_width(width, default) == IF width = -1 THEN default ELSE width

get_Y(f, width) == take(f, "Y", read_signed(f.is, max_width(width, 4)))
get_y(f, width) == take(f, "y", read_unsigned(f.is, max_width(width, 2)))
get_C(f, width) == take(f, "C", read_signed(f.is, max_width(width, 2)))
get_G(f, width) == take(f, "G", read_signed(f.is, max_width(width, 4)))
get_g(f, width) == take(f, "g", read_unsigned(f.is, max_width(width, 2)))
get_m(f, width) == take(f, "m", read_unsigned(f.is, max_width(width, 2)))
get_d(f, width) == take(f, "d", read_unsigned(f.is, max_width(width, 2)))
get_j(f, width) == take(f, "j", read_unsigned(f.is, max_width(width, 3)))
get_U(f, width) == take(f, "U", read_unsigned(f.is, max_width(width, 2)))
get_V(f, width) == take(f, "V", read_unsigned(f.is, max_width(width, 2)))
get_W(f, width) == take(f, "W", read_unsigned(f.is, max_width(width, 2)))
get_H(f, width) == take(f, "H", read_unsigned(f.is, max_width(width, 2)))
get_M(f, width) == take(f, "M", read_unsigned(f.is, max_width(width, 2)))
get_S(f, width) == take(f, "s", read_long_double(f.is, max_width(width, 6)))

get_I(f, width) ==
  LET x == read_unsigned(f.is, max_width(width, 2))
  IN  take(f, "I", [x EXCEPT !.ok = @ /\ x.value \in 1..12])

(* Monday to Sunday as 1 to 7, Sunday to Saturday as 0 to 6.               *)
get_u(f, width) ==
  LET x == read_unsigned(f.is, max_width(width, 1))
  IN  take(f, "wd", [x EXCEPT !.ok = @ /\ x.value \in 1..7, !.value = IF @ = 7 THEN 0 ELSE @])
get_w(f, width) ==
  LET x == read_unsigned(f.is, max_width(width, 1))
  IN  take(f, "wd", [x EXCEPT !.ok = @ /\ x.value \in 0..6])

get_p(f) ==
  IF f.is # <<>> /\ Head(f.is) \in {AM, PM}
  THEN checked_set([f EXCEPT !.is = Tail(@)], "p", IF Head(f.is) = AM THEN 0 ELSE 1)
  ELSE broken(f)

(* The commands that stand for several.                                    *)
expand(command) ==
  LET c == command[1]
  IN  CASE c = "F" -> <<<<"Y", command[2]>>, <<"", MINUS>>, <<"m", -1>>, <<"", MINUS>>, <<"d", -1>>>>
        [] c = "D" -> <<<<"m", -1>>, <<"", SLASH>>, <<"d", -1>>, <<"", SLASH>>, <<"y", -1>>>>
        [] c = "R" -> <<<<"H", -1>>, <<"", COLON>>, <<"M", -1>>>>
        [] c = "T" -> <<<<"H", -1>>, <<"", COLON>>, <<"M", -1>>, <<"", COLON>>, <<"S", -1>>>>
        [] OTHER -> <<command>>

get(f, command) ==
  LET c == command[1]
      width == command[2]
  IN  CASE f.failed -> f
        [] c = "" -> read_char(f, width)
        [] c = "Y" -> get_Y(f, width) [] c = "y" -> get_y(f, width)
        [] c = "C" -> get_C(f, width) [] c = "G" -> get_G(f, width)
        [] c = "g" -> get_g(f, width) [] c = "m" -> get_m(f, width)
        [] c = "d" -> get_d(f, width) [] c = "j" -> get_j(f, width)
        [] c = "U" -> get_U(f, width) [] c = "V" -> get_V(f, width)
        [] c = "W" -> get_W(f, width) [] c = "u" -> get_u(f, width)
        [] c = "w" -> get_w(f, width) [] c = "H" -> get_H(f, width)
        [] c = "I" -> get_I(f, width) [] c = "M" -> get_M(f, width)
        [] c = "S" -> get_S(f, width) [] c = "p" -> get_p(f)

read_fields(fmt, text) ==
  FoldLeft(get, not_a @@ [is |-> text, failed |-> FALSE],
           FlattenSeq([i \in DOMAIN fmt |-> expand(fmt[i])]))

-------------------------------------------------------------------------------
(* What the fields name, once all are read: one operator for each step, in *)
(* the order of the code.                                                  *)

is_set(f, field) == f[field] # not_a[field]

(* The year of a year of two digits, with the century if there is one, or  *)
(* of the year that was read, or from 1969 to 2068.                        *)
full_year(f, two, full) ==
  LET C == IF is_set(f, "C") THEN f.C
           ELSE IF is_set(f, full)
                THEN trunc(IF f[full] >= 0 THEN f[full] ELSE f[full] - 100, 100)
           ELSE IF f[two] >= 69 THEN 19 ELSE 20
      t == IF C >= 0 THEN 100 * C + f[two] ELSE 100 * (C + 1) - (IF f[two] = 0 THEN 100 ELSE f[two])
  IN  IF ~is_set(f, two) THEN f
      ELSE IF f[two] \notin 0..99 \/ (is_set(f, full) /\ f[full] # t) THEN broken(f)
      ELSE [f EXCEPT !.C = C, ![full] = t]

year_in_range(f) ==
  IF f.Y \in year /\ year_ok(f.Y) THEN f ELSE [f EXCEPT !.Y = not_a.Y]

(* The month and the day that other fields name.                           *)
agree(f, trial) ==
  IF \/ is_set(f, "m") /\ unsigned_char(f.m) # trial.month
     \/ is_set(f, "d") /\ unsigned_char(f.d) # trial.day
  THEN broken(f)
  ELSE [f EXCEPT !.m = trial.month, !.d = trial.day]

(* The date that a week and a day of the week name.                        *)
week_date(f, trial) ==
  IF is_set(f, "Y") /\ short(f.Y) # trial.year THEN broken(f)
  ELSE [agree([f EXCEPT !.Y = trial.year], trial) EXCEPT !.computed = TRUE]

(* The ISO year, its week and the day of the week.                         *)
iso_week(f) ==
  IF f.failed \/ ~(is_set(f, "G") /\ is_set(f, "V") /\ is_set(f, "wd")) THEN f
  ELSE week_date(f, from_days(iso_start(short(f.G)) + 7 * (f.V - 1)
                              + weekday_minus(weekday_of(f.wd), 1)))

(* The year, its week, which starts on Sunday or Monday, and the day of    *)
(* the week.                                                               *)
week_of_year(f, week, first) ==
  IF f.failed \/ ~(is_set(f, "Y") /\ is_set(f, week) /\ is_set(f, "wd")) THEN f
  ELSE week_date(f, from_days(first_weekday(short(f.Y), first) + 7 * (f[week] - 1)
                              + weekday_minus(weekday_of(f.wd), first)))


day_of_year(f) ==
  IF f.failed \/ ~(is_set(f, "j") /\ is_set(f, "Y")) THEN f
  ELSE [agree(f, from_days(to_days(ymd(short(f.Y), 1, 1)) + f.j - 1)) EXCEPT !.j = not_a.j]

date_of(f) == ymd(short(f.Y), unsigned_char(f.m), unsigned_char(f.d))

(* Of the fields that were not needed, the ISO year and the weeks are      *)
(* checked only if the date was not computed from a week.                  *)
check_date(f) ==
  LET x == date_of(f)
      sd == to_days(x)
      wd == weekday_from_days(sd)
      week(first) == floor(sd - first_weekday(x.year, first), 7) + 1
  IN  IF f.failed \/ ~year_month_day_ok(x) THEN f
      ELSE IF is_set(f, "wd") /\ f.wd # wd THEN broken(f)
      ELSE IF ~f.computed /\
              \/ is_set(f, "G") /\ f.G # iso_year(x)
              \/ is_set(f, "V") /\ f.V # trunc(sd - iso_start(iso_year(x)), 7) + 1
              \/ is_set(f, "U") /\ f.U # week(0)
              \/ is_set(f, "W") /\ f.W # week(1)
           THEN broken(f)
      ELSE [f EXCEPT !.wd = wd]

(* The hour of a clock of twelve hours; without AM or PM it only confirms  *)
(* the hour that was read.                                                 *)
clock_hour(f) ==
  LET h == f.I + 12 * (IF f.I = 12 THEN f.p - 1 ELSE f.p)
  IN  IF f.failed \/ ~is_set(f, "I") THEN f
      ELSE IF is_set(f, "p")
           THEN IF is_set(f, "H") /\ f.H # h THEN broken(f) ELSE [f EXCEPT !.H = h]
      ELSE IF \/ f.I = 12 /\ f.H \in {0, 12}
              \/ f.I # 12 /\ f.H \in {f.I, f.I + 12}
           THEN f
      ELSE broken(f)

(* A day of the year that got no year is a number of days.                 *)
time_of(f) ==
  [hours |-> (IF is_set(f, "H") THEN f.H ELSE 0) + (IF is_set(f, "j") THEN 24 * f.j ELSE 0),
   minutes |-> IF is_set(f, "M") THEN f.M ELSE 0,
   s |-> decimal_format_seconds(IF is_set(f, "s") THEN f.s ELSE 0),
   negative |-> FALSE]

resolve(f) ==
  LET years == year_in_range(full_year(full_year(f, "y", "Y"), "g", "G"))
      weeks == week_of_year(week_of_year(iso_week(years), "U", 0), "W", 1)
  IN  clock_hour(check_date(day_of_year(weeks)))

(* What it reads: the fields, or failbit.                                  *)
resolved(f) == IF f.failed THEN f ELSE resolve(f @@ [computed |-> FALSE])

fields_of(f) ==
  [failed |-> f.failed, ymd |-> date_of(f), wd |-> weekday_of(f.wd), tod |-> time_of(f),
   has_tod |-> \E field \in {"H", "M", "s", "j"} : is_set(f, field)]

from_stream(fmt, text) == fields_of(resolved(read_fields(fmt, text)))

(* The object of a class: the fields must contain it.                      *)
contain(x, class) ==
  CASE class = "year" -> year_ok(x.ymd.year)
    [] class = "month" -> month_ok(x.ymd.month)
    [] class = "day" -> day_ok(x.ymd.day)
    [] class = "weekday" -> weekday_ok(x.wd)
    [] class = "year_month" -> month_ok(x.ymd.month)
    [] class = "month_day" -> month_ok(x.ymd.month) /\ day_ok(x.ymd.day)
    [] class = "year_month_day" -> year_month_day_ok(x.ymd)
    [] class = "sys_time" -> year_month_day_ok(x.ymd) /\ in_conventional_range(x.tod)
    [] class = "duration" -> x.has_tod

object(x, class) == [x EXCEPT !.failed = @ \/ ~contain(x, class)]
read_as(class, fmt, text) == object(from_stream(fmt, text), class)

===============================================================================
