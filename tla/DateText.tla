-------------------------------- MODULE DateText --------------------------------
(***************************************************************************)
(* The text of dates and times in utils/date.h: to_stream writes the       *)
(* fields of a date or of a time in the order of a format.                 *)
(*                                                                         *)
(* A character is a number, and a digit is its value.  A format is a       *)
(* sequence of commands <<letter, width>>, with width -1 if it has none,   *)
(* and of characters <<"", c>>.  Left out are the names of months and      *)
(* days, the modifiers E and O and %c, %x, %X, %r, for which the locale is *)
(* asked, and time zones.  The durations are in milliseconds.              *)
(***************************************************************************)
EXTENDS Date, SequencesExt

MINUS == 10
SLASH == 11
COLON == 12
POINT == 13
AM == 14
PM == 15

int_min == -2147483647 - 1
MsPerDay == 86400000

-------------------------------------------------------------------------------
(* to_stream.                                                              *)

(* os.width(w), os.fill('0') and os << s, aligned to the right.            *)
filled(s, w) == IF Len(s) >= w THEN s ELSE [i \in 1..(w - Len(s)) |-> 0] \o s
number(n) == IF n < 0 THEN <<MINUS>> \o digits[-n] ELSE digits[n]

(* os << year: the zeros are between the sign and the digits.              *)
year_text(y) == IF y < 0 THEN <<MINUS>> \o filled(digits[-y], 4) ELSE filled(digits[y], 4)

(* The fields of a date, and of a time point or a duration.                *)
fields_of_date(x) == [ymd |-> x, wd |-> 8, has_tod |-> FALSE, tod |-> make_time(0)]

fields_of_time(tp) ==
  LET sd == trunc(tp, MsPerDay)
      before == IF sd * MsPerDay <= tp THEN sd ELSE sd - 1
      rest == IF before = sd THEN tp - sd * MsPerDay ELSE MsPerDay - (sd * MsPerDay - tp)
  IN  [ymd |-> from_days(before), wd |-> 8, has_tod |-> TRUE, tod |-> make_time(rest)]

fields_of_duration(d) ==
  [ymd |-> ymd(-32768, 0, 0), wd |-> 8, has_tod |-> TRUE, tod |-> make_time(d)]

(* 8 if they contain no day of the week, or contradict each other.         *)
extract_weekday(fds) ==
  IF ~year_month_day_ok(fds.ymd) THEN IF weekday_ok(fds.wd) THEN fds.wd ELSE 8
  ELSE LET wd == weekday_from_days(to_days(fds.ymd))
       IN  IF weekday_ok(fds.wd) /\ wd # fds.wd THEN 8 ELSE wd

(* The first day of the ISO year y: the Monday after the last Thursday of  *)
(* the December before it.                                                 *)
iso_start(y) ==
  year_month_weekday_last_to_days(ymw_last(year_plus(y, -1), 12, weekday_last_of(4)))
    + weekday_minus(1, 4)

(* The first day wd of the year y.                                         *)
first_weekday(y, wd) == year_month_weekday_to_days(ymw(y, 1, weekday_indexed_of(wd, 1)))

iso_year_of(ld, y) == IF ld < iso_start(y) THEN year_plus(y, -1) ELSE y
iso_year(x) == iso_year_of(to_days(x), from_days(to_days(x) + 3).year)

put_Y(fds) == year_text(fds.ymd.year)
put_y(fds) == filled(digits[abs(fds.ymd.year) % 100], 2)
put_C(fds) ==
  IF fds.ymd.year >= 0 THEN filled(digits[fds.ymd.year \div 100], 2)
  ELSE <<MINUS>> \o filled(digits[trunc(-(fds.ymd.year - 99), 100)], 2)
put_m(fds) == filled(digits[fds.ymd.month], 2)
put_d(fds) == filled(digits[fds.ymd.day], 2)
put_F(fds) ==
  filled(number(fds.ymd.year), 4) \o <<MINUS>> \o put_m(fds) \o <<MINUS>> \o put_d(fds)
put_D(fds) ==
  LET y == fds.ymd.year - trunc(fds.ymd.year, 100) * 100
  IN  put_m(fds) \o <<SLASH>> \o put_d(fds) \o <<SLASH>> \o filled(number(y), 2)
put_G(fds) == year_text(iso_year(fds.ymd))
put_g(fds) == filled(digits[abs(iso_year(fds.ymd)) % 100], 2)
put_V(fds) ==
  LET ld == to_days(fds.ymd)
  IN  filled(digits[trunc(ld - iso_start(iso_year(fds.ymd)), 7) + 1], 2)

(* Weeks that start on Sunday, and on Monday.                              *)
week_text(fds, wd) ==
  LET ld == to_days(fds.ymd)
      st == first_weekday(fds.ymd.year, wd)
  IN  IF ld < st THEN <<0, 0>> ELSE filled(digits[trunc(ld - st, 7) + 1], 2)
put_U(fds) == week_text(fds, 0)
put_W(fds) == week_text(fds, 1)
put_u(fds) == digits[iso_encoding(extract_weekday(fds))]
put_w(fds) == digits[extract_weekday(fds)]
put_j(fds) ==
  LET doy == IF year_month_day_ok(fds.ymd)
             THEN to_days(fds.ymd) - to_days(ymd(fds.ymd.year, 1, 1)) + 1
             ELSE trunc(to_duration(fds.tod), MsPerDay)
  IN  filled(number(doy), 3)

put_H(fds) == filled(digits[fds.tod.hours], 2)
put_I(fds) == filled(digits[make12(fds.tod.hours)], 2)
put_M(fds) == filled(digits[fds.tod.minutes], 2)
put_S(fds) ==
  filled(digits[fds.tod.s.seconds], 2) \o <<POINT>> \o filled(digits[fds.tod.s.subseconds], 3)
put_p(fds) == <<IF is_am(fds.tod.hours) THEN AM ELSE PM>>
put_R(fds) == put_H(fds) \o <<COLON>> \o put_M(fds)
put_T(fds) ==
  (IF fds.tod.negative THEN <<MINUS>> ELSE <<>>) \o put_R(fds) \o <<COLON>> \o put_S(fds)

(* A field that the fields do not contain sets failbit.                    *)
contains(fds, c) ==
  CASE c \in {"Y", "y", "C"} -> year_ok(fds.ymd.year)
    [] c = "m" -> month_ok(fds.ymd.month)
    [] c = "d" -> day_ok(fds.ymd.day)
    [] c \in {"F", "D", "G", "g", "V", "U", "W"} -> year_month_day_ok(fds.ymd)
    [] c \in {"u", "w"} -> extract_weekday(fds) # 8
    [] c = "j" -> year_month_day_ok(fds.ymd) \/ fds.has_tod
    [] c \in {"H", "I", "M", "S", "p", "R", "T"} -> fds.has_tod
    [] OTHER -> TRUE

put(fds, c) ==
  CASE c = "Y" -> put_Y(fds) [] c = "y" -> put_y(fds) [] c = "C" -> put_C(fds)
    [] c = "m" -> put_m(fds) [] c = "d" -> put_d(fds) [] c = "F" -> put_F(fds)
    [] c = "D" -> put_D(fds) [] c = "G" -> put_G(fds) [] c = "g" -> put_g(fds)
    [] c = "V" -> put_V(fds) [] c = "U" -> put_U(fds) [] c = "W" -> put_W(fds)
    [] c = "u" -> put_u(fds) [] c = "w" -> put_w(fds) [] c = "j" -> put_j(fds)
    [] c = "H" -> put_H(fds) [] c = "I" -> put_I(fds) [] c = "M" -> put_M(fds)
    [] c = "S" -> put_S(fds) [] c = "p" -> put_p(fds) [] c = "R" -> put_R(fds)
    [] c = "T" -> put_T(fds)

(* The sign of a negative duration is written once, before the first of    *)
(* its fields.                                                             *)
to_stream(fmt, fds) ==
  LET Command(os, command) ==
        LET c == command[1]
            signed == os.insert_negative /\ c \in {"H", "I", "M", "S"}
        IN  IF os.failed \/ ~contains(fds, c) THEN [os EXCEPT !.failed = TRUE]
            ELSE IF c = "" THEN [os EXCEPT !.text = Append(@, command[2])]
            ELSE [os EXCEPT !.text = @ \o (IF signed THEN <<MINUS>> ELSE <<>>) \o put(fds, c),
                            !.insert_negative = @ /\ ~signed]
  IN  FoldLeft(Command, [text |-> <<>>, failed |-> FALSE,
                         insert_negative |-> fds.has_tod /\ to_duration(fds.tod) < 0], fmt)

===============================================================================
