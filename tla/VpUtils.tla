-------------------------------- MODULE VpUtils --------------------------------
(***************************************************************************)
(* The helpers of utils/vp_utils.h.  A character is a number: a digit is   *)
(* its value, every character that separates the parts of a date is the    *)
(* same SEPARATOR, which sorts before the digits as '-', ':', '.' and the  *)
(* space do.  A template is a sequence of keywords and separators.         *)
(*                                                                         *)
(* A time point counts ticks since the epoch; the clock of the program     *)
(* has 10^6 ticks in a millisecond.                                        *)
(***************************************************************************)
EXTENDS Date, SequencesExt

CONSTANT TicksPerMs  \* bound: the resolution of the clock

ASSUME VpUtilsAssumption == TicksPerMs \in Nat \ {0}

TicksPerHour == 3600000 * TicksPerMs
TicksPerDay == 24 * TicksPerHour

-------------------------------------------------------------------------------
ends_with(value, ending) ==
  /\ Len(ending) <= Len(value)
  /\ SubSeq(value, Len(value) - Len(ending) + 1, Len(value)) = ending

(* Variant with a bug: empty tokens are left out.                          *)
string_split_nonempty(s, delimiter) ==
  SelectSeq(
    FoldLeft(LAMBDA tokens, c :
               IF c = delimiter THEN Append(tokens, <<>>)
               ELSE Front(tokens) \o <<Append(Last(tokens), c)>>,
             << <<>> >>, s),
    LAMBDA token : token # <<>>)

(* getline ends a token at each delimiter, and the last one at the end of  *)
(* the stream, unless nothing is left there to read.                       *)
string_split(s, delimiter) ==
  LET tokens == FoldLeft(LAMBDA tokens, c :
                           IF c = delimiter THEN Append(tokens, <<>>)
                           ELSE Front(tokens) \o <<Append(Last(tokens), c)>>,
                         << <<>> >>, s)
  IN  IF Last(tokens) = <<>> THEN Front(tokens) ELSE tokens

-------------------------------------------------------------------------------
(* std::to_string of a number.                                             *)
SEPARATOR == -1
to_string(n) == IF n < 0 THEN <<SEPARATOR>> \o digits[-n] ELSE digits[n]

(* With the default fill_left; no width in the program is negative.        *)
filling(str, width, fill) ==
  IF Len(str) < width THEN [i \in 1..(width - Len(str)) |-> fill] ELSE <<>>

(* Variant with a bug: the string is filled on the other side.             *)
set_width_and_fill_right(str, width, fill) == str \o filling(str, width, fill)

set_width_and_fill(str, width, fill) == filling(str, width, fill) \o str

-------------------------------------------------------------------------------
(* Variant with a bug: days before the epoch are rounded up.               *)
time_split_trunc(tp, time_zone) ==
  LET local == tp + time_zone * TicksPerHour
      dp == trunc(local, TicksPerDay)
      date == from_days(dp)
      time == make_time(trunc(local - dp * TicksPerDay, TicksPerMs))
  IN  <<date.year, date.month, date.day,
        time.hours, time.minutes, time.s.seconds, time.s.subseconds>>

(* Year, month, day, hour, minute, second and millisecond.                 *)
time_split(tp, time_zone) ==
  LET local == tp + time_zone * TicksPerHour
      dp == floor(local, TicksPerDay)
      date == from_days(dp)
      time == make_time(trunc(local - dp * TicksPerDay, TicksPerMs))
  IN  <<date.year, date.month, date.day,
        time.hours, time.minutes, time.s.seconds, time.s.subseconds>>

Keyword == [year |-> 1, mon |-> 2, day |-> 3, hour |-> 4, min |-> 5, sec |-> 6, mili |-> 7]
FieldWidth == <<0, 2, 2, 2, 2, 2, 3>>

DefaultTemplate ==
  <<"year", "sep", "mon", "sep", "day", "sep", "hour", "sep", "min", "sep", "sec", "sep", "mili">>

(* The time zone is added once: the parts are split in time zone 0.        *)
time_format(tp, template, time_zone) ==
  LET parts == time_split(tp + time_zone * TicksPerHour, 0)
      Field(k) == set_width_and_fill(to_string(parts[Keyword[k]]), FieldWidth[Keyword[k]], 0)
  IN  FoldLeft(LAMBDA str, k : str \o (IF k = "sep" THEN <<SEPARATOR>> ELSE Field(k)),
               <<>>, template)

===============================================================================
