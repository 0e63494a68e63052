------------------------------ MODULE MCCivilClock ------------------------------
(* An instance of CivilClock for TLC: the years around the changes of sign *)
(* and of era, and those that are leap years, centuries or both.           *)
EXTENDS CivilClock

Years == {-401, -400, -101, -100, -1, 0, 1, 399, 400, 1600, 1899, 1900, 1969, 1970, 1999, 2000,
          2023, 2024, 2100}
FewShifts == {-1200, -366, -25, -24, -13, -12, -11, -7, -6, -1, 0, 1, 6, 7, 11, 12, 13, 25, 366, 1200}
DayEnds == {0, 1, TicksPerMs, 999 * TicksPerMs, 1000 * TicksPerMs, 59999 * TicksPerMs,
            60000 * TicksPerMs, TicksPerHour - 1, TicksPerHour, 15 * TicksPerHour,
            16 * TicksPerHour - 1, 16 * TicksPerHour, TicksPerDay - 1}
SomeZones == {-12, 0, 8, 14}
Before0 == -401
FewMoves == {-13, -1, 0, 2}

Plain(letters) == [i \in DOMAIN letters |-> <<letters[i], -1>>]
Wide(letters) ==
  FlattenSeq([i \in DOMAIN letters |->
                <<<<letters[i], CASE letters[i] \in {"Y", "G"} -> 5 [] letters[i] = "C" -> 3
                                  [] OTHER -> -1>>,
                  <<"", SLASH>>>>])

Sufficient == {<<"Y", "m", "d">>, <<"C", "y", "m", "d">>, <<"Y", "j">>, <<"G", "V", "u">>,
            <<"Y", "U", "w">>, <<"Y", "W", "u">>}
Redundant == {<<"Y", "m", "d", "u", "G", "V", "U", "W", "j">>, <<"C", "y", "Y", "d", "m", "w", "G">>,
              <<"m", "d", "Y", "V", "U">>}
TwoYears == {<<"Y", "y", "m", "d">>, <<"G", "g", "V", "u">>}
Texts == {Plain(c) : c \in Sufficient \cup Redundant \cup TwoYears \cup {<<"F">>}}
CenturyTexts == {Plain(c) : c \in {<<"D">>, <<"y", "m", "d">>, <<"g", "V", "w">>}}
WideTexts == {Wide(c) : c \in Sufficient \cup Redundant}
FewMixed == {1, 365}
TimeTexts == {Plain(c) : c \in {<<"F", "T">>, <<"I", "M", "S", "p", "Y", "j">>,
                                <<"R", "p", "I", "H", "M", "S", "F">>}}

===============================================================================
