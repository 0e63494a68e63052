---------------------------- MODULE CivilClockProofs ----------------------------
(***************************************************************************)
(* Theorems about CivilClock, for any years that date.h accepts, any       *)
(* shifts, moves, times of day, time zones and resolution of the clock:    *)
(* what date.h computes by dividing a number of days into eras, years and  *)
(* months agrees with a calendar that advances day by day.                 *)
(*                                                                         *)
(* A day is described by counts that are bounded: its era of 400 years,    *)
(* the century in it, the four of years, the year and the day of a year    *)
(* that starts in March.  The algorithms are shown to find the counts, and *)
(* the counts to be those of the calendar.                                 *)
(***************************************************************************)
EXTENDS CivilClock, FiniteSetTheorems, TLAPS

-------------------------------------------------------------------------------
(* Dividing as date.h does it rounds down.                                 *)
LEMMA Trunc400 ==
  ASSUME NEW n \in Int
  PROVE  trunc(IF n >= 0 THEN n ELSE n - 399, 400) = n \div 400
BY DEF trunc

(* Dates that exist, of any year.                                          *)
Dates == {x \in [year : Int, month : 1..12, day : 1..31] : x.day <= MonthLength(x.year, x.month)}

(* The year that a day belongs to and the days of it before the month when *)
(* years start in March, and the days before that year.                    *)
March(x) == x.year - (IF x.month <= 2 THEN 1 ELSE 0)
MonthStart(m) == (153 * (IF m > 2 THEN m - 3 ELSE m + 9) + 2) \div 5
Epoch == 719468
YearStart(y) == 365 * y + y \div 4 - y \div 100 + y \div 400

(* Epoch is a number; it is kept folded, so that no step computes with it. *)
LEMMA EpochType ==
  Epoch \in Int
BY DEF Epoch

(* The months of a year that starts in March begin within 337 days.        *)
LEMMA MonthStartType ==
  ASSUME NEW m \in 1..12
  PROVE  MonthStart(m) \in Int /\ 0 <= MonthStart(m) /\ MonthStart(m) <= 337
BY DEF MonthStart

(* to_days without its era: the days before the year, of the months before *)
(* and of the month.                                                       *)
LEMMA ToDaysIs ==
  ASSUME NEW x, x.year \in Int, x.month \in 1..12, x.day \in Int
  PROVE  /\ to_days(x) = YearStart(March(x)) + MonthStart(x.month) + x.day - 1 - Epoch
         /\ March(x) \in Int /\ YearStart(March(x)) \in Int /\ to_days(x) \in Int
<1> DEFINE y == March(x)
           m == MonthStart(x.month)
           q == trunc(IF y >= 0 THEN y ELSE y - 399, 400)
           e == y \div 400
           r == y - e * 400
           d == x.day
<1>1. y \in Int /\ m \in Int /\ d \in Int
  <2>1. y \in Int
    BY DEF March
  <2> QED BY <2>1, MonthStartType
<1>2. q = e /\ e \in Int
  BY <1>1, Trunc400
<1>3. to_days(x) = q * 146097 + ((y - q * 400) * 365 + (y - q * 400) \div 4
                     - (y - q * 400) \div 100 + (m + d - 1)) - 719468
  <2> DEFINE Form(b, c) ==
               to_days(x) = b * 146097 + ((c - b * 400) * 365 + (c - b * 400) \div 4
                              - (c - b * 400) \div 100 + (m + d - 1)) - 719468
             c == x.year - (IF x.month <= 2 THEN 1 ELSE 0)
  <2>1. Form(trunc(IF c >= 0 THEN c ELSE c - 399, 400), c)
    BY SMTT(30) DEF to_days, MonthStart
  <2> QED BY <2>1 DEF March
<1> HIDE DEF y, m, d, q
<1>4. to_days(x) = e * 146097 + (r * 365 + r \div 4 - r \div 100 + (m + d - 1)) - 719468
  BY <1>2, <1>3
<1>5. e \in Int /\ r \in 0..399 /\ y = 400 * e + r
  BY <1>1
<1> HIDE DEF e, r
<1>6. y \div 4 = 100 * e + r \div 4 /\ y \div 100 = 4 * e + r \div 100 /\ y \div 400 = e
  BY <1>5
<1>7. YearStart(y) = 365 * y + (100 * e + r \div 4) - (4 * e + r \div 100) + e
  BY <1>6, SMT DEF YearStart
<1>8. r \div 4 \in Int /\ r \div 100 \in Int
  BY <1>5
<1>9. to_days(x) = YearStart(y) + m + d - 1 - Epoch /\ YearStart(y) \in Int /\ to_days(x) \in Int
  BY <1>1, <1>4, <1>5, <1>7, <1>8 DEF Epoch
<1> QED BY <1>1, <1>9, SMT DEF y, m, d

(* From one year to the next.                                              *)
LEMMA NextYearStart ==
  ASSUME NEW y \in Int
  PROVE  /\ YearStart(y) \in Int
         /\ YearStart(y) = YearStart(y - 1) + (IF LeapYear(y) THEN 366 ELSE 365)
<1> DEFINE p == y - 1
           c4 == IF y % 4 = 0 THEN 1 ELSE 0
           c100 == IF y % 100 = 0 THEN 1 ELSE 0
           c400 == IF y % 400 = 0 THEN 1 ELSE 0
<1>1. y \div 4 = p \div 4 + c4
  OBVIOUS
<1>2. y \div 100 = p \div 100 + c100
  OBVIOUS
<1>3. y \div 400 = p \div 400 + c400
  OBVIOUS
<1>4. c4 - c100 + c400 = IF LeapYear(y) THEN 1 ELSE 0
  BY DEF LeapYear
<1>5. p \div 4 \in Int /\ p \div 100 \in Int /\ p \div 400 \in Int /\ p \in Int /\ p = y - 1
      /\ c4 \in Int /\ c100 \in Int /\ c400 \in Int
  OBVIOUS
<1> HIDE DEF p, c4, c100, c400
<1>6. YearStart(y) = 365 * y + (p \div 4 + c4) - (p \div 100 + c100) + (p \div 400 + c400)
  BY <1>1, <1>2, <1>3, SMT DEF YearStart
<1>7. YearStart(p) = 365 * p + p \div 4 - p \div 100 + p \div 400
  BY SMT DEF YearStart
<1>8. YearStart(y) \in Int /\ YearStart(y) = YearStart(p) + (IF LeapYear(y) THEN 366 ELSE 365)
  BY <1>4, <1>5, <1>6, <1>7
<1> QED BY <1>8, SMT DEF p

(* A month has 28 to 31 days.                                              *)
LEMMA MonthLengthType ==
  ASSUME NEW y, NEW m \in 1..12
  PROVE  /\ MonthLength(y, m) \in 28..31
         /\ MonthLength(y, m) \in Int /\ 28 <= MonthLength(y, m) /\ MonthLength(y, m) <= 31
BY DEF MonthLength

(* From one month to the next.                                             *)
LEMMA NextMonthStart ==
  ASSUME NEW y \in Int, NEW m \in 1..11
  PROVE  to_days(ymd(y, m + 1, 1)) = to_days(ymd(y, m, 1)) + MonthLength(y, m)
<1> DEFINE a == ymd(y, m, 1)
           b == ymd(y, m + 1, 1)
<1>1. /\ to_days(a) = YearStart(March(a)) + MonthStart(m) - Epoch
      /\ YearStart(March(a)) \in Int
  BY ToDaysIs, 1 \in Int, EpochType, MonthStartType DEF ymd
<1>2. m + 1 \in 1..12
  OBVIOUS
<1>3. /\ to_days(b) = YearStart(March(b)) + MonthStart(m + 1) - Epoch
      /\ YearStart(March(b)) \in Int
  BY <1>2, ToDaysIs, 1 \in Int, EpochType, MonthStartType DEF ymd
<1>4. MonthStart(m) \in Int /\ MonthStart(m + 1) \in Int
  BY <1>2, MonthStartType
<1>5. CASE m = 2
  <2>1. March(a) = y - 1 /\ March(b) = y
    BY <1>5 DEF March, ymd
  <2>2. YearStart(y) = YearStart(y - 1) + (IF LeapYear(y) THEN 366 ELSE 365)
    BY NextYearStart
  <2>3. MonthStart(2) = 337 /\ MonthStart(3) = 0
    BY DEF MonthStart
  <2>4. MonthLength(y, 2) = IF LeapYear(y) THEN 29 ELSE 28
    BY DEF MonthLength
  <2> HIDE DEF a, b
  <2> QED BY <1>1, <1>3, <1>5, <2>1, <2>2, <2>3, <2>4, EpochType DEF a, b
<1>6. CASE m # 2
  <2>1. March(a) = March(b)
    BY <1>6 DEF March, ymd
  <2>2. MonthStart(m + 1) = MonthStart(m) + MonthLength(y, m)
    BY <1>6 DEF MonthStart, MonthLength
  <2>3. MonthLength(y, m) \in Int
    BY MonthLengthType
  <2> HIDE DEF a, b
  <2> QED BY <1>1, <1>3, <1>4, <2>1, <2>2, <2>3, EpochType DEF a, b
<1> QED BY <1>5, <1>6

(* From New Year to New Year, and from the first of December to New Year.  *)
LEMMA NewYears ==
  ASSUME NEW y \in Int
  PROVE  /\ to_days(ymd(y + 1, 1, 1)) = to_days(ymd(y, 1, 1)) + (IF LeapYear(y) THEN 366 ELSE 365)
         /\ to_days(ymd(y + 1, 1, 1)) = to_days(ymd(y, 12, 1)) + 31
         /\ to_days(ymd(y, 1, 1)) = YearStart(y - 1) + 306 - Epoch
<1>1. MonthStart(1) = 306 /\ MonthStart(12) = 275
  BY DEF MonthStart
<1>2. /\ to_days(ymd(y, 1, 1)) = YearStart(y - 1) + 306 - Epoch
      /\ YearStart(y - 1) \in Int
  <2>1. March(ymd(y, 1, 1)) = y - 1
    BY DEF March, ymd
  <2> QED BY <2>1, <1>1, ToDaysIs, 1 \in 1..12, EpochType, MonthStartType DEF ymd
<1>3. /\ to_days(ymd(y + 1, 1, 1)) = YearStart(y) + 306 - Epoch
      /\ YearStart(y) \in Int
  <2>1. March(ymd(y + 1, 1, 1)) = y
    BY DEF March, ymd
  <2> QED BY <2>1, <1>1, ToDaysIs, 1 \in 1..12, EpochType, MonthStartType DEF ymd
<1>4. to_days(ymd(y, 12, 1)) = YearStart(y) + 275 - Epoch
  <2>1. March(ymd(y, 12, 1)) = y
    BY DEF March, ymd
  <2> QED BY <2>1, <1>1, ToDaysIs, 12 \in 1..12, 1 \in Int, EpochType, MonthStartType DEF ymd
<1>5. YearStart(y) = YearStart(y - 1) + (IF LeapYear(y) THEN 366 ELSE 365)
  BY NextYearStart
<1> QED BY <1>2, <1>3, <1>4, <1>5, EpochType

(* A day is counted from the first of its month.                           *)
LEMMA FromFirst ==
  ASSUME NEW y \in Int, NEW m \in 1..12, NEW d \in Int
  PROVE  /\ to_days(ymd(y, m, d)) = to_days(ymd(y, m, 1)) + d - 1
         /\ to_days(ymd(y, m, d)) \in Int /\ to_days(ymd(y, m, 1)) \in Int
<1> DEFINE a == ymd(y, m, 1)
           b == ymd(y, m, d)
<1>1. /\ to_days(a) = YearStart(March(a)) + MonthStart(m) - Epoch
      /\ YearStart(March(a)) \in Int /\ to_days(a) \in Int
  BY ToDaysIs, 1 \in Int, EpochType, MonthStartType DEF ymd
<1>2. /\ to_days(b) = YearStart(March(b)) + MonthStart(m) + d - 1 - Epoch
      /\ to_days(b) \in Int
  BY ToDaysIs DEF ymd
<1>3. March(a) = March(b)
  BY DEF March, ymd
<1>4. MonthStart(m) \in Int
  BY MonthStartType
<1> HIDE DEF a, b
<1>5. to_days(b) = to_days(a) + d - 1
  BY <1>1, <1>2, <1>3, <1>4, EpochType
<1> QED BY <1>1, <1>2, <1>5 DEF a, b

-------------------------------------------------------------------------------
(* The days of a date are counted in eras of 400 years, e, centuries, c,   *)
(* fours of years, q, years, r, and days, doy, of a year that starts in    *)
(* March.  Only a leap year, the last of four, has a day 365.              *)
Counts ==
  {p \in [e : Int, c : 0..3, q : 0..24, r : 0..3, doy : 0..365] :
     p.doy = 365 => p.r = 3 /\ (p.q # 24 \/ p.c = 3)}
YearOfEra(p) == 100 * p.c + 4 * p.q + p.r
YearOf(p) == 400 * p.e + YearOfEra(p)
YearDays(p) == 36524 * p.c + 1461 * p.q + 365 * p.r
DayOfEra(p) == YearDays(p) + p.doy
DaysOf(p) == 146097 * p.e + DayOfEra(p) - Epoch

(* The date of a day of the year y, and the same when its year has been    *)
(* converted to a short.                                                   *)
MonthPart(doy) == (5 * doy + 2) \div 153
MonthOf(mp) == IF mp < 10 THEN mp + 3 ELSE mp - 9
DayOf(doy) == doy - (153 * MonthPart(doy) + 2) \div 5 + 1
DateOf(p) ==
  LET m == MonthOf(MonthPart(p.doy)) IN ymd(YearOf(p) + (IF m <= 2 THEN 1 ELSE 0), m, DayOf(p.doy))
Shortened(x) == ymd(short(x.year), x.month, x.day)

(* The bounds of the counts.                                               *)
LEMMA CountsType ==
  ASSUME NEW p \in Counts
  PROVE  /\ p.e \in Int
         /\ p.c \in Int /\ 0 <= p.c /\ p.c <= 3
         /\ p.q \in Int /\ 0 <= p.q /\ p.q <= 24
         /\ p.r \in Int /\ 0 <= p.r /\ p.r <= 3
         /\ p.doy \in Int /\ 0 <= p.doy /\ p.doy <= 365
         /\ p.doy = 365 => p.r = 3 /\ (p.q # 24 \/ p.c = 3)
BY DEF Counts

(* The day of the era determines the year of the era and the day of the    *)
(* year, as from_days computes them.                                       *)
LEMMA YearOfEraIs ==
  ASSUME NEW p \in Counts, NEW doe, doe = DayOfEra(p)
  PROVE  /\ doe \in Int /\ 0 <= doe /\ doe <= 146096
         /\ (doe - doe \div 1460 + doe \div 36524 - doe \div 146096) \div 365 = YearOfEra(p)
         /\ YearOfEra(p) \div 4 = 25 * p.c + p.q /\ YearOfEra(p) \div 100 = p.c
         /\ doe - (365 * YearOfEra(p) + YearOfEra(p) \div 4 - YearOfEra(p) \div 100) = p.doy
<1> DEFINE c == p.c
           q == p.q
           r == p.r
           doy == p.doy
           yoe == YearOfEra(p)
<1>1. /\ c \in Int /\ 0 <= c /\ c <= 3 /\ q \in Int /\ 0 <= q /\ q <= 24 /\ r \in Int /\ 0 <= r /\ r <= 3
      /\ doy \in Int /\ 0 <= doy /\ doy <= 365
      /\ doy = 365 => r = 3 /\ (q # 24 \/ c = 3)
  BY CountsType
<1>2. doe = 36524 * c + 1461 * q + 365 * r + doy
  BY DEF DayOfEra, YearDays
<1>3. yoe = 100 * c + 4 * q + r
  BY DEF YearOfEra
<1> HIDE DEF c, q, r, doy, yoe
<1>4. doe \in Int /\ yoe \in Int
  BY <1>1, <1>2, <1>3
<1>5. 0 <= doe /\ doe <= 146096
  BY <1>1, <1>2, <1>4
<1>6. yoe \div 4 = 25 * c + q
  BY <1>1, <1>3, <1>4
<1>7. yoe \div 100 = c
  BY <1>1, <1>3, <1>4
<1>8. doe - (365 * yoe + yoe \div 4 - yoe \div 100) = doy
  BY <1>1, <1>2, <1>3, <1>4, <1>6, <1>7
<1>9. (doe - doe \div 1460 + doe \div 36524 - doe \div 146096) \div 365 = yoe
  BY <1>1, <1>2, <1>3, <1>4, SMTT(60)
<1> QED BY <1>4, <1>5, <1>6, <1>7, <1>8, <1>9 DEF c, q, yoe, doy

(* The month and the day of a day of the year, and back.                   *)
LEMMA MonthOfYear ==
  ASSUME NEW mp \in 0..11, NEW d \in 1..31,
         mp \in {1, 3, 6, 8} => d <= 30, mp = 11 => d <= 29,
         NEW doy \in Int, doy = (153 * mp + 2) \div 5 + d - 1
  PROVE  /\ 0 <= doy /\ doy <= 365 /\ MonthPart(doy) = mp /\ DayOf(doy) = d
         /\ doy = 365 <=> mp = 11 /\ d = 29
<1>1. 0 <= doy /\ doy <= 365 /\ MonthPart(doy) = mp
  BY DEF MonthPart
<1>2. DayOf(doy) = d
  BY <1>1 DEF DayOf
<1> QED BY <1>1, <1>2

(* The month and the day of the month of a day of the year, in their       *)
(* ranges.                                                                 *)
LEMMA MonthOfDay ==
  ASSUME NEW doy \in Int, 0 <= doy, doy <= 365
  PROVE  /\ MonthPart(doy) \in 0..11 /\ DayOf(doy) \in 1..31
         /\ MonthPart(doy) \in {1, 3, 6, 8} => DayOf(doy) <= 30
         /\ MonthPart(doy) = 11 => DayOf(doy) <= (IF doy = 365 THEN 29 ELSE 28)
<1> DEFINE mp == MonthPart(doy)
           d == DayOf(doy)
<1>1. mp \in Int /\ mp = (5 * doy + 2) \div 153 /\ d \in Int /\ d = doy - (153 * mp + 2) \div 5 + 1
  BY DEF MonthPart, DayOf
<1> HIDE DEF mp, d
<1>2. 0 <= mp /\ mp <= 11
  BY <1>1
<1>3. d \in 1..31 /\ (mp \in {1, 3, 6, 8} => d <= 30) /\ (mp = 11 => d <= (IF doy = 365 THEN 29 ELSE 28))
  BY <1>1, <1>2
<1>4. mp \in 0..11
  BY <1>1, <1>2
<1> QED BY <1>3, <1>4 DEF mp, d

(* Every day of an era has counts.                                         *)
LEMMA EveryDayOfEra ==
  ASSUME NEW e \in Int, NEW doe \in Int, 0 <= doe, doe <= 146096
  PROVE  \E p \in Counts : p.e = e /\ doe = DayOfEra(p)
<1> DEFINE c == IF doe \div 36524 > 3 THEN 3 ELSE doe \div 36524
           a == doe - 36524 * c
           q == a \div 1461
           b == a - 1461 * q
           r == IF b \div 365 > 3 THEN 3 ELSE b \div 365
           doy == b - 365 * r
           p == [e |-> e, c |-> c, q |-> q, r |-> r, doy |-> doy]
<1>1. c \in Int /\ 0 <= c /\ c <= 3 /\ a \in Int /\ 0 <= a /\ a <= 36524 /\ (a = 36524 => c = 3)
  OBVIOUS
<1>2. doe = 36524 * c + a
  BY <1>1
<1> HIDE DEF c, a
<1>3. q \in Int /\ 0 <= q /\ q <= 24 /\ b \in Int /\ 0 <= b /\ b <= 1460
  BY <1>1
<1>4. a = 1461 * q + b
  BY <1>1, <1>3
<1> HIDE DEF q, b
<1>5. r \in Int /\ 0 <= r /\ r <= 3 /\ doy \in Int /\ 0 <= doy /\ doy <= 365 /\ (doy = 365 => r = 3)
  BY <1>3
<1>6. b = 365 * r + doy
  BY <1>3, <1>5
<1> HIDE DEF r, doy
<1>7. doe = 36524 * c + 1461 * q + 365 * r + doy
  BY <1>1, <1>2, <1>3, <1>4, <1>5, <1>6
<1>8. doy = 365 => r = 3 /\ (q # 24 \/ c = 3)
  BY <1>1, <1>3, <1>4, <1>5, <1>6
<1>9. p \in Counts
  BY <1>1, <1>3, <1>5, <1>8 DEF Counts
<1>10. p.e = e /\ doe = DayOfEra(p)
  BY <1>7 DEF DayOfEra, YearDays
<1> QED BY <1>9, <1>10

(* The conversion to a short keeps a year that year_ok accepts.            *)
LEMMA ShortFits ==
  ASSUME NEW y \in Int, YearOk(y)
  PROVE  short(y) = y
BY DEF short, YearOk

(* The days before a year of the era; and each year is one of an era.      *)
LEMMA YearStartOfEra ==
  ASSUME NEW p \in Counts
  PROVE  /\ YearStart(YearOf(p)) = 146097 * p.e + YearDays(p)
         /\ YearOf(p) \in Int /\ YearDays(p) \in Int
         /\ p.doy = 365 => LeapYear(YearOf(p) + 1)
<1> DEFINE y == YearOf(p)
           e == p.e
           c == p.c
           q == p.q
           r == p.r
<1>1. /\ e \in Int /\ c \in Int /\ 0 <= c /\ c <= 3 /\ q \in Int /\ 0 <= q /\ q <= 24
      /\ r \in Int /\ 0 <= r /\ r <= 3
      /\ p.doy = 365 => r = 3 /\ (q # 24 \/ c = 3)
  BY CountsType
<1>2. y = 400 * e + 100 * c + 4 * q + r
  BY <1>1 DEF YearOf, YearOfEra
<1>3. YearDays(p) = 36524 * c + 1461 * q + 365 * r
  BY DEF YearDays
<1> HIDE DEF y, e, c, q, r
<1>4. y \in Int
  BY <1>1, <1>2
<1>5. y \div 4 = 100 * e + 25 * c + q
  BY <1>1, <1>2, <1>4
<1>6. y \div 100 = 4 * e + c
  BY <1>1, <1>2, <1>4
<1>7. y \div 400 = e
  BY <1>1, <1>2, <1>4
<1>8. YearStart(y) = 146097 * e + YearDays(p)
  BY <1>1, <1>2, <1>3, <1>5, <1>6, <1>7 DEF YearStart
<1>9. p.doy = 365 => LeapYear(y + 1)
  BY <1>1, <1>2, <1>4 DEF LeapYear
<1>10. YearDays(p) \in Int
  BY <1>1, <1>3
<1> QED BY <1>4, <1>8, <1>9, <1>10 DEF y, e

(* Every year has an era, a century, a four of years and a year.           *)
LEMMA EraOfYear ==
  ASSUME NEW y \in Int, NEW doy \in Int, 0 <= doy, doy <= 365, doy = 365 => LeapYear(y + 1)
  PROVE  \E p \in Counts : p.doy = doy /\ y = YearOf(p)
<1> DEFINE e == y \div 400
           s == y - 400 * e
           c == s \div 100
           t == s - 100 * c
           q == t \div 4
           r == t - 4 * q
           p == [e |-> e, c |-> c, q |-> q, r |-> r, doy |-> doy]
<1>1. e \in Int /\ s \in Int /\ 0 <= s /\ s <= 399
  OBVIOUS
<1>2. y = 400 * e + s
  BY <1>1
<1> HIDE DEF e, s
<1>3. c \in Int /\ 0 <= c /\ c <= 3 /\ t \in Int /\ 0 <= t /\ t <= 99
  BY <1>1
<1>4. s = 100 * c + t
  BY <1>1, <1>3
<1> HIDE DEF c, t
<1>5. q \in Int /\ 0 <= q /\ q <= 24 /\ r \in Int /\ 0 <= r /\ r <= 3
  BY <1>3
<1>6. t = 4 * q + r
  BY <1>3, <1>5
<1> HIDE DEF q, r
<1>7. y = 400 * e + 100 * c + 4 * q + r
  BY <1>1, <1>2, <1>3, <1>4, <1>5, <1>6
<1>8. doy = 365 => r = 3 /\ (q # 24 \/ c = 3)
  BY <1>1, <1>3, <1>5, <1>7 DEF LeapYear
<1>9. p \in Counts
  BY <1>1, <1>3, <1>5, <1>8 DEF Counts
<1>10. p.doy = doy /\ y = YearOf(p)
  BY <1>1, <1>3, <1>5, <1>7 DEF YearOf, YearOfEra
<1> QED BY <1>9, <1>10

(* What from_days gives for a day that is counted in eras and years.       *)
LEMMA FromDaysIs ==
  ASSUME NEW p \in Counts
  PROVE  from_days(DaysOf(p)) = Shortened(DateOf(p))
<1> DEFINE z == DaysOf(p)
           n == z + Epoch
           doe == DayOfEra(p)
           yoe == YearOfEra(p)
           e == p.e
           y == YearOf(p)
           doy == p.doy
           b == trunc(IF n >= 0 THEN n ELSE n - 146096, 146097)
<1>1. /\ doe \in Int /\ 0 <= doe /\ doe <= 146096
      /\ (doe - doe \div 1460 + doe \div 36524 - doe \div 146096) \div 365 = yoe
      /\ doe - (365 * yoe + yoe \div 4 - yoe \div 100) = doy
  BY YearOfEraIs
<1>2. e \in Int
  BY CountsType
<1>3. yoe \in Int /\ yoe + e * 400 = y
  BY CountsType DEF YearOf, YearOfEra
<1> HIDE DEF doe, yoe, e, y, doy
<1>4. z = 146097 * e + doe - Epoch
  BY DEF DaysOf, doe, e
<1> HIDE DEF z
<1>5. z \in Int /\ n \in Int /\ n = 146097 * e + doe
  BY <1>1, <1>2, <1>4, EpochType
<1> HIDE DEF n
<1>6. b = n \div 146097
  BY <1>5 DEF trunc
<1> HIDE DEF b
<1>7. n \div 146097 = e
  BY <1>1, <1>2, <1>5
<1>8. n - b * 146097 = doe
  BY <1>1, <1>2, <1>5, <1>6, <1>7
<1> DEFINE Day(doy1, y1, b1, mp1, m1) ==
             ymd(short(y1 + b1 * 400 + (IF m1 <= 2 THEN 1 ELSE 0)), m1, doy1 - (153 * mp1 + 2) \div 5 + 1)
           MonthAnd(doy1, y1, b1, mp1) == Day(doy1, y1, b1, mp1, IF mp1 < 10 THEN mp1 + 3 ELSE mp1 - 9)
           OfYear(doy1, y1, b1) == MonthAnd(doy1, y1, b1, (5 * doy1 + 2) \div 153)
           OfEra(doe1, y1, b1) == OfYear(doe1 - (365 * y1 + y1 \div 4 - y1 \div 100), y1, b1)
           OfDay(doe1, b1) ==
             OfEra(doe1, (doe1 - doe1 \div 1460 + doe1 \div 36524 - doe1 \div 146096) \div 365, b1)
<1>9. from_days(z) = OfDay(n - b * 146097, b)
  BY SMTT(60), <1>2, <1>5, <1>6, <1>7 DEF from_days, Epoch, n, b, ymd
<1>10. from_days(z) = OfDay(doe, e)
  <2> HIDE DEF OfDay
  <2> QED BY <1>6, <1>7, <1>8, <1>9
<1>11. OfDay(doe, e) = OfYear(doy, yoe, e)
  BY <1>1
<1>12. OfYear(doy, yoe, e)
         = ymd(short(y + (IF MonthOf(MonthPart(doy)) <= 2 THEN 1 ELSE 0)), MonthOf(MonthPart(doy)), DayOf(doy))
  BY <1>3 DEF MonthPart, MonthOf, DayOf
<1>13. Shortened(DateOf(p))
         = ymd(short(y + (IF MonthOf(MonthPart(doy)) <= 2 THEN 1 ELSE 0)), MonthOf(MonthPart(doy)), DayOf(doy))
  BY DEF Shortened, DateOf, ymd, y, doy
<1> QED BY <1>10, <1>11, <1>12, <1>13 DEF z

(* The days of a date, in eras and years.                                  *)
LEMMA ToDaysOfEra ==
  ASSUME NEW x \in Dates
  PROVE  \E p \in Counts : x = DateOf(p) /\ to_days(x) = DaysOf(p)
<1> DEFINE y == March(x)
           s == MonthStart(x.month)
           mp == IF x.month > 2 THEN x.month - 3 ELSE x.month + 9
           d == x.day
           doy == s + d - 1
<1>1. x.year \in Int /\ x.month \in 1..12 /\ d \in 1..31 /\ d <= MonthLength(x.year, x.month)
      /\ x = ymd(x.year, x.month, d)
  BY DEF Dates, ymd
<1>2. /\ to_days(x) = YearStart(y) + s + d - 1 - Epoch
      /\ y \in Int /\ YearStart(y) \in Int /\ s \in Int
  BY <1>1, ToDaysIs, MonthStartType
<1>3. x.year = y + (IF x.month <= 2 THEN 1 ELSE 0)
  BY <1>1 DEF March
<1> HIDE DEF y
<1>4. mp \in 0..11 /\ s = (153 * mp + 2) \div 5
  BY <1>1 DEF MonthStart
<1>5. (mp \in {1, 3, 6, 8} => d <= 30) /\ (mp = 11 => d <= 29)
  BY <1>1 DEF MonthLength
<1>6. mp = 11 /\ d = 29 => x.month = 2 /\ LeapYear(x.year)
  BY <1>1 DEF MonthLength
<1>7. x.month = MonthOf(mp)
  BY <1>1 DEF MonthOf
<1> HIDE DEF s, mp, d
<1>8. doy \in Int /\ to_days(x) = YearStart(y) + doy - Epoch
  BY <1>1, <1>2, EpochType
<1>9. doy = (153 * mp + 2) \div 5 + d - 1
  BY <1>4
<1> HIDE DEF doy
<1>10. /\ 0 <= doy /\ doy <= 365 /\ MonthPart(doy) = mp /\ DayOf(doy) = d
       /\ doy = 365 <=> mp = 11 /\ d = 29
  BY <1>1, <1>4, <1>5, <1>8, <1>9, MonthOfYear
<1>11. doy = 365 => LeapYear(y + 1)
  BY <1>2, <1>3, <1>6, <1>10
<1>12. PICK p \in Counts : p.doy = doy /\ y = YearOf(p)
  BY <1>2, <1>8, <1>10, <1>11, EraOfYear
<1>13. YearStart(y) = 146097 * p.e + YearDays(p) /\ YearDays(p) \in Int /\ p.e \in Int
  BY <1>12, YearStartOfEra, CountsType
<1>14. to_days(x) = DaysOf(p)
  BY <1>8, <1>12, <1>13, EpochType DEF DaysOf, DayOfEra
<1>15. x = DateOf(p)
  BY <1>1, <1>3, <1>7, <1>10, <1>12 DEF DateOf
<1> QED BY <1>14, <1>15

(* The date of the days of a date is that date.                            *)
LEMMA DateOfDays ==
  ASSUME NEW x \in Dates, YearOk(x.year)
  PROVE  from_days(to_days(x)) = x
<1>1. PICK p \in Counts : x = DateOf(p) /\ to_days(x) = DaysOf(p)
  BY ToDaysOfEra, Zenon
<1>2. from_days(to_days(x)) = Shortened(x)
  BY <1>1, FromDaysIs
<1>3. x.year \in Int /\ x = ymd(x.year, x.month, x.day)
  BY DEF Dates, ymd
<1>4. short(x.year) = x.year
  BY <1>3, ShortFits
<1> QED BY <1>2, <1>3, <1>4 DEF Shortened

(* Every day has a date.                                                   *)
LEMMA EveryDay ==
  ASSUME NEW z \in Int
  PROVE  \E x \in Dates : to_days(x) = z
<1> DEFINE n == z + Epoch
           e == n \div 146097
           doe == n - 146097 * e
<1>1. e \in Int /\ doe \in Int /\ 0 <= doe /\ doe <= 146096
  BY EpochType
<1>2. z = 146097 * e + doe - Epoch
  BY <1>1, EpochType
<1> HIDE DEF n, e, doe
<1>3. PICK p \in Counts : p.e = e /\ doe = DayOfEra(p)
  BY <1>1, EveryDayOfEra
<1> DEFINE doy == p.doy
           y == YearOf(p)
           mp == MonthPart(doy)
           m == MonthOf(mp)
           d == DayOf(doy)
           w == y + (IF m <= 2 THEN 1 ELSE 0)
           x == ymd(w, m, d)
<1>4. /\ YearStart(y) = 146097 * e + YearDays(p) /\ YearDays(p) \in Int /\ y \in Int
      /\ doy = 365 => LeapYear(y + 1)
  BY <1>3, YearStartOfEra
<1>5. doe = YearDays(p) + doy
  BY <1>3 DEF DayOfEra
<1>6. doy \in Int /\ 0 <= doy /\ doy <= 365
  BY CountsType
<1> HIDE DEF doy, y
<1>7. /\ mp \in 0..11 /\ d \in 1..31 /\ (mp \in {1, 3, 6, 8} => d <= 30)
      /\ mp = 11 => d <= (IF doy = 365 THEN 29 ELSE 28)
  BY <1>6, MonthOfDay
<1>8. d = doy - (153 * mp + 2) \div 5 + 1
  BY DEF DayOf
<1> HIDE DEF mp, d
<1>9. m \in 1..12 /\ mp = (IF m > 2 THEN m - 3 ELSE m + 9)
  BY <1>7 DEF MonthOf
<1> HIDE DEF m
<1>10. MonthStart(m) = (153 * mp + 2) \div 5
  BY <1>9 DEF MonthStart
<1>11. w \in Int
  BY <1>4, <1>9
<1>12. d <= MonthLength(w, m)
  BY <1>4, <1>7, <1>9 DEF MonthLength
<1>13. March(x) = y
  BY <1>4, <1>9 DEF March, ymd
<1> HIDE DEF w
<1>14. x \in Dates
  BY <1>7, <1>9, <1>11, <1>12 DEF Dates, ymd
<1>15. x.year = w /\ x.month = m /\ x.day = d
  BY DEF ymd
<1> HIDE DEF x
<1>16. MonthStart(m) \in Int /\ d \in Int
  BY <1>7, <1>9, MonthStartType
<1>17. to_days(x) = YearStart(y) + MonthStart(m) + d - 1 - Epoch
  BY <1>9, <1>11, <1>13, <1>15, <1>16, ToDaysIs
<1>18. to_days(x) = z
  BY <1>1, <1>2, <1>4, <1>5, <1>6, <1>8, <1>10, <1>16, <1>17, EpochType
<1> QED BY <1>14, <1>18

-------------------------------------------------------------------------------
(* Dates compare as their days do.                                         *)
First(y, m) == to_days(ymd(y, m, 1))

(* Comparing pairs, as year_month and month_day are compared.              *)
LEMMA BeforePair ==
  ASSUME NEW a \in Int, NEW b \in Int, NEW c \in Int, NEW d \in Int
  PROVE  Before(<<a, b>>, <<c, d>>) <=> a < c \/ (a = c /\ b < d)
<1> DEFINE x == <<a, b>>
           y == <<c, d>>
<1>1. x[1] = a /\ x[2] = b /\ y[1] = c /\ y[2] = d /\ DOMAIN x = {1, 2}
  OBVIOUS
<1> HIDE DEF x, y
<1>2. Before(x, y) <=> \E i \in {1, 2} : x[i] < y[i] /\ \A j \in 1..(i - 1) : x[j] = y[j]
  BY <1>1 DEF Before
<1>3. 1..(1 - 1) = {} /\ 1..(2 - 1) = {1}
  OBVIOUS
<1> QED BY <1>1, <1>2, <1>3 DEF x, y

(* Comparing triples, as year_month_day is compared.                       *)
LEMMA BeforeTriple ==
  ASSUME NEW a \in Int, NEW b \in Int, NEW c \in Int, NEW d \in Int, NEW e \in Int, NEW f \in Int
  PROVE  Before(<<a, b, c>>, <<d, e, f>>)
           <=> a < d \/ (a = d /\ b < e) \/ (a = d /\ b = e /\ c < f)
<1> DEFINE x == <<a, b, c>>
           y == <<d, e, f>>
<1>1. /\ x[1] = a /\ x[2] = b /\ x[3] = c /\ y[1] = d /\ y[2] = e /\ y[3] = f
      /\ DOMAIN x = {1, 2, 3}
  OBVIOUS
<1> HIDE DEF x, y
<1>2. Before(x, y) <=> \E i \in {1, 2, 3} : x[i] < y[i] /\ \A j \in 1..(i - 1) : x[j] = y[j]
  BY <1>1 DEF Before
<1>3. 1..(1 - 1) = {} /\ 1..(2 - 1) = {1} /\ 1..(3 - 1) = {1, 2}
  OBVIOUS
<1> QED BY <1>1, <1>2, <1>3 DEF x, y

(* A later year starts 365 days later for each year, at least.             *)
LEMMA YearsGrow ==
  ASSUME NEW y \in Int, NEW z \in Int, y <= z
  PROVE  YearStart(z) - YearStart(y) >= 365 * (z - y)
<1> DEFINE a == y \div 4
           b == z \div 4
<1>1. a \in Int /\ b \in Int /\ a <= b
  OBVIOUS
<1>2. y \div 100 = a \div 25 /\ z \div 100 = b \div 25
  OBVIOUS
<1>3. y \div 400 <= z \div 400 /\ y \div 400 \in Int /\ z \div 400 \in Int
  OBVIOUS
<1>4. YearStart(y) = 365 * y + a - a \div 25 + y \div 400
  BY <1>2 DEF YearStart
<1>5. YearStart(z) = 365 * z + b - b \div 25 + z \div 400
  BY <1>2 DEF YearStart
<1> HIDE DEF a, b
<1>6. a - a \div 25 <= b - b \div 25 /\ a \div 25 \in Int /\ b \div 25 \in Int
  BY <1>1
<1> QED BY <1>1, <1>3, <1>4, <1>5, <1>6

(* The first of a month in terms of its year.                              *)
LEMMA FirstIs ==
  ASSUME NEW y \in Int, NEW m \in 1..12
  PROVE  /\ First(y, m) = (IF m > 2 THEN YearStart(y) ELSE YearStart(y - 1)) + MonthStart(m) - Epoch
         /\ First(y, m) \in Int /\ YearStart(y) \in Int /\ YearStart(y - 1) \in Int
         /\ YearStart(y) = YearStart(y - 1) + (IF LeapYear(y) THEN 366 ELSE 365)
<1> DEFINE x == ymd(y, m, 1)
<1>1. x.year = y /\ x.month = m /\ x.day = 1
  BY DEF ymd
<1>2. March(x) = IF m > 2 THEN y ELSE y - 1
  BY <1>1 DEF March
<1> HIDE DEF x
<1>3. /\ to_days(x) = YearStart(March(x)) + MonthStart(m) - Epoch
      /\ YearStart(March(x)) \in Int /\ to_days(x) \in Int
  BY <1>1, ToDaysIs, 1 \in Int, EpochType, MonthStartType
<1>4. First(y, m) = to_days(x)
  BY DEF First, x
<1>5. YearStart(y) \in Int /\ YearStart(y) = YearStart(y - 1) + (IF LeapYear(y) THEN 366 ELSE 365)
  BY NextYearStart
<1>6. YearStart(y - 1) \in Int
  BY NextYearStart, y - 1 \in Int
<1>7. MonthStart(m) \in Int
  BY MonthStartType
<1> QED BY <1>2, <1>3, <1>4, <1>5, <1>6, <1>7

(* A later month of a year starts when an earlier one has ended.           *)
LEMMA MonthsInOrder ==
  ASSUME NEW y \in Int, NEW m \in 1..12, NEW n \in 1..12, m < n
  PROVE  First(y, m) + MonthLength(y, m) <= First(y, n)
<1> DEFINE s == MonthStart(m)
           t == MonthStart(n)
           l == MonthLength(y, m)
           a == YearStart(y)
           b == YearStart(y - 1)
<1>1. s \in Int /\ t \in Int /\ 0 <= t /\ l \in Int
  BY MonthStartType, MonthLengthType
<1>2. First(y, m) = (IF m > 2 THEN a ELSE b) + s - Epoch
  BY FirstIs, Zenon
<1>3. First(y, n) = (IF n > 2 THEN a ELSE b) + t - Epoch
  BY FirstIs, Zenon
<1>4. a \in Int /\ b \in Int /\ a = b + (IF LeapYear(y) THEN 366 ELSE 365)
  BY FirstIs
<1>5. m > 2 \/ n <= 2 => s + l <= t
  BY DEF MonthStart, MonthLength
<1>6. m <= 2 => s + l <= IF LeapYear(y) THEN 366 ELSE 365
  BY DEF MonthStart, MonthLength
<1> HIDE DEF s, t, l, a, b
<1>7. (IF m > 2 THEN a ELSE b) + s + l <= (IF n > 2 THEN a ELSE b) + t
  BY <1>1, <1>4, <1>5, <1>6
<1>8. (IF m > 2 THEN a ELSE b) \in Int /\ (IF n > 2 THEN a ELSE b) \in Int
  BY <1>4
<1>9. First(y, m) + l <= First(y, n)
  BY <1>1, <1>2, <1>3, <1>7, <1>8, EpochType
<1> QED BY <1>9 DEF l

(* A date is within its month and within its year.                         *)
LEMMA WithinYear ==
  ASSUME NEW x \in Dates
  PROVE  /\ First(x.year, 1) <= to_days(x) /\ to_days(x) < First(x.year + 1, 1)
         /\ First(x.year, x.month) + x.day - 1 = to_days(x)
         /\ to_days(x) \in Int
<1> DEFINE y == x.year
           m == x.month
           d == x.day
<1>1. y \in Int /\ m \in 1..12 /\ d \in 1..31 /\ d <= MonthLength(y, m) /\ x = ymd(y, m, d)
  BY DEF Dates, ymd
<1> HIDE DEF y, m, d
<1>2. to_days(x) = First(y, m) + d - 1 /\ to_days(x) \in Int /\ First(y, m) \in Int
  <2>1. d \in Int
    BY <1>1
  <2>2. /\ to_days(ymd(y, m, d)) = to_days(ymd(y, m, 1)) + d - 1
        /\ to_days(ymd(y, m, d)) \in Int /\ to_days(ymd(y, m, 1)) \in Int
    BY <1>1, <2>1, FromFirst, Zenon
  <2> QED BY <1>1, <2>2, Zenon DEF First
<1>3. First(y, 1) <= First(y, m) /\ First(y, 1) \in Int
  <2>1. CASE m = 1
    BY <2>1, FirstIs, 1 \in 1..12, <1>1, <1>2
  <2>2. CASE m # 1
    <3>1. 1 \in 1..12 /\ 1 < m
      BY <1>1, <2>2
    <3>2. First(y, 1) + MonthLength(y, 1) <= First(y, m)
      BY <1>1, <3>1, MonthsInOrder
    <3>3. First(y, 1) \in Int
      BY <1>1, <3>1, FirstIs, Zenon
    <3>4. MonthLength(y, 1) \in Int /\ 28 <= MonthLength(y, 1)
      BY <3>1, MonthLengthType, Zenon
    <3> QED BY <1>2, <3>2, <3>3, <3>4
  <2> QED BY <2>1, <2>2
<1>4. First(y, m) + MonthLength(y, m) <= First(y + 1, 1) /\ First(y + 1, 1) \in Int
  <2>1. First(y + 1, 1) = First(y, 12) + 31 /\ MonthLength(y, 12) = 31 /\ First(y, 12) \in Int
    BY <1>1, NewYears, FirstIs, 12 \in 1..12 DEF First, MonthLength
  <2>2. CASE m = 12
    BY <2>1, <2>2
  <2>3. CASE m # 12
    <3>1. 12 \in 1..12 /\ m < 12
      BY <1>1, <2>3
    <3>2. First(y, m) + MonthLength(y, m) <= First(y, 12)
      BY <1>1, <3>1, MonthsInOrder
    <3> QED BY <1>1, <1>2, <2>1, <3>2, MonthLengthType
  <2> QED BY <2>2, <2>3
<1>5. MonthLength(y, m) \in Int
  BY <1>1, MonthLengthType
<1> QED BY <1>1, <1>2, <1>3, <1>4, <1>5 DEF y, m, d

(* A date of an earlier year is earlier, by 365 days for each year         *)
(* between.                                                                *)
LEMMA EarlierYear ==
  ASSUME NEW x \in Dates, NEW y \in Dates, x.year < y.year
  PROVE  to_days(x) + 365 * (y.year - x.year - 1) < to_days(y)
<1> DEFINE a == x.year + 1
           b == y.year
<1>1. a \in Int /\ b \in Int /\ a <= b
  BY DEF Dates
<1>2. to_days(x) < First(a, 1) /\ First(b, 1) <= to_days(y) /\ to_days(x) \in Int /\ to_days(y) \in Int
  BY WithinYear
<1>3. y.year - x.year - 1 = b - a
  BY DEF Dates
<1> HIDE DEF a, b
<1>4. /\ First(a, 1) = YearStart(a - 1) + 306 - Epoch /\ First(b, 1) = YearStart(b - 1) + 306 - Epoch
      /\ YearStart(a - 1) \in Int /\ YearStart(b - 1) \in Int
  BY <1>1, NewYears, FirstIs, 1 \in 1..12 DEF First
<1>5. YearStart(b - 1) - YearStart(a - 1) >= 365 * ((b - 1) - (a - 1))
  BY <1>1, YearsGrow, a - 1 \in Int, b - 1 \in Int
<1> QED BY <1>1, <1>2, <1>3, <1>4, <1>5, EpochType

(* A date that is less is earlier.                                         *)
LEMMA LessEarlier ==
  ASSUME NEW x \in Dates, NEW y \in Dates, year_month_day_less(x, y)
  PROVE  to_days(x) < to_days(y)
<1>1. /\ x.year \in Int /\ x.month \in 1..12 /\ x.day \in 1..31 /\ x.day <= MonthLength(x.year, x.month)
      /\ y.year \in Int /\ y.month \in 1..12 /\ y.day \in 1..31
  BY DEF Dates
<1>2. \/ x.year < y.year
      \/ x.year = y.year /\ x.month < y.month
      \/ x.year = y.year /\ x.month = y.month /\ x.day < y.day
  <2>1. x.month \in Int /\ x.day \in Int /\ y.month \in Int /\ y.day \in Int
    BY <1>1
  <2>2. x.year \in Int /\ y.year \in Int
    BY <1>1
  <2>3. \/ x.year < y.year
        \/ x.year = y.year /\ x.month < y.month
        \/ x.year = y.year /\ x.month = y.month /\ x.day < y.day
    BY <2>1, <2>2, BeforeTriple DEF year_month_day_less
  <2> QED BY <2>3, Zenon
<1>3. /\ First(x.year, x.month) + x.day - 1 = to_days(x) /\ to_days(x) \in Int
      /\ First(y.year, y.month) + y.day - 1 = to_days(y) /\ to_days(y) \in Int
  BY WithinYear
<1>4. First(x.year, x.month) \in Int
  BY <1>1, FirstIs, Zenon
<1>5. First(y.year, y.month) \in Int
  BY <1>1, FirstIs, Zenon
<1>6. CASE x.year < y.year
  BY <1>1, <1>3, <1>6, EarlierYear
<1>7. CASE x.year = y.year /\ x.month < y.month
  <2>1. First(x.year, x.month) + MonthLength(x.year, x.month) <= First(y.year, y.month)
    BY <1>1, <1>7, MonthsInOrder
  <2> QED BY <1>1, <1>3, <1>4, <1>5, <2>1, MonthLengthType
<1>8. CASE x.year = y.year /\ x.month = y.month /\ x.day < y.day
  BY <1>1, <1>3, <1>8, <1>4, <1>5
<1> QED BY <1>2, <1>6, <1>7, <1>8

(* operator< of year_month_day compares the days.                          *)
LEMMA DaysInOrder ==
  ASSUME NEW x \in Dates, NEW y \in Dates
  PROVE  year_month_day_less(x, y) <=> to_days(x) < to_days(y)
<1>1. year_month_day_less(x, y) \/ year_month_day_less(y, x) \/ x = y
  <2>1. /\ x.year \in Int /\ x.month \in Int /\ x.day \in Int /\ x = ymd(x.year, x.month, x.day)
        /\ y.year \in Int /\ y.month \in Int /\ y.day \in Int /\ y = ymd(y.year, y.month, y.day)
    BY DEF Dates, ymd
  <2>2. /\ year_month_day_less(x, y) <=> \/ x.year < y.year \/ (x.year = y.year /\ x.month < y.month)
                                         \/ x.year = y.year /\ x.month = y.month /\ x.day < y.day
        /\ year_month_day_less(y, x) <=> \/ y.year < x.year \/ (y.year = x.year /\ y.month < x.month)
                                         \/ y.year = x.year /\ y.month = x.month /\ y.day < x.day
    BY <2>1, BeforeTriple DEF year_month_day_less
  <2> QED BY <2>1, <2>2
<1>2. to_days(x) \in Int /\ to_days(y) \in Int
  BY WithinYear
<1> QED BY <1>1, <1>2, LessEarlier

-------------------------------------------------------------------------------
(* The inductive invariant: the date exists, its year fits its type, and   *)
(* elapsed and wd are its days and its day of the week.                    *)
CalendarInv ==
  /\ date \in Dates
  /\ FirstYear <= date.year /\ date.year <= LastYear
  /\ elapsed = to_days(date)
  /\ wd = (elapsed + 4) % 7

(* The year of the calendar fits the type.                                 *)
LEMMA YearFits ==
  ASSUME CalendarInv
  PROVE  YearOk(date.year) /\ year_ok(date.year)
BY CivilClockAssumption DEF CalendarInv, Dates, YearOk, year_ok

(* The day after a date exists and is one day later.                       *)
LEMMA TomorrowIs ==
  ASSUME CalendarInv
  PROVE  Tomorrow \in Dates /\ to_days(Tomorrow) = elapsed + 1 /\ date.year <= Tomorrow.year
<1> DEFINE y == date.year
           m == date.month
           d == date.day
<1>1. y \in Int /\ m \in 1..12 /\ d \in 1..31 /\ d <= MonthLength(y, m) /\ date = ymd(y, m, d)
  BY DEF CalendarInv, Dates, ymd
<1>2. d \in Int /\ m \in Int /\ MonthLength(y, m) \in Int /\ MonthLength(y, m) <= 31
  BY <1>1, MonthLengthType
<1>3. First(y, m) + d - 1 = elapsed /\ First(y, m) \in Int
  <2>1. date \in Dates /\ elapsed = to_days(date)
    BY DEF CalendarInv
  <2>2. First(y, m) + d - 1 = to_days(date)
    BY <2>1, WithinYear, Zenon
  <2>3. First(y, m) \in Int
    BY <1>1, FirstIs, Zenon
  <2> QED BY <2>1, <2>2, <2>3
<1>4. CASE d < MonthLength(y, m)
  <2>1. Tomorrow = ymd(y, m, d + 1)
    BY <1>4 DEF Tomorrow
  <2> HIDE DEF y, m, d
  <2>2. ymd(y, m, d + 1) \in Dates
    BY <1>1, <1>2, <1>4 DEF Dates, ymd
  <2>3. to_days(ymd(y, m, d + 1)) = First(y, m) + d
    <3>1. d + 1 \in Int
      BY <1>2
    <3>2. to_days(ymd(y, m, d + 1)) = to_days(ymd(y, m, 1)) + (d + 1) - 1
      BY <1>1, <3>1, FromFirst, Zenon
    <3> QED BY <1>2, <1>3, <3>2 DEF First
  <2>4. ymd(y, m, d + 1).year = y
    BY DEF ymd
  <2> QED BY <1>1, <1>2, <1>3, <2>1, <2>2, <2>3, <2>4 DEF y
<1>5. CASE d = MonthLength(y, m) /\ m < 12
  <2>1. Tomorrow = ymd(y, m + 1, 1)
    BY <1>2, <1>5 DEF Tomorrow
  <2> HIDE DEF y, m, d
  <2>2. m + 1 \in 1..12 /\ m \in 1..11
    BY <1>1, <1>5
  <2>3. ymd(y, m + 1, 1) \in Dates
    BY <1>1, <2>2, MonthLengthType DEF Dates, ymd
  <2>4. to_days(ymd(y, m + 1, 1)) = First(y, m) + d
    BY <1>1, <1>2, <1>3, <1>5, <2>2, NextMonthStart DEF First
  <2>5. ymd(y, m + 1, 1).year = y
    BY DEF ymd
  <2> QED BY <1>1, <1>2, <1>3, <2>1, <2>3, <2>4, <2>5 DEF y
<1>6. CASE d = MonthLength(y, m) /\ m = 12
  <2>1. Tomorrow = ymd(y + 1, 1, 1)
    BY <1>2, <1>6 DEF Tomorrow
  <2>2. d = 31
    BY <1>6 DEF MonthLength
  <2> HIDE DEF y, m, d
  <2>3. ymd(y + 1, 1, 1) \in Dates
    <3>1. y + 1 \in Int /\ 1 \in 1..12
      BY <1>1
    <3> QED BY <3>1, MonthLengthType DEF Dates, ymd
  <2>4. to_days(ymd(y + 1, 1, 1)) = First(y, m) + d
    BY <1>1, <1>6, <2>2, NewYears DEF First
  <2>5. ymd(y + 1, 1, 1).year = y + 1
    BY DEF ymd
  <2> QED BY <1>1, <1>2, <1>3, <2>1, <2>3, <2>4, <2>5 DEF y
<1> QED BY <1>1, <1>2, <1>4, <1>5, <1>6

(* Each step of the clock leaves the calendar consistent.                  *)
LEMMA AdvanceKeepsCalendar ==
  ASSUME CalendarInv, NEW to \in Dates, NEW n \in Int, Advance(to, n), to_days(to) = elapsed + n,
         FirstYear <= to.year, to.year <= LastYear
  PROVE  CalendarInv'
<1>1. elapsed \in Int /\ wd = (elapsed + 4) % 7
  BY WithinYear DEF CalendarInv
<1>2. date' = to /\ elapsed' = elapsed + n /\ wd' = (wd + n) % 7
  BY DEF Advance
<1>3. wd' = (elapsed' + 4) % 7
  BY <1>1, <1>2
<1> QED BY <1>2, <1>3 DEF CalendarInv

(* The date exists in every state, its year is one that date.h accepts,    *)
(* and elapsed and wd are its days and its day of the week as to_days and  *)
(* weekday_from_days count them: a calendar of days, months and leap years *)
(* and the numbers of date.h never part.                                   *)
THEOREM Calendar == Spec => []CalendarInv
<1>1. Init => CalendarInv
  <2> SUFFICES ASSUME Init PROVE CalendarInv
    OBVIOUS
  <2>1. date = ymd(1970, 1, 1) /\ elapsed = 0 /\ wd = 4
    BY DEF Init
  <2>2. ymd(1970, 1, 1) \in Dates
    BY DEF Dates, ymd, MonthLength
  <2>3. to_days(ymd(1970, 1, 1)) = 0
    BY DEF to_days, ymd, trunc
  <2>4. ymd(1970, 1, 1).year = 1970
    BY DEF ymd
  <2>5. FirstYear <= 1970 /\ 1970 <= LastYear
    BY CivilClockAssumption
  <2> QED BY <2>1, <2>2, <2>3, <2>4, <2>5 DEF CalendarInv
<1>2. CalendarInv /\ [Next]_vars => CalendarInv'
  <2> SUFFICES ASSUME CalendarInv, [Next]_vars PROVE CalendarInv'
    OBVIOUS
  <2>1. FirstYear \in Int /\ LastYear \in Int /\ date.year \in Int
    BY CivilClockAssumption DEF CalendarInv, Dates
  <2>2. CASE NextDay
    <3>1. FirstYear <= Tomorrow.year /\ Tomorrow.year <= LastYear /\ Advance(Tomorrow, 1)
      <4>1. Tomorrow.year \in Int
        BY TomorrowIs DEF Dates
      <4> QED BY <2>1, <2>2, <4>1, TomorrowIs DEF NextDay, CalendarInv
    <3> QED BY <3>1, TomorrowIs, AdvanceKeepsCalendar, 1 \in Int
  <2>3. ASSUME date.month = 1, date.day = 1
        PROVE  elapsed = First(date.year, 1) /\ elapsed \in Int
    <3>1. date \in Dates /\ elapsed = to_days(date)
      BY DEF CalendarInv
    <3>2. First(date.year, date.month) + date.day - 1 = to_days(date) /\ to_days(date) \in Int
      BY <3>1, WithinYear, Zenon
    <3>3. First(date.year, 1) \in Int
      <4>1. 1 \in 1..12
        OBVIOUS
      <4> QED BY <2>1, <4>1, FirstIs, Zenon
    <3> QED BY <2>3, <3>1, <3>2, <3>3
  <2>4. ASSUME NEW y \in Int
        PROVE  ymd(y, 1, 1) \in Dates /\ ymd(y, 1, 1).year = y /\ to_days(ymd(y, 1, 1)) = First(y, 1)
    <3>1. 1 \in 1..12
      OBVIOUS
    <3>2. 28 <= MonthLength(y, 1) /\ MonthLength(y, 1) \in Int
      BY <3>1, MonthLengthType
    <3> QED BY <3>2 DEF Dates, ymd, First
  <2>5. CASE NextYear
    <3> DEFINE y == date.year
               n == IF LeapYear(y) THEN 366 ELSE 365
    <3>1. date.month = 1 /\ date.day = 1 /\ y < LastYear /\ Advance(ymd(y + 1, 1, 1), n)
      BY <2>5 DEF NextYear
    <3>2. First(y + 1, 1) = elapsed + n /\ n \in Int
      BY <2>1, <2>3, <3>1, NewYears DEF First
    <3>3. FirstYear <= y + 1 /\ y + 1 <= LastYear /\ y + 1 \in Int
      BY <2>1, <3>1 DEF CalendarInv
    <3> HIDE DEF y, n
    <3> QED BY <2>4, <3>1, <3>2, <3>3, AdvanceKeepsCalendar
  <2>6. CASE PreviousYear
    <3> DEFINE y == date.year - 1
               n == IF LeapYear(y) THEN -366 ELSE -365
    <3>1. date.month = 1 /\ date.day = 1 /\ date.year > FirstYear /\ Advance(ymd(y, 1, 1), n)
      BY <2>6 DEF PreviousYear
    <3>2. y \in Int /\ y + 1 = date.year
      BY <2>1
    <3>3. FirstYear <= y /\ y <= LastYear
      BY <2>1, <3>1 DEF CalendarInv
    <3> HIDE DEF y
    <3>4. First(y, 1) = elapsed + n /\ n \in Int
      <4>1. First(y + 1, 1) = First(y, 1) + (IF LeapYear(y) THEN 366 ELSE 365) /\ First(y, 1) \in Int
        BY <3>2, NewYears, FirstIs, 1 \in 1..12 DEF First
      <4> QED BY <2>3, <3>1, <3>2, <4>1
    <3> HIDE DEF n
    <3> QED BY <2>4, <3>1, <3>2, <3>3, <3>4, AdvanceKeepsCalendar
  <2>7. CASE UNCHANGED <<date, elapsed, wd>>
    BY <2>7 DEF CalendarInv
  <2>8. ASSUME NEW c \in Letter \cup {0}, Type(c)
        PROVE  UNCHANGED <<date, elapsed, wd>>
    BY <2>8 DEF Type
  <2>9. ASSUME NEW dm \in Moves, NEW dy \in Moves, Move(dm, dy)
        PROVE  UNCHANGED <<date, elapsed, wd>>
    BY <2>9 DEF Move
  <2>10. CASE UNCHANGED vars
    BY <2>7, <2>10 DEF vars
  <2> QED BY <2>2, <2>5, <2>6, <2>7, <2>8, <2>9, <2>10 DEF Next
<1> QED BY <1>1, <1>2, PTL DEF Spec

-------------------------------------------------------------------------------
(* The days of the week.                                                   *)
LEMMA WeekdayFromDays ==
  ASSUME NEW z \in Int
  PROVE  weekday_from_days(z) = (z + 4) % 7
BY DEF weekday_from_days

(* The difference of two days of the week, as weekday_minus computes it.   *)
LEMMA WeekdayMinus ==
  ASSUME NEW x \in Int, NEW y \in Int
  PROVE  weekday_minus(x, y) = (x - y) % 7
<1> DEFINE u == x - y
<1>1. u \in Int
  OBVIOUS
<1>2. weekday_minus(x, y) = u - trunc(IF u >= 0 THEN u ELSE u - 6, 7) * 7
  BY DEF weekday_minus
<1> HIDE DEF u
<1>3. trunc(IF u >= 0 THEN u ELSE u - 6, 7) = u \div 7
  BY <1>1 DEF trunc
<1>4. u - (u \div 7) * 7 = u % 7
  BY <1>1
<1> QED BY <1>2, <1>3, <1>4 DEF u

(* The index of a day of the week in its month is kept by its type.        *)
LEMMA WeekdayIndexed ==
  ASSUME NEW w \in 0..8, w # 7, NEW n \in 0..6
  PROVE  /\ weekday_indexed_of(w, n) = [weekday |-> w, index |-> n]
         /\ weekday_indexed_of(w, n).weekday = w /\ weekday_indexed_of(w, n).index = n
<1>1. w % 16 = w /\ n % 16 = n /\ w % 256 = w
  OBVIOUS
<1> QED BY <1>1 DEF weekday_indexed_of, weekday_of, unsigned_char

(* The last day of a month, as year_month_day_last looks it up.            *)
LEMMA LastDayIs ==
  ASSUME NEW y \in Int, NEW m \in 1..12
  PROVE  /\ year_month_day_last_day(ymd_last(y, m)) = MonthLength(y, m)
         /\ last_to_ymd(ymd_last(y, m)) = ymd(y, m, MonthLength(y, m))
<1>1. is_leap(y) <=> LeapYear(y)
  BY DEF is_leap, LeapYear
<1>2. ymd_last(y, m).year = y /\ ymd_last(y, m).mdl.month = m
  BY DEF ymd_last, md_last
<1>3. month_day_last_ok(ymd_last(y, m).mdl)
  BY <1>2 DEF month_day_last_ok, month_ok
<1>4. year_month_day_last_day(ymd_last(y, m)) = MonthLength(y, m)
  <2>1. year_month_day_last_day(ymd_last(y, m))
          = IF m # 2 \/ ~is_leap(y) THEN <<31, 28, 31, 30, 31, 30, 31, 31, 30, 31, 30, 31>>[m] ELSE 29
    BY <1>2, <1>3 DEF year_month_day_last_day
  <2>2. CASE m = 2
    BY <1>1, <2>1, <2>2 DEF MonthLength
  <2>3. CASE m # 2
    BY <2>1, <2>3 DEF MonthLength
  <2> QED BY <2>2, <2>3
<1> QED BY <1>2, <1>4 DEF last_to_ymd

(* The first of the month of the date.                                     *)
LEMMA ThisMonth ==
  ASSUME CalendarInv
  PROVE  /\ date.year \in Int /\ date.month \in 1..12 /\ date.day \in 1..31 /\ date.day <= Length
         /\ date = ymd(date.year, date.month, date.day)
         /\ First(date.year, date.month) = elapsed - (date.day - 1)
         /\ elapsed \in Int /\ wd = (elapsed + 4) % 7 /\ wd \in 0..6
         /\ weekday_from_days(First(date.year, date.month)) = FirstWeekday
         /\ FirstWeekday \in 0..6 /\ FirstWeekday = (elapsed - (date.day - 1) + 4) % 7
<1> DEFINE f == First(date.year, date.month)
           d == date.day
<1>1. date \in Dates /\ elapsed = to_days(date) /\ wd = (elapsed + 4) % 7
  BY DEF CalendarInv
<1>2. date.year \in Int /\ date.month \in 1..12 /\ d \in 1..31 /\ d <= Length
      /\ date = ymd(date.year, date.month, date.day)
  BY <1>1 DEF Dates, Length, ymd
<1>3. f + d - 1 = to_days(date) /\ to_days(date) \in Int
  BY <1>1, WithinYear, Zenon
<1>4. f \in Int
  BY <1>2, FirstIs, Zenon
<1>5. FirstWeekday = (wd - (d - 1)) % 7
  BY DEF FirstWeekday
<1> HIDE DEF f, d
<1>6. d \in Int
  BY <1>2
<1>7. f = elapsed - (d - 1) /\ elapsed \in Int
  BY <1>1, <1>3, <1>4, <1>6
<1>8. wd \in 0..6
  BY <1>1, <1>7
<1>9. FirstWeekday = (elapsed - (d - 1) + 4) % 7
  BY <1>1, <1>5, <1>6, <1>7
<1>10. FirstWeekday \in 0..6
  BY <1>6, <1>7, <1>9
<1>11. weekday_from_days(f) = (f + 4) % 7
  BY <1>4, WeekdayFromDays
<1>12. weekday_from_days(f) = FirstWeekday
  BY <1>7, <1>9, <1>11
<1> QED BY <1>1, <1>2, <1>7, <1>8, <1>9, <1>10, <1>12 DEF f, d

(* ok() accepts what exists, for the year and month of the calendar.       *)
LEMMA OkIsExists ==
  ASSUME CalendarInv
  PROVE  OkMeansExists
<1> DEFINE y == date.year
<1>1. y \in Int /\ date.month \in 1..12 /\ year_ok(y)
  BY ThisMonth, YearFits
<1>2. ASSUME NEW m \in 0..13, NEW d \in 0..32
      PROVE  LET exists == m \in 1..12 /\ d \in 1..MonthLength(y, m)
             IN  /\ year_month_day_ok(ymd(y, m, d)) <=> exists
                 /\ month_day_ok(md(m, d)) <=> exists \/ (m = 2 /\ d = 29)
  <2>1. CASE m \in 1..12
    <3>1. year_month_day_last_day(ymd_last(y, m)) = MonthLength(y, m)
      BY <1>1, <2>1, LastDayIs, Zenon
    <3>2. MonthLength(y, m) \in Int
      BY <2>1, MonthLengthType, Zenon
    <3>3. year_month_day_ok(ymd(y, m, d)) <=> 1 <= d /\ d <= MonthLength(y, m)
      BY <1>1, <2>1, <3>1 DEF year_month_day_ok, month_ok, ymd
    <3>4. month_day_ok(md(m, d)) <=> (d \in 1..MonthLength(y, m) \/ (m = 2 /\ d = 29))
      BY <2>1, <3>2 DEF month_day_ok, md, month_ok, MonthLength
    <3> QED BY <2>1, <3>2, <3>3, <3>4
  <2>2. CASE m \notin 1..12
    BY <2>2 DEF year_month_day_ok, month_day_ok, month_ok, ymd, md
  <2> QED BY <2>1, <2>2
<1>3. ASSUME NEW w \in (0..6) \cup {8}, NEW n \in 0..6
      PROVE  LET wdi == weekday_indexed_of(w, n)
                 named == w <= 6 /\ n \in 1..5
             IN  /\ month_weekday_ok(mw(date.month, wdi)) <=> named
                 /\ year_month_weekday_ok(ymw(y, date.month, wdi))
                      <=> named /\ ((w - FirstWeekday) % 7) + 7 * (n - 1) + 1 <= Length
  <2> DEFINE wdi == weekday_indexed_of(w, n)
             m == date.month
             x == ymw(y, m, wdi)
             f == FirstWeekday
  <2>1. w \in 0..8 /\ w # 7 /\ w \in Int
    OBVIOUS
  <2>2. wdi.weekday = w /\ wdi.index = n
    BY <2>1, WeekdayIndexed
  <2>3. x.year = y /\ x.month = m /\ x.wdi = wdi
    BY DEF ymw
  <2>4. mw(m, wdi).month = m /\ mw(m, wdi).wdi = wdi
    BY DEF mw
  <2>5. month_ok(m)
    BY <1>1 DEF month_ok
  <2>6. year_month_day_last_day(ymd_last(y, m)) = Length
    BY <1>1, LastDayIs, Zenon DEF Length
  <2>7. weekday_from_days(to_days(ymd(y, m, 1))) = f /\ f \in Int
    BY ThisMonth DEF First
  <2>8. weekday_minus(w, f) = (w - f) % 7
    BY <2>1, <2>7, WeekdayMinus
  <2>9. 28 <= Length /\ Length <= 31 /\ Length \in Int
    BY <1>1, MonthLengthType, Zenon DEF Length
  <2> HIDE DEF wdi, m, x, f
  <2>10. month_weekday_ok(mw(m, wdi)) <=> w <= 6 /\ n \in 1..5
    BY <2>2, <2>4, <2>5 DEF month_weekday_ok, weekday_indexed_ok, weekday_ok
  <2>11. year_month_weekday_ok(x)
           <=> w <= 6 /\ n >= 1 /\ (n <= 4 \/ ((w - f) % 7) + (n - 1) * 7 + 1 <= Length)
    BY <1>1, <2>2, <2>3, <2>5, <2>6, <2>7, <2>8 DEF year_month_weekday_ok, weekday_ok
  <2>12. (w - f) % 7 \in 0..6
    BY <2>1, <2>7
  <2>13. year_month_weekday_ok(x)
           <=> w <= 6 /\ n \in 1..5 /\ ((w - f) % 7) + 7 * (n - 1) + 1 <= Length
    <3> DEFINE g == (w - f) % 7
    <3>1. g \in Int /\ 0 <= g /\ g <= 6
      BY <2>12
    <3> HIDE DEF g
    <3>2. n >= 1 /\ (n <= 4 \/ g + (n - 1) * 7 + 1 <= Length)
            <=> n \in 1..5 /\ g + 7 * (n - 1) + 1 <= Length
      BY <2>9, <3>1
    <3> QED BY <2>11, <3>2 DEF g
  <2> QED BY <2>10, <2>13 DEF wdi, m, x, f
<1> QED BY <1>2, <1>3, Zenon DEF OkMeansExists

(* How many days of this month up to this one have its day of the week.    *)
LEMMA NthOfMonth ==
  ASSUME CalendarInv
  PROVE  Cardinality({d \in 1..date.day : (FirstWeekday + d - 1) % 7 = wd})
           = (date.day - 1) \div 7 + 1
<1> DEFINE k == date.day
           q == (k - 1) \div 7 + 1
           S == {d \in 1..k : (FirstWeekday + d - 1) % 7 = wd}
           f == [i \in 1..q |-> k - 7 * (i - 1)]
<1>1. k \in Int /\ 1 <= k /\ k <= 31 /\ elapsed \in Int
      /\ wd = (elapsed + 4) % 7 /\ FirstWeekday = (elapsed - (k - 1) + 4) % 7
  BY ThisMonth
<1> HIDE DEF k
<1>2. q \in Nat /\ 7 * (q - 1) <= k - 1 /\ k - 1 < 7 * q
  BY <1>1
<1>3. ASSUME NEW d \in 1..k
      PROVE  (FirstWeekday + d - 1) % 7 = wd <=> (k - d) % 7 = 0
  <2>1. (FirstWeekday + d - 1) % 7 = (elapsed + 4 - (k - d)) % 7
    BY <1>1
  <2>2. (elapsed + 4 - (k - d)) % 7 = (elapsed + 4) % 7 <=> (k - d) % 7 = 0
    BY <1>1
  <2> QED BY <1>1, <2>1, <2>2
<1>4. S = {d \in 1..k : (k - d) % 7 = 0}
  BY <1>3
<1> HIDE DEF q
<1>5. f \in [1..q -> S]
  <2> SUFFICES ASSUME NEW i \in 1..q PROVE k - 7 * (i - 1) \in S
    OBVIOUS
  <2>1. k - 7 * (i - 1) \in 1..k
    BY <1>1, <1>2
  <2>2. (k - (k - 7 * (i - 1))) % 7 = 0
    BY <1>1, <1>2
  <2> QED BY <1>4, <2>1, <2>2
<1>6. ASSUME NEW i \in 1..q, NEW j \in 1..q, f[i] = f[j]
      PROVE  i = j
  BY <1>1, <1>2, <1>6
<1>7. ASSUME NEW d \in S
      PROVE  \E i \in 1..q : f[i] = d
  <2> DEFINE i == (k - d) \div 7 + 1
  <2>1. d \in Int /\ 1 <= d /\ d <= k /\ (k - d) % 7 = 0
    BY <1>1, <1>4
  <2>2. i \in Int /\ 1 <= i /\ k - 7 * (i - 1) = d
    BY <1>1, <2>1
  <2> HIDE DEF i
  <2>3. i <= q
    BY <1>1, <1>2, <2>1, <2>2
  <2>4. i \in 1..q
    BY <1>2, <2>2, <2>3
  <2> QED BY <2>2, <2>4
<1>8. f \in Bijection(1..q, S)
  BY <1>5, <1>6, <1>7 DEF Bijection, Injection, Surjection, IsInjective
<1>9. ExistsBijection(1..q, S)
  BY <1>8 DEF ExistsBijection
<1>10. Cardinality(S) = q
  <2> HIDE DEF S
  <2> QED BY <1>2, <1>9, FS_CountingElements
<1> QED BY <1>10 DEF q, k

(* Whatever the day of the week is called, and whichever way the day is    *)
(* named, date.h agrees with the calendar.                                 *)
LEMMA CalendarIsRight ==
  ASSUME CalendarInv
  PROVE  DatesMatchDays
<1> DEFINE y == date.year
           m == date.month
           d == date.day
           f == First(y, m)
<1>1. /\ y \in Int /\ m \in 1..12 /\ d \in Int /\ 1 <= d /\ d <= 31 /\ d <= Length
      /\ date = ymd(y, m, d) /\ f = elapsed - (d - 1) /\ elapsed \in Int
      /\ wd = (elapsed + 4) % 7 /\ wd \in Int /\ 0 <= wd /\ wd <= 6
  BY ThisMonth
<1>2. Length \in Int /\ 28 <= Length /\ Length <= 31
  BY <1>1, MonthLengthType, Zenon DEF Length
<1>3. date \in Dates /\ to_days(date) = elapsed
  BY DEF CalendarInv
<1>4. from_days(elapsed) = date
  BY <1>3, YearFits, DateOfDays
<1>5. weekday_from_days(elapsed) = wd /\ weekday_of(iso_encoding(wd)) = wd
  BY <1>1, WeekdayFromDays DEF weekday_of, iso_encoding, unsigned_char
<1> DEFINE n == Cardinality({k \in 1..date.day : (FirstWeekday + k - 1) % 7 = wd})
<1>6. n = (d - 1) \div 7 + 1
  BY NthOfMonth
<1> HIDE DEF n
<1>7. LET x == year_month_weekday_from_days(elapsed)
      IN  /\ x = ymw(y, m, weekday_indexed_of(wd, n))
          /\ year_month_weekday_to_days(x) = elapsed
  <2> DEFINE x == ymw(y, m, weekday_indexed_of(wd, n))
  <2>1. n = (d - 1) \div 7 + 1
    BY <1>6
  <2>2. n \in 0..6 /\ wd \in 0..8 /\ wd # 7
    BY <1>1, <2>1
  <2>3. year_month_weekday_from_days(elapsed) = x
    BY <1>4, <1>5, <2>1 DEF year_month_weekday_from_days
  <2>4. x.year = y /\ x.month = m /\ x.wdi.weekday = wd /\ x.wdi.index = n
    BY <2>2, WeekdayIndexed DEF ymw
  <2> HIDE DEF x
  <2>5. year_month_weekday_to_days(x)
          = f + weekday_minus(wd, weekday_from_days(f)) + (n - 1) * 7
    BY <2>4 DEF year_month_weekday_to_days, First
  <2>6. f \in Int /\ weekday_from_days(f) = (f + 4) % 7
    BY <1>1, WeekdayFromDays
  <2>7. weekday_minus(wd, weekday_from_days(f)) = (wd - ((f + 4) % 7)) % 7
    <3> DEFINE g == (f + 4) % 7
    <3>1. g \in Int
      BY <2>6
    <3> HIDE DEF g
    <3>2. weekday_minus(wd, g) = (wd - g) % 7
      BY <1>1, <3>1, WeekdayMinus
    <3> QED BY <2>6, <3>2 DEF g
  <2> HIDE DEF f, d
  <2>8. (wd - ((f + 4) % 7)) % 7 = (d - 1) % 7
    BY <1>1, <2>6
  <2>9. year_month_weekday_to_days(x) = f + ((d - 1) % 7) + ((d - 1) \div 7) * 7
    <3> DEFINE g == (d - 1) % 7
    <3>1. weekday_minus(wd, weekday_from_days(f)) = g
      BY <2>7, <2>8
    <3>2. n - 1 = (d - 1) \div 7
      BY <1>1, <2>1
    <3> HIDE DEF g
    <3> QED BY <2>5, <3>1, <3>2 DEF g
  <2>10. ((d - 1) % 7) + ((d - 1) \div 7) * 7 = d - 1
    BY <1>1
  <2>11. year_month_weekday_to_days(x) = elapsed
    BY <1>1, <2>6, <2>9, <2>10
  <2> QED BY <2>3, <2>11 DEF x
<1> DEFINE l == ymd_last(y, m)
           e == last_to_days(l)
<1>8. e = elapsed + (Length - d)
  <2>1. last_to_ymd(l) = ymd(y, m, Length)
    BY <1>1, LastDayIs, Zenon DEF Length
  <2>2. to_days(ymd(y, m, Length)) = to_days(ymd(y, m, 1)) + Length - 1
    BY <1>1, <1>2, FromFirst, Zenon
  <2>3. e = f + Length - 1
    BY <2>1, <2>2 DEF last_to_days, First
  <2> HIDE DEF e, f, d
  <2> QED BY <1>1, <1>2, <2>3
<1>9. d = Length <=> e = elapsed
  <2> HIDE DEF e, d
  <2> QED BY <1>1, <1>2, <1>8
<1>10. d > Length - 7 <=> year_month_weekday_last_to_days(ymw_last(y, m, weekday_last_of(wd))) = elapsed
  <2> DEFINE x == ymw_last(y, m, weekday_last_of(wd))
  <2>1. x.year = y /\ x.month = m /\ x.wdl.weekday = wd
    BY DEF ymw_last, weekday_last_of
  <2> HIDE DEF x
  <2>2. year_month_weekday_last_to_days(x) = e - weekday_minus(weekday_from_days(e), wd)
    BY <2>1 DEF year_month_weekday_last_to_days
  <2> HIDE DEF e, d
  <2>3. e \in Int
    BY <1>1, <1>2, <1>8
  <2>4. weekday_from_days(e) = (e + 4) % 7
    BY <2>3, WeekdayFromDays
  <2>5. weekday_minus(weekday_from_days(e), wd) = (((e + 4) % 7) - wd) % 7
    BY <1>1, <2>3, <2>4, WeekdayMinus
  <2>6. (((e + 4) % 7) - wd) % 7 = (Length - d) % 7
    BY <1>1, <1>2, <1>8, <2>3
  <2>7. year_month_weekday_last_to_days(x) = elapsed + (Length - d) - ((Length - d) % 7)
    <3> DEFINE g == (Length - d) % 7
    <3>1. weekday_minus(weekday_from_days(e), wd) = g /\ g \in Int
      BY <1>1, <1>2, <2>5, <2>6
    <3> HIDE DEF g
    <3> QED BY <1>1, <1>2, <1>8, <2>2, <2>3, <3>1 DEF g
  <2>8. d > Length - 7 <=> (Length - d) - ((Length - d) % 7) = 0
    BY <1>1, <1>2
  <2> DEFINE g == (Length - d) - ((Length - d) % 7)
  <2>9. g \in Int /\ year_month_weekday_last_to_days(x) = elapsed + g
    BY <1>1, <1>2, <2>7
  <2> HIDE DEF g
  <2>10. year_month_weekday_last_to_days(x) = elapsed <=> g = 0
    BY <1>1, <2>9
  <2> QED BY <2>8, <2>10 DEF x, g
<1>11. OkMeansExists
  BY OkIsExists
<1> QED BY <1>3, <1>4, <1>5, <1>7, <1>9, <1>10, <1>11, Zenon DEF DatesMatchDays, n

(* from_days, to_days, the days of the week and "the n-th weekday of the    *)
(* month" of date.h give the date, the number and the day of the week of   *)
(* the calendar, and ok() accepts the dates that exist, for every range of *)
(* years that year_ok accepts.                                             *)
THEOREM DatesMatchDaysHolds == Spec => []DatesMatchDays
BY Calendar, CalendarIsRight, PTL

-------------------------------------------------------------------------------
(* Months and years.                                                       *)
LEMMA ShortShort ==
  ASSUME NEW a \in Int, NEW b \in Int
  PROVE  short(short(a) + b) = short(a + b) /\ short(a) \in Int
BY DEF short

(* Adding months to a month of a year, as date.h divides them.             *)
LEMMA MonthsPlus ==
  ASSUME NEW y \in Int, NEW m \in 1..12, NEW dm \in Int
  PROVE  year_month_plus(ym(y, m), dm) = ym(short(y + (m - 1 + dm) \div 12), 1 + ((m - 1 + dm) % 12))
<1> DEFINE i == m - 1 + dm
           x == ym(y, m)
<1>1. i \in Int /\ i = x.month - 1 + dm /\ x.year = y
  BY DEF ym
<1>2. year_month_plus(x, dm)
        = ym(short(y + trunc(IF i >= 0 THEN i ELSE i - 11, 12)),
             i - trunc(IF i >= 0 THEN i ELSE i - 11, 12) * 12 + 1)
  BY <1>1 DEF year_month_plus, year_plus
<1> HIDE DEF i, x
<1>3. trunc(IF i >= 0 THEN i ELSE i - 11, 12) = i \div 12
  BY <1>1 DEF trunc
<1>4. i - (i \div 12) * 12 + 1 = 1 + (i % 12)
  BY <1>1
<1>5. year_month_plus(x, dm) = ym(short(y + i \div 12), 1 + (i % 12))
  BY <1>2, <1>3, <1>4
<1> QED BY <1>5 DEF i, x

(* The year and the cursors k months after 1970-01.                        *)
YearAt(k) == 1970 + k \div 12
MonthAt(k) == 1 + (k % 12)
At(k) == CursorsAt(YearAt(k), MonthAt(k))

(* Where a cursor ends that is advanced by months and years, whatever      *)
(* short the sum passes through.                                           *)
LEMMA CursorsAdvance ==
  ASSUME NEW k \in Int, NEW dm \in Int, NEW dy \in Int,
         NEW n \in Int, n = k + dm + 12 * dy, YearOk(YearAt(n))
  PROVE  /\ year_month_advance(At(k).ym, dm, dy) = At(n).ym
         /\ year_month_day_advance(At(k).ymd, dm, dy) = At(n).ymd
         /\ year_month_day_last_advance(At(k).ymdl, dm, dy) = At(n).ymdl
         /\ year_month_weekday_advance(At(k).ymw, dm, dy) = At(n).ymw
         /\ year_month_weekday_last_advance(At(k).ymwl, dm, dy) = At(n).ymwl
<1> DEFINE y == YearAt(k)
           m == MonthAt(k)
           v == YearAt(n)
           w == MonthAt(n)
           s == short(y + (m - 1 + dm) \div 12)
<1>1. y \in Int /\ m \in 1..12
  BY DEF YearAt, MonthAt
<1>2. (m - 1 + dm) \div 12 = (k + dm) \div 12 - k \div 12 /\ (m - 1 + dm) % 12 = (k + dm) % 12
  BY DEF MonthAt
<1>3. n \div 12 = (k + dm) \div 12 + dy /\ n % 12 = (k + dm) % 12
  OBVIOUS
<1>4. v \in Int /\ YearOk(v)
  BY DEF YearAt
<1>5. y + (m - 1 + dm) \div 12 + dy = v /\ 1 + ((m - 1 + dm) % 12) = w /\ (m - 1 + dm) \div 12 \in Int
  BY <1>2, <1>3 DEF YearAt, MonthAt
<1> HIDE DEF y, m, v, w
<1>6. year_month_plus(ym(y, m), dm) = ym(s, w)
  <2>1. year_month_plus(ym(y, m), dm) = ym(s, 1 + ((m - 1 + dm) % 12))
    BY <1>1, MonthsPlus, Zenon
  <2> QED BY <1>5, <2>1
<1>7. short(s + dy) = v
  <2> DEFINE a == y + (m - 1 + dm) \div 12
  <2>1. a \in Int /\ a + dy = v
    BY <1>1, <1>5
  <2> HIDE DEF a
  <2>2. short(short(a) + dy) = short(a + dy)
    BY <2>1, ShortShort
  <2> QED BY <1>4, <2>1, <2>2, ShortFits DEF a
<1> HIDE DEF s
<1>8. ym(s, w).year = s /\ ym(s, w).month = w
  BY DEF ym
<1>9. year_month_advance(ym(y, m), dm, dy) = ym(v, w)
  BY <1>6, <1>7, <1>8 DEF year_month_advance, year_month_plus_years, year_plus
<1>10. ASSUME NEW d
       PROVE  year_month_day_advance(ymd(y, m, d), dm, dy) = ymd(v, w, d)
  <2>1. year_month_day_plus(ymd(y, m, d), dm) = ymd(s, w, d)
    BY <1>6, <1>8 DEF year_month_day_plus, ymd
  <2>2. year_month_day_plus_years(ymd(s, w, d), dy) = ymd(v, w, d)
    BY <1>7 DEF year_month_day_plus_years, ymd, year_plus
  <2> QED BY <2>1, <2>2 DEF year_month_day_advance
<1>11. year_month_day_last_advance(ymd_last(y, m), dm, dy) = ymd_last(v, w)
  <2>1. year_month_day_last_plus(ymd_last(y, m), dm) = ymd_last(s, w)
    BY <1>6, <1>8 DEF year_month_day_last_plus, ymd_last, md_last
  <2>2. year_month_day_last_plus_years(ymd_last(s, w), dy) = ymd_last(v, w)
    BY <1>7 DEF year_month_day_last_plus_years, ymd_last, md_last, year_plus
  <2> QED BY <2>1, <2>2 DEF year_month_day_last_advance
<1>12. ASSUME NEW wdi
       PROVE  year_month_weekday_advance(ymw(y, m, wdi), dm, dy) = ymw(v, w, wdi)
  <2>1. year_month_weekday_plus(ymw(y, m, wdi), dm) = ymw(s, w, wdi)
    BY <1>6, <1>8 DEF year_month_weekday_plus, ymw
  <2>2. year_month_weekday_plus_years(ymw(s, w, wdi), dy) = ymw(v, w, wdi)
    BY <1>7 DEF year_month_weekday_plus_years, ymw, year_plus
  <2> QED BY <2>1, <2>2 DEF year_month_weekday_advance
<1>13. ASSUME NEW wdl
       PROVE  year_month_weekday_last_advance(ymw_last(y, m, wdl), dm, dy) = ymw_last(v, w, wdl)
  <2>1. year_month_weekday_last_plus(ymw_last(y, m, wdl), dm) = ymw_last(s, w, wdl)
    BY <1>6, <1>8 DEF year_month_weekday_last_plus, ymw_last
  <2>2. year_month_weekday_last_plus_years(ymw_last(s, w, wdl), dy) = ymw_last(v, w, wdl)
    BY <1>7 DEF year_month_weekday_last_plus_years, ymw_last, year_plus
  <2> QED BY <2>1, <2>2 DEF year_month_weekday_last_advance
<1>14. ASSUME NEW a, NEW b
       PROVE  /\ CursorsAt(a, b).ym = ym(a, b) /\ CursorsAt(a, b).ymd = ymd(a, b, 31)
              /\ CursorsAt(a, b).ymdl = ymd_last(a, b)
              /\ CursorsAt(a, b).ymw = ymw(a, b, FirstSunday)
              /\ CursorsAt(a, b).ymwl = ymw_last(a, b, weekday_last_of(0))
  BY DEF CursorsAt
<1> QED BY <1>9, <1>10, <1>11, <1>12, <1>13, <1>14 DEF At, y, m, v, w

(* The cursors are where the months they were moved by lead.               *)
CursorsInv ==
  /\ moved \in -MaxMoved..MaxMoved
  /\ cursors = At(moved)

(* The years that the cursors reach fit their type.                        *)
LEMMA MovedYearOk ==
  ASSUME NEW n \in -MaxMoved..MaxMoved
  PROVE  n \in Int /\ YearOk(YearAt(n))
<1> DEFINE k == -MaxMoved
<1>1. k \in Int /\ n \in Int /\ MaxMoved \in Int /\ k <= n /\ n <= MaxMoved
      /\ YearOk(1970 + k \div 12) /\ YearOk(1970 + MaxMoved \div 12)
  BY CivilClockAssumption
<1> HIDE DEF k
<1>2. k \div 12 <= n \div 12 /\ n \div 12 <= MaxMoved \div 12
  BY <1>1
<1>3. k \div 12 \in Int /\ n \div 12 \in Int /\ MaxMoved \div 12 \in Int
  BY <1>1
<1> QED BY <1>1, <1>2, <1>3 DEF YearOk, YearAt

(* Whatever months and years the cursors are advanced by, in place and in  *)
(* any order, they are at the month that many months after 1970-01, and    *)
(* all of one mind.                                                        *)
THEOREM Cursors == Spec => []CursorsInv
<1>1. Init => CursorsInv
  <2>1. 0 \in -MaxMoved..MaxMoved
    BY CivilClockAssumption
  <2>2. YearAt(0) = 1970 /\ MonthAt(0) = 1
    BY DEF YearAt, MonthAt
  <2> QED BY <2>1, <2>2 DEF Init, CursorsInv, At
<1>2. CursorsInv /\ [Next]_vars => CursorsInv'
  <2> SUFFICES ASSUME CursorsInv, [Next]_vars PROVE CursorsInv'
    OBVIOUS
  <2>1. CASE UNCHANGED <<cursors, moved>>
    BY <2>1 DEF CursorsInv
  <2>2. ASSUME NEW dm \in Moves, NEW dy \in Moves, Move(dm, dy)
        PROVE  CursorsInv'
    <3> DEFINE n == moved + dm + 12 * dy
               from == At(moved)
               to == At(n)
    <3>1. dm \in Int /\ dy \in Int
      BY CivilClockAssumption
    <3>2. moved \in Int
      BY MovedYearOk DEF CursorsInv
    <3>3. n \in -MaxMoved..MaxMoved /\ moved' = n
      BY <2>2 DEF Move
    <3>4. n \in Int /\ YearOk(YearAt(n))
      BY <3>3, MovedYearOk
    <3>5. /\ year_month_advance(from.ym, dm, dy) = to.ym
          /\ year_month_day_advance(from.ymd, dm, dy) = to.ymd
          /\ year_month_day_last_advance(from.ymdl, dm, dy) = to.ymdl
          /\ year_month_weekday_advance(from.ymw, dm, dy) = to.ymw
          /\ year_month_weekday_last_advance(from.ymwl, dm, dy) = to.ymwl
      BY <3>1, <3>2, <3>4, CursorsAdvance
    <3>6. to = [ym |-> to.ym, ymd |-> to.ymd, ymdl |-> to.ymdl, ymw |-> to.ymw, ymwl |-> to.ymwl]
      BY DEF At, CursorsAt
    <3>7. cursors = from
      BY DEF CursorsInv
    <3> HIDE DEF from, to, n
    <3>8. cursors' = to
      BY <2>2, <3>5, <3>6, <3>7 DEF Move
    <3> QED BY <3>3, <3>8 DEF CursorsInv, to
  <2>3. ASSUME NEW c \in Letter \cup {0}, Type(c)
        PROVE  UNCHANGED <<cursors, moved>>
    BY <2>3 DEF Type
  <2>4. ASSUME NextDay \/ NextYear \/ PreviousYear
        PROVE  UNCHANGED <<cursors, moved>>
    BY <2>4 DEF NextDay, NextYear, PreviousYear, Advance
  <2>5. CASE UNCHANGED vars
    BY <2>1, <2>5 DEF vars
  <2> QED BY <2>1, <2>2, <2>3, <2>4, <2>5 DEF Next
<1> QED BY <1>1, <1>2, PTL DEF Spec

(* Adding a number of months to the month of the calendar.                 *)
LEMMA ShiftIs ==
  ASSUME CalendarInv, NEW n \in Shifts
  PROVE  /\ n \in Int
         /\ YearOk((12 * date.year + date.month - 1 + n) \div 12)
<1> DEFINE a == 12 * FirstYear + n
           b == 12 * date.year + date.month - 1 + n
           c == 12 * LastYear + 11 + n
<1>1. n \in Int /\ YearOk(a \div 12) /\ YearOk(c \div 12) /\ FirstYear \in Int /\ LastYear \in Int
  BY CivilClockAssumption
<1>2. date.year \in Int /\ date.month \in 1..12 /\ FirstYear <= date.year /\ date.year <= LastYear
  BY ThisMonth DEF CalendarInv
<1>3. a \in Int /\ b \in Int /\ c \in Int /\ a <= b /\ b <= c
  BY <1>1, <1>2
<1> HIDE DEF a, b, c
<1>4. a \div 12 <= b \div 12 /\ b \div 12 <= c \div 12
      /\ a \div 12 \in Int /\ b \div 12 \in Int /\ c \div 12 \in Int
  BY <1>3
<1>5. YearOk(b \div 12)
  BY <1>1, <1>4 DEF YearOk
<1> QED BY <1>1, <1>5 DEF b

(* The day that is n days later.                                           *)
LEMMA OtherIs ==
  ASSUME CalendarInv, NEW n \in Shifts
  PROVE  from_days(elapsed + n) \in Dates /\ to_days(from_days(elapsed + n)) = elapsed + n
<1>1. /\ n \in Int /\ FirstYear \in Int /\ LastYear \in Int
      /\ YearOk((12 * FirstYear + n) \div 12) /\ YearOk((12 * LastYear + 11 + n) \div 12)
      /\ YearOk(FirstYear) /\ YearOk(LastYear)
  BY CivilClockAssumption
<1>2. /\ date \in Dates /\ to_days(date) = elapsed /\ elapsed \in Int
      /\ date.year \in Int /\ FirstYear <= date.year /\ date.year <= LastYear
  BY ThisMonth DEF CalendarInv
<1>3. PICK x \in Dates : to_days(x) = elapsed + n
  BY <1>1, <1>2, EveryDay, elapsed + n \in Int
<1>4. x.year \in Int
  BY DEF Dates
<1>5. CASE x.year < date.year
  <2>1. elapsed + n + 365 * (date.year - x.year - 1) < elapsed
    BY <1>2, <1>3, <1>5, EarlierYear
  <2>2. 365 * (date.year - x.year - 1) < -n
    BY <1>1, <1>2, <1>4, <2>1
  <2>3. (12 * FirstYear + n) \div 12 <= x.year
    BY <1>1, <1>2, <1>4, <1>5, <2>2
  <2>4. (12 * FirstYear + n) \div 12 \in Int
    BY <1>1
  <2>5. YearOk(x.year)
    BY <1>1, <1>2, <1>4, <1>5, <2>3, <2>4 DEF YearOk
  <2> QED BY <1>3, <2>5, DateOfDays
<1>6. CASE date.year < x.year
  <2>1. elapsed + 365 * (x.year - date.year - 1) < elapsed + n
    BY <1>2, <1>3, <1>6, EarlierYear
  <2>2. 365 * (x.year - date.year - 1) < n
    BY <1>1, <1>2, <1>4, <2>1
  <2>3. x.year <= (12 * LastYear + 11 + n) \div 12
    BY <1>1, <1>2, <1>4, <1>6, <2>2
  <2>4. (12 * LastYear + 11 + n) \div 12 \in Int
    BY <1>1
  <2>5. YearOk(x.year)
    BY <1>1, <1>2, <1>4, <1>6, <2>3, <2>4 DEF YearOk
  <2> QED BY <1>3, <2>5, DateOfDays
<1>7. CASE x.year = date.year
  <2>1. YearOk(x.year)
    BY <1>1, <1>2, <1>4, <1>7 DEF YearOk
  <2> QED BY <1>3, <2>1, DateOfDays
<1> QED BY <1>2, <1>4, <1>5, <1>6, <1>7

(* Adding days to a day of the week.                                       *)
LEMMA WeekdayPlus ==
  ASSUME NEW w \in Int, NEW n \in Int
  PROVE  weekday_plus(w, n) = (w + n) % 7
<1> DEFINE u == w + n
<1>1. u \in Int
  OBVIOUS
<1>2. weekday_plus(w, n) = weekday_of(u - trunc(IF u >= 0 THEN u ELSE u - 6, 7) * 7)
  BY DEF weekday_plus
<1> HIDE DEF u
<1>3. trunc(IF u >= 0 THEN u ELSE u - 6, 7) = u \div 7
  BY <1>1 DEF trunc
<1>4. u - (u \div 7) * 7 = u % 7 /\ u % 7 \in 0..6
  BY <1>1
<1>5. weekday_of(u % 7) = u % 7
  BY <1>4 DEF weekday_of, unsigned_char
<1> QED BY <1>2, <1>3, <1>4, <1>5 DEF u

(* ArithmeticFollowsCalendar follows from the two inductive invariants.    *)
LEMMA ArithmeticIsRight ==
  ASSUME CalendarInv, NEW n \in Shifts
  PROVE  LET later == year_month_plus(Month, n)
             other == from_days(elapsed + n)
         IN  /\ year_month_minus(later, Month) = n
             /\ later.month = month_plus(date.month, n) /\ month_ok(later.month)
             /\ month_minus(later.month, date.month) = n % 12
             /\ year_month_less(Month, later) <=> n > 0
             /\ year_month_day_last_less(ymd_last(date.year, date.month),
                                         ymd_last(later.year, later.month)) <=> n > 0
             /\ year_month_plus(later, -n) = Month
             /\ weekday_plus(wd, n) = weekday_from_days(elapsed + n)
             /\ weekday_minus(weekday_plus(wd, n), wd) = n % 7
             /\ year_month_day_less(date, other) <=> n > 0
             /\ other.year = date.year =>
                  (month_day_less(md(date.month, date.day), md(other.month, other.day)) <=> n > 0)
             /\ other.month = date.month /\ other.year = date.year =>
                  day_plus(date.day, n) = other.day /\ day_minus(other.day, date.day) = n
<1> DEFINE y == date.year
           m == date.month
           d == date.day
           i == m - 1 + n
           v == y + i \div 12
           w == 1 + (i % 12)
           later == year_month_plus(Month, n)
           other == from_days(elapsed + n)
<1>1. /\ y \in Int /\ m \in 1..12 /\ d \in 1..31 /\ n \in Int /\ date = ymd(y, m, d)
      /\ elapsed \in Int /\ wd = (elapsed + 4) % 7 /\ wd \in 0..6
  BY ThisMonth, ShiftIs
<1>2. i \in Int /\ v \in Int /\ YearOk(v) /\ w \in 1..12
  <2>1. (12 * y + m - 1 + n) \div 12 = v
    BY <1>1
  <2>2. YearOk(v)
    BY <2>1, ShiftIs
  <2> QED BY <1>1, <2>2
<1>3. Month = ym(y, m) /\ Month.year = y /\ Month.month = m
  BY DEF Month, ym
<1> HIDE DEF y, m, d
<1>4. later = ym(v, w) /\ later.year = v /\ later.month = w
  <2>1. year_month_plus(ym(y, m), n) = ym(short(v), w)
    BY <1>1, MonthsPlus, Zenon
  <2>2. short(v) = v
    BY <1>2, ShortFits
  <2> QED BY <1>3, <2>1, <2>2 DEF ym
<1>5. 12 * (v - y) + (w - m) = n
  BY <1>1, <1>2
<1> HIDE DEF later
<1>6. year_month_minus(later, Month) = n
  BY <1>1, <1>2, <1>3, <1>4, <1>5 DEF year_month_minus, year_minus
<1>7. month_ok(later.month) /\ later.month = month_plus(m, n)
  <2>1. month_ok(later.month)
    BY <1>2, <1>4 DEF month_ok
  <2>2. month_plus(m, n) = unsigned_char(i - trunc(IF i >= 0 THEN i ELSE i - 11, 12) * 12 + 1)
    <3>1. m + n - 1 = i
      BY <1>1
    <3> QED BY <3>1 DEF month_plus
  <2> HIDE DEF i
  <2>3. trunc(IF i >= 0 THEN i ELSE i - 11, 12) = i \div 12
    BY <1>2 DEF trunc
  <2>4. i - (i \div 12) * 12 + 1 = w
    BY <1>2
  <2>5. unsigned_char(w) = w
    BY <1>2 DEF unsigned_char
  <2> QED BY <1>4, <2>1, <2>2, <2>3, <2>4, <2>5
<1>8. month_minus(later.month, m) = n % 12
  <2> HIDE DEF v, w
  <2>1. w - m \in Int /\ -11 <= w - m /\ w - m <= 11
    BY <1>1, <1>2
  <2>2. n % 12 = (w - m) % 12
    BY <1>1, <1>2, <1>5
  <2>3. (w - m) % 12 = IF w - m \in 0..11 THEN w - m ELSE w - m + 12
    BY <2>1
  <2> QED BY <1>4, <2>2, <2>3 DEF month_minus
<1> HIDE DEF i, v, w
<1>9. (y < v \/ (y = v /\ m < w)) <=> n > 0
  BY <1>1, <1>2, <1>5
<1>10. year_month_less(Month, later) <=> n > 0
  <2>1. year_month_less(Month, later) <=> Before(<<y, m>>, <<v, w>>)
    BY <1>3, <1>4 DEF year_month_less
  <2>2. m \in Int /\ w \in Int
    BY <1>1, <1>2
  <2> QED BY <1>1, <1>2, <1>9, <2>1, <2>2, BeforePair
<1>11. year_month_day_last_less(ymd_last(y, m), ymd_last(later.year, later.month)) <=> n > 0
  <2>1. year_month_day_last_less(ymd_last(y, m), ymd_last(v, w)) <=> Before(<<y, m>>, <<v, w>>)
    BY DEF year_month_day_last_less, ymd_last, md_last
  <2>2. m \in Int /\ w \in Int
    BY <1>1, <1>2
  <2> QED BY <1>1, <1>2, <1>4, <1>9, <2>1, <2>2, BeforePair
<1>12. year_month_plus(later, -n) = Month
  <2>1. year_month_plus(ym(v, w), -n)
          = ym(short(v + (w - 1 + (-n)) \div 12), 1 + ((w - 1 + (-n)) % 12))
    <3>1. v \in Int /\ w \in 1..12 /\ -n \in Int
      BY <1>1, <1>2
    <3> QED BY <3>1, MonthsPlus, Zenon
  <2>2. w - 1 + (-n) = 12 * (y - v) + m - 1
    BY <1>1, <1>2, <1>5
  <2>3. (12 * (y - v) + m - 1) \div 12 = y - v /\ (12 * (y - v) + m - 1) % 12 = m - 1
    BY <1>1, <1>2
  <2>4. v + (w - 1 + (-n)) \div 12 = y /\ 1 + ((w - 1 + (-n)) % 12) = m
    BY <1>1, <1>2, <2>2, <2>3
  <2>5. short(y) = y
    BY <1>1, YearFits, ShortFits DEF y
  <2> QED BY <1>3, <1>4, <2>1, <2>4, <2>5
<1>13. weekday_plus(wd, n) = (wd + n) % 7 /\ weekday_from_days(elapsed + n) = (elapsed + n + 4) % 7
  <2>1. wd \in Int /\ elapsed + n \in Int
    BY <1>1
  <2>2. weekday_plus(wd, n) = (wd + n) % 7
    BY <1>1, <2>1, WeekdayPlus, Zenon
  <2>3. weekday_from_days(elapsed + n) = (elapsed + n + 4) % 7
    BY <2>1, WeekdayFromDays, Zenon
  <2> QED BY <2>2, <2>3
<1>14. weekday_plus(wd, n) = weekday_from_days(elapsed + n)
  BY <1>1, <1>13
<1>15. weekday_minus(weekday_plus(wd, n), wd) = n % 7
  <2> DEFINE g == (wd + n) % 7
  <2>1. g \in Int /\ wd \in Int
    BY <1>1
  <2>2. (g - wd) % 7 = n % 7
    BY <1>1, <2>1
  <2> HIDE DEF g
  <2>3. weekday_minus(g, wd) = (g - wd) % 7
    BY <2>1, WeekdayMinus
  <2> QED BY <1>13, <2>2, <2>3 DEF g
<1>16. other \in Dates /\ to_days(other) = elapsed + n
  BY OtherIs
<1> HIDE DEF other
<1>17. date \in Dates /\ to_days(date) = elapsed
  BY DEF CalendarInv
<1>18. year_month_day_less(date, other) <=> n > 0
  <2>1. year_month_day_less(date, other) <=> to_days(date) < to_days(other)
    BY <1>16, <1>17, DaysInOrder
  <2> QED BY <1>1, <1>16, <1>17, <2>1
<1>19. other.year \in Int /\ other.month \in Int /\ other.day \in 1..31 /\ m \in Int /\ d \in Int
  BY <1>1, <1>16 DEF Dates
<1>20. other.year = y => (month_day_less(md(m, d), md(other.month, other.day)) <=> n > 0)
  <2>1. month_day_less(md(m, d), md(other.month, other.day))
          <=> m < other.month \/ (m = other.month /\ d < other.day)
    BY <1>19, BeforePair DEF month_day_less, md
  <2>2. year_month_day_less(date, other)
          <=> \/ y < other.year \/ (y = other.year /\ m < other.month)
              \/ y = other.year /\ m = other.month /\ d < other.day
    <3>1. y \in Int /\ m \in Int /\ d \in Int /\ other.year \in Int /\ other.month \in Int
          /\ other.day \in Int
      BY <1>1, <1>19
    <3>2. year_month_day_less(date, other)
            <=> Before(<<y, m, d>>, <<other.year, other.month, other.day>>)
      BY DEF year_month_day_less, y, m, d
    <3> QED BY <3>1, <3>2, BeforeTriple
  <2> QED BY <1>1, <1>18, <1>19, <2>1, <2>2
<1>21. other.month = m /\ other.year = y =>
         day_plus(d, n) = other.day /\ day_minus(other.day, d) = n
  <2> SUFFICES ASSUME other.month = m, other.year = y
               PROVE  day_plus(d, n) = other.day /\ day_minus(other.day, d) = n
    OBVIOUS
  <2>1. First(y, m) + other.day - 1 = to_days(other)
    BY <1>16, WithinYear
  <2>2. First(y, m) + d - 1 = to_days(date)
    BY <1>17, WithinYear DEF y, m, d
  <2>3. First(y, m) \in Int
    BY <1>1, FirstIs, Zenon
  <2>4. other.day = d + n
    BY <1>1, <1>16, <1>17, <1>19, <2>1, <2>2, <2>3
  <2> QED BY <1>1, <1>19, <2>4 DEF day_plus, day_minus, unsigned_char
<1> QED BY <1>6, <1>7, <1>8, <1>10, <1>11, <1>12, <1>14, <1>15, <1>18, <1>20, <1>21, Zenon
        DEF y, m, d, later, other

(* Adding and subtracting months, years and days moves along the calendar  *)
(* and back, dates compare as their days do, and cursors advanced in place *)
(* end in the right month, for all shifts and moves that end in a year     *)
(* that year_ok accepts.                                                   *)
THEOREM ArithmeticFollowsCalendarHolds == Spec => []ArithmeticFollowsCalendar
<1>1. CalendarInv /\ CursorsInv => ArithmeticFollowsCalendar
  <2> SUFFICES ASSUME CalendarInv, CursorsInv PROVE ArithmeticFollowsCalendar
    OBVIOUS
  <2>1. cursors = CursorsAt(1970 + moved \div 12, 1 + (moved % 12))
    BY DEF CursorsInv, At, YearAt, MonthAt
  <2> QED BY <2>1, ArithmeticIsRight DEF ArithmeticFollowsCalendar
<1> QED BY <1>1, Calendar, Cursors, PTL

-------------------------------------------------------------------------------
(* Times: rounding to a coarser unit goes down, before the epoch too.      *)
LEMMA Division ==
  ASSUME NEW n \in Int, NEW u \in Int, u > 0
  PROVE  n \div u \in Int /\ (n \div u) * u <= n /\ n < (n \div u) * u + u
OBVIOUS

(* The quotient is the only number with that property.                     *)
LEMMA DivisionUnique ==
  ASSUME NEW n \in Int, NEW u \in Int, u > 0, NEW q \in Int, q * u <= n, n < q * u + u
  PROVE  n \div u = q
<1> DEFINE p == n \div u
<1>1. p \in Int /\ p * u <= n /\ n < p * u + u
  BY Division
<1> HIDE DEF p
<1>2. (p - q) * u < u /\ (q - p) * u < u
  BY <1>1
<1>3. p - q < 1
  BY <1>1, <1>2
<1>4. q - p < 1
  BY <1>1, <1>2
<1> QED BY <1>1, <1>3, <1>4 DEF p

(* Rounding a duration to a coarser unit divides it, rounding down.        *)
LEMMA FloorIs ==
  ASSUME NEW n \in Int, NEW u \in Int, u > 0
  PROVE  floor(n, u) = n \div u
<1>1. CASE n >= 0
  <2>1. trunc(n, u) = n \div u
    BY <1>1 DEF trunc
  <2>2. n \div u \in Int /\ ~((n \div u) * u > n)
    BY Division
  <2> QED BY <2>1, <2>2 DEF floor
<1>2. CASE n < 0
  <2> DEFINE q == (-n) \div u
             s == q * u
  <2>1. q \in Int /\ s <= -n /\ -n < s + u
    BY <1>2, Division, -n \in Int
  <2>2. trunc(n, u) = -q
    BY <1>2 DEF trunc
  <2> HIDE DEF q
  <2>3. (-q) * u = -s /\ (-q - 1) * u = -s - u /\ s \in Int
    BY <2>1
  <2> HIDE DEF s
  <2>4. CASE -s > n
    <3>1. floor(n, u) = -q - 1
      BY <2>1, <2>2, <2>3, <2>4 DEF floor
    <3>2. (-q - 1) * u <= n /\ n < (-q - 1) * u + u
      BY <2>1, <2>3, <2>4
    <3> QED BY <3>1, <3>2, <2>1, DivisionUnique, -q - 1 \in Int
  <2>5. CASE -s = n
    <3>1. floor(n, u) = -q
      BY <2>1, <2>2, <2>3, <2>5 DEF floor
    <3>2. (-q) * u <= n /\ n < (-q) * u + u
      BY <2>1, <2>3, <2>5
    <3> QED BY <3>1, <3>2, <2>1, DivisionUnique, -q \in Int
  <2> QED BY <2>1, <2>3, <2>4, <2>5
<1> QED BY <1>1, <1>2

(* The last millisecond of a day.                                          *)
LastMs == MsPerDay - 1

(* A day has 86400000 milliseconds.                                        *)
LEMMA LastMsIs == LastMs \in Int /\ LastMs = 86399999
BY DEF LastMs, MsPerDay

(* A millisecond of a day; LastMs stays folded here.                       *)
LEMMA InDay ==
  ASSUME NEW d \in Int
  PROVE  d \in 0..LastMs <=> 0 <= d /\ d <= LastMs
<1>1. LastMs \in Int
  BY LastMsIs
<1> QED BY <1>1

(* The sign of a time is that of the duration it was made from.            *)
LEMMA NegativeIs ==
  ASSUME NEW d \in Int, NEW a, NEW b, NEW c, NEW t,
         t = [hours |-> a, minutes |-> b, s |-> c, negative |-> d < 0]
  PROVE  t.negative <=> d < 0
BY Zenon

(* make_time splits a duration into parts that are in range and add up.    *)
LEMMA MakeTime ==
  ASSUME NEW d \in Int
  PROVE  LET time == make_time(d)
             n == abs(d)
         IN  /\ time.hours = n \div 3600000 /\ 0 <= time.minutes /\ time.minutes <= 59
             /\ 0 <= time.s.seconds /\ time.s.seconds <= 59
             /\ 0 <= time.s.subseconds /\ time.s.subseconds <= 999
             /\ n = time.hours * 3600000 + time.minutes * 60000 + time.s.seconds * 1000
                      + time.s.subseconds
             /\ time.minutes \in Int /\ time.s.seconds \in Int /\ time.s.subseconds \in Int
             /\ time.hours \in Int /\ 0 <= time.hours
             /\ (time.negative <=> d < 0)
<1> DEFINE n == abs(d)
           h == n \div 3600000
           m == n \div 60000 - h * 60
           r == n - h * 3600000 - m * 60000
           s == r \div 1000
           time == make_time(d)
<1>1. n \in Int /\ 0 <= n
  BY DEF abs
<1> HIDE DEF n
<1>2. h \in Int /\ 0 <= h /\ trunc(n, 3600000) = h
  BY <1>1 DEF trunc
<1>3. m \in Int /\ 0 <= m /\ m <= 59 /\ r \in Int /\ 0 <= r /\ r <= 59999
  BY <1>1
<1>4. trunc(n, 60000) - h * 60 = m
  BY <1>1 DEF trunc
<1>5. n = h * 3600000 + m * 60000 + r
  BY <1>1, <1>2, <1>3
<1> DEFINE Rest(a, b) == n - a * 3600000 - b * 60000
           Time(a, b) == [hours |-> a, minutes |-> b, s |-> decimal_format_seconds(Rest(a, b)),
                          negative |-> d < 0]
<1>6. time = Time(trunc(n, 3600000), trunc(n, 60000) - trunc(n, 3600000) * 60)
  BY DEF make_time, n
<1>7. time = Time(h, m)
  <2> HIDE DEF Time, h, m
  <2> QED BY <1>2, <1>4, <1>6
<1>8. Rest(h, m) = r
  OBVIOUS
<1> HIDE DEF h, m, r
<1>9. s \in Int /\ 0 <= s /\ s <= 59 /\ trunc(r, 1000) = s /\ 0 <= r - s * 1000 /\ r - s * 1000 <= 999
  BY <1>3 DEF trunc
<1>10. decimal_format_seconds(r) = [seconds |-> s, subseconds |-> r - s * 1000]
  BY <1>9 DEF decimal_format_seconds
<1>11. /\ time.hours = h /\ time.minutes = m /\ time.s.seconds = s /\ time.s.subseconds = r - s * 1000
       /\ time.negative = (d < 0)
  BY <1>7, <1>8, <1>10
<1> HIDE DEF s, time
<1>12. n = h * 3600000 + m * 60000 + s * 1000 + (r - s * 1000)
  BY <1>1, <1>2, <1>3, <1>5, <1>9
<1>13. n = time.hours * 3600000 + time.minutes * 60000 + time.s.seconds * 1000
             + time.s.subseconds
  BY <1>11, <1>12
<1>14. /\ 0 <= time.minutes /\ time.minutes <= 59
       /\ 0 <= time.s.seconds /\ time.s.seconds <= 59
       /\ 0 <= time.s.subseconds /\ time.s.subseconds <= 999
       /\ time.hours \in Int /\ 0 <= time.hours
  BY <1>2, <1>3, <1>9, <1>11
<1>15. time.minutes \in Int /\ time.s.seconds \in Int /\ time.s.subseconds \in Int
  BY <1>3, <1>9, <1>11
<1>16. time.negative <=> d < 0
  BY <1>7, NegativeIs DEF Time
<1>17. time.hours = n \div 3600000
  BY <1>11 DEF h
<1> QED BY <1>13, <1>14, <1>15, <1>16, <1>17 DEF n, time

(* to_duration of parts that add up to a duration is that duration.        *)
LEMMA Back ==
  ASSUME NEW d \in Int, NEW t, t.hours \in Int, t.minutes \in Int, t.s.seconds \in Int,
         t.s.subseconds \in Int, t.negative <=> d < 0,
         abs(d) = t.hours * 3600000 + t.minutes * 60000 + t.s.seconds * 1000 + t.s.subseconds
  PROVE  to_duration(t) = d
<1> DEFINE n == t.hours * 3600000 + t.minutes * 60000 + t.s.seconds * 1000 + t.s.subseconds
<1>1. t.s.seconds * 1000 + t.s.subseconds + t.minutes * 60000 + t.hours * 3600000 = n /\ n \in Int
  OBVIOUS
<1>2. d < 0 => n = -d
  BY DEF abs
<1>3. d >= 0 => n = d
  BY DEF abs
<1> HIDE DEF n
<1>4. to_duration(t) = n * (IF t.negative THEN -1 ELSE 1)
  BY <1>1 DEF to_duration
<1>5. CASE d < 0
  BY <1>1, <1>2, <1>4, <1>5
<1>6. CASE d >= 0
  BY <1>1, <1>3, <1>4, <1>6
<1> QED BY <1>5, <1>6

(* Of parts in their ranges only the hours and the sign can be out of a    *)
(* day.                                                                    *)
LEMMA Conventional ==
  ASSUME NEW d \in Int, NEW t, t.hours \in Int, t.minutes <= 59, t.s.seconds <= 59,
         t.s.subseconds <= 999, t.minutes \in Int, t.s.seconds \in Int, t.s.subseconds \in Int,
         t.negative <=> d < 0
  PROVE  in_conventional_range(t) <=> ~(d < 0) /\ t.hours < 24
BY SMTT(60) DEF in_conventional_range

(* to_duration gives back what make_time was given.                        *)
LEMMA MakeTimeBack ==
  ASSUME NEW d \in Int
  PROVE  to_duration(make_time(d)) = d
<1> DEFINE t == make_time(d)
<1>1. t.hours \in Int /\ (t.negative <=> d < 0)
  BY MakeTime
<1>2. abs(d) = t.hours * 3600000 + t.minutes * 60000 + t.s.seconds * 1000 + t.s.subseconds
  BY MakeTime
<1>3. t.minutes \in Int /\ t.s.seconds \in Int /\ t.s.subseconds \in Int
  BY MakeTime
<1> HIDE DEF t
<1>4. to_duration(t) = d
  BY <1>1, <1>2, <1>3, Back
<1> QED BY <1>4 DEF t

(* in_conventional_range accepts exactly the durations within a day.       *)
LEMMA MakeTimeConventional ==
  ASSUME NEW d \in Int
  PROVE  in_conventional_range(make_time(d)) <=> d \in 0..LastMs
<1> DEFINE n == abs(d)
           t == make_time(d)
<1>1. /\ t.minutes <= 59 /\ t.s.seconds <= 59 /\ t.s.subseconds <= 999
      /\ t.minutes \in Int /\ t.s.seconds \in Int /\ t.s.subseconds \in Int
      /\ t.hours \in Int /\ (t.negative <=> d < 0)
  BY MakeTime
<1>2. t.hours = n \div 3600000
  BY MakeTime
<1>3. n \in Int /\ 0 <= n /\ (d >= 0 => n = d)
  BY DEF abs
<1> HIDE DEF n, t
<1>4. n \div 3600000 < 24 <=> n <= LastMs
  BY <1>3, LastMsIs
<1>5. in_conventional_range(t) <=> ~(d < 0) /\ t.hours < 24
  BY <1>1, Conventional
<1>6. CASE d < 0
  <2>1. ~in_conventional_range(t)
    BY <1>5, <1>6
  <2>2. ~(d \in 0..LastMs)
    BY <1>6, InDay
  <2> QED BY <2>1, <2>2 DEF t
<1>7. CASE d >= 0
  <2>1. d <= LastMs <=> d \in 0..LastMs
    BY <1>7, InDay
  <2>2. t.hours < 24 <=> d <= LastMs
    BY <1>2, <1>3, <1>4, <1>7
  <2>3. in_conventional_range(t) <=> t.hours < 24
    BY <1>5, <1>7
  <2> QED BY <2>1, <2>2, <2>3 DEF t
<1> QED BY <1>6, <1>7

(* make12 and make24 are inverse, and an hour is before or after noon.     *)
LEMMA TwelveHours ==
  ASSUME NEW h \in 0..23
  PROVE  is_am(h) # is_pm(h) /\ make24(make12(h), is_pm(h)) = h
BY DEF is_am, is_pm, make12, make24

(* The day, and the ticks within it, of a time point.                      *)
LEMMA DayOfTick ==
  ASSUME NEW e \in Int, -3 <= e, e <= 3, NEW t \in Int, 0 <= t, t < TicksPerDay, NEW zone \in Zones
  PROVE  LET local == e * TicksPerDay + t + zone * TicksPerHour
             dp == floor(local, TicksPerDay)
         IN  /\ local \in Int /\ dp \in Int /\ -5 <= dp /\ dp <= 4
             /\ 0 <= local - dp * TicksPerDay /\ local - dp * TicksPerDay < TicksPerDay
<1> DEFINE u == TicksPerDay
           z == zone * TicksPerHour
           local == e * u + t + z
           dp == local \div u
<1>1. TicksPerHour \in Int /\ TicksPerHour > 0 /\ u = 24 * TicksPerHour /\ u \in Int /\ u > 0
  BY VpUtilsAssumption DEF TicksPerHour, TicksPerDay
<1>2. zone \in Int /\ -24 <= zone /\ zone <= 24
  BY CivilClockAssumption
<1>3. z \in Int /\ -u <= z /\ z <= u
  BY <1>1, <1>2
<1>4. t \in Int /\ 0 <= t /\ t < u
  OBVIOUS
<1> HIDE DEF u, z
<1>5. e * u \in Int /\ -3 * u <= e * u /\ e * u <= 3 * u
  BY <1>1
<1>6. local \in Int /\ -4 * u <= local /\ local < 5 * u
  BY <1>1, <1>3, <1>4, <1>5
<1> HIDE DEF local
<1>7. dp \in Int /\ dp * u <= local /\ local < dp * u + u
  BY <1>1, <1>6, Division
<1>8. floor(local, u) = dp
  BY <1>1, <1>6, FloorIs
<1> HIDE DEF dp
<1>9. dp * u < 5 * u /\ -4 * u < (dp + 1) * u
  BY <1>1, <1>6, <1>7
<1>10. dp < 5 /\ -4 < dp + 1
  BY <1>1, <1>7, <1>9
<1>11. 0 <= local - dp * u /\ local - dp * u < u
  BY <1>1, <1>6, <1>7
<1> QED BY <1>6, <1>7, <1>8, <1>10, <1>11 DEF local, z, u

(* The days of the weeks around the epoch have a date of their own.        *)
LEMMA NearEpoch ==
  ASSUME NEW dp \in Int, -30 <= dp, dp <= 30
  PROVE  LET x == from_days(dp)
         IN  to_days(x) = dp /\ ymd(x.year, x.month, x.day) = x
<1> DEFINE o == ymd(1970, 1, 1)
<1>1. o \in Dates /\ o.year = 1970
  BY DEF Dates, ymd, MonthLength
<1>2. to_days(o) = 0
  BY DEF to_days, ymd, trunc
<1> HIDE DEF o
<1>3. PICK x \in Dates : to_days(x) = dp
  BY EveryDay
<1>4. x.year \in Int
  BY DEF Dates
<1>5. 1970 < x.year => 365 * (x.year - 1971) < dp
  BY <1>1, <1>2, <1>3, <1>4, EarlierYear
<1>6. x.year < 1970 => dp + 365 * (1969 - x.year) < 0
  BY <1>1, <1>2, <1>3, <1>4, EarlierYear
<1>7. YearOk(x.year)
  BY <1>4, <1>5, <1>6 DEF YearOk
<1>8. ymd(x.year, x.month, x.day) = x
  BY DEF Dates, ymd
<1> QED BY <1>3, <1>7, <1>8, DateOfDays

(* The milliseconds of the ticks of a day.                                 *)
LEMMA MillisecondOfTick ==
  ASSUME NEW r \in Int, 0 <= r, r < TicksPerDay
  PROVE  LET ms == trunc(r, TicksPerMs)
         IN  /\ ms \in Int /\ 0 <= ms /\ ms <= LastMs
             /\ 0 <= r - ms * TicksPerMs /\ r - ms * TicksPerMs < TicksPerMs
<1> DEFINE u == TicksPerMs
           ms == r \div u
<1>1. u \in Int /\ u > 0
  BY VpUtilsAssumption
<1>2. r < 86400000 * u
  BY <1>1 DEF TicksPerDay, TicksPerHour
<1>3. trunc(r, u) = ms
  BY DEF trunc
<1> HIDE DEF u
<1>4. ms \in Int /\ ms * u <= r /\ r < ms * u + u
  BY <1>1, Division
<1> HIDE DEF ms
<1>5. ms < 86400000
  <2>1. ms * u < 86400000 * u
    BY <1>1, <1>2, <1>4
  <2> QED BY <1>1, <1>4, <2>1
<1>6. 0 < ms + 1
  <2>1. 0 < (ms + 1) * u
    BY <1>1, <1>4
  <2> QED BY <1>1, <1>4, <2>1
<1>7. 0 <= r - ms * u /\ r - ms * u < u
  BY <1>1, <1>4
<1> QED BY <1>3, <1>4, <1>5, <1>6, <1>7, LastMsIs DEF u

(* What TimeSplitExact says of a time point in a time zone, and of a       *)
(* duration.                                                               *)
SplitExact(tp, zone) ==
  LET parts == time_split(tp, zone)
  IN  /\ tp + zone * TicksPerHour - TimeOf(parts) \in 0..(TicksPerMs - 1)
      /\ parts[4] \in 0..23 /\ parts[5] \in 0..59
      /\ parts[6] \in 0..59 /\ parts[7] \in 0..999

TimeRight(d) ==
  LET time == make_time(d)
  IN  /\ to_duration(time) = d
      /\ in_conventional_range(time) <=> to_duration(time) \in 0..(MsPerDay - 1)
      /\ in_conventional_range(time) =>
           /\ is_am(time.hours) # is_pm(time.hours)
           /\ make24(make12(time.hours), is_pm(time.hours)) = time.hours

(* time_split is exact, for any time zone and resolution.                  *)
LEMMA SplitIsExact ==
  ASSUME NEW e \in Int, -3 <= e, e <= 3, NEW t \in Int, 0 <= t, t < TicksPerDay, NEW zone \in Zones
  PROVE  SplitExact(e * TicksPerDay + t, zone)
<1> DEFINE tp == e * TicksPerDay + t
           local == tp + zone * TicksPerHour
           dp == floor(local, TicksPerDay)
           r == local - dp * TicksPerDay
           ms == trunc(r, TicksPerMs)
           date_ == from_days(dp)
           time == make_time(ms)
           parts == time_split(tp, zone)
<1>1. /\ local \in Int /\ dp \in Int /\ -5 <= dp /\ dp <= 4 /\ 0 <= r /\ r < TicksPerDay
  BY DayOfTick
<1>2. parts = <<date_.year, date_.month, date_.day,
                time.hours, time.minutes, time.s.seconds, time.s.subseconds>>
  BY DEF time_split
<1>3. TicksPerDay \in Int /\ TicksPerMs \in Int /\ TicksPerMs > 0
  BY VpUtilsAssumption DEF TicksPerHour, TicksPerDay
<1>4. TicksPerDay = 86400000 * TicksPerMs
  BY VpUtilsAssumption DEF TicksPerHour, TicksPerDay
<1> HIDE DEF local, dp
<1>5. to_days(date_) = dp /\ ymd(date_.year, date_.month, date_.day) = date_
  BY <1>1, NearEpoch
<1>6. r \in Int /\ local = dp * TicksPerDay + r
  BY <1>1, <1>3
<1> HIDE DEF r, date_
<1>7. /\ ms \in Int /\ 0 <= ms /\ ms <= LastMs
      /\ 0 <= r - ms * TicksPerMs /\ r - ms * TicksPerMs < TicksPerMs
  BY <1>1, <1>6, MillisecondOfTick
<1> HIDE DEF ms, parts
<1>8. /\ time.minutes \in Int /\ 0 <= time.minutes /\ time.minutes <= 59
      /\ time.s.seconds \in Int /\ 0 <= time.s.seconds /\ time.s.seconds <= 59
      /\ time.s.subseconds \in Int /\ 0 <= time.s.subseconds /\ time.s.subseconds <= 999
      /\ time.hours \in Int /\ 0 <= time.hours
  BY <1>7, MakeTime
<1>9. time.hours = abs(ms) \div 3600000
  BY <1>7, MakeTime
<1>10. abs(ms) = time.hours * 3600000 + time.minutes * 60000 + time.s.seconds * 1000
                  + time.s.subseconds
  BY <1>7, MakeTime
<1>11. abs(ms) = ms
  BY <1>7 DEF abs
<1> HIDE DEF time
<1>12. time.hours \in 0..23
  BY <1>7, <1>8, <1>9, <1>11, LastMsIs
<1>13. /\ parts[1] = date_.year /\ parts[2] = date_.month /\ parts[3] = date_.day
       /\ parts[4] = time.hours /\ parts[5] = time.minutes
       /\ parts[6] = time.s.seconds /\ parts[7] = time.s.subseconds
  BY <1>2
<1> DEFINE all == (dp * 24 + time.hours) * 3600000 + time.minutes * 60000
                    + time.s.seconds * 1000 + time.s.subseconds
<1>14. TimeOf(parts) = all * TicksPerMs
  BY <1>5, <1>13 DEF TimeOf
<1>15. all = dp * 86400000 + ms
  <2>1. /\ time.hours \in Int /\ time.minutes \in Int
        /\ time.s.seconds \in Int /\ time.s.subseconds \in Int
    BY <1>7, MakeTime DEF time
  <2>2. ms = time.hours * 3600000 + time.minutes * 60000 + time.s.seconds * 1000
               + time.s.subseconds
    BY <1>10, <1>11
  <2> QED BY <1>1, <2>1, <2>2
<1> HIDE DEF all
<1>16. all * TicksPerMs = dp * TicksPerDay + ms * TicksPerMs
  BY <1>1, <1>3, <1>4, <1>7, <1>15
<1>17. local - TimeOf(parts) = r - ms * TicksPerMs
  BY <1>1, <1>3, <1>6, <1>7, <1>14, <1>16
<1>18. local - TimeOf(parts) \in 0..(TicksPerMs - 1)
  BY <1>3, <1>6, <1>7, <1>17
<1>19. local = tp + zone * TicksPerHour
  BY DEF local
<1>20. tp \in Int
  BY <1>3
<1>21. TimeOf(parts) \in Int
  BY <1>1, <1>3, <1>7, <1>14, <1>15
<1>22. zone * TicksPerHour \in Int
  BY CivilClockAssumption, VpUtilsAssumption DEF TicksPerHour
<1> HIDE DEF tp
<1>23. parts[4] \in 0..23 /\ parts[5] \in 0..59 /\ parts[6] \in 0..59 /\ parts[7] \in 0..999
  <2>1. time.minutes \in 0..59 /\ time.s.seconds \in 0..59
    BY <1>8
  <2>2. time.s.subseconds \in 0..999
    <3> DEFINE most == 999
    <3>1. most \in Int /\ time.s.subseconds <= most
      BY <1>8
    <3> HIDE DEF most
    <3>2. time.s.subseconds \in 0..most
      BY <1>8, <3>1
    <3> QED BY <3>2 DEF most
  <2> QED BY <1>12, <1>13, <2>1, <2>2
<1>24. tp + zone * TicksPerHour - TimeOf(parts) \in 0..(TicksPerMs - 1)
  <2>1. tp + zone * TicksPerHour - TimeOf(parts) = local - TimeOf(parts)
    <3> DEFINE z == zone * TicksPerHour
    <3>1. z \in Int /\ local = tp + z
      BY <1>19, <1>22
    <3> HIDE DEF z
    <3>2. tp + z - TimeOf(parts) = local - TimeOf(parts)
      BY <1>20, <1>21, <3>1
    <3> QED BY <3>2 DEF z
  <2> HIDE DEF local
  <2> QED BY <1>18, <2>1
<1>25. SplitExact(tp, zone)
  BY <1>23, <1>24 DEF SplitExact, parts
<1> QED BY <1>25 DEF tp

(* make_time is right for any duration.                                    *)
LEMMA TimesAreRight ==
  ASSUME NEW d \in Int
  PROVE  TimeRight(d)
<1> DEFINE time == make_time(d)
<1>1. to_duration(time) = d
  BY MakeTimeBack
<1>2. in_conventional_range(time) <=> d \in 0..LastMs
  BY MakeTimeConventional
<1>3. in_conventional_range(time) => time.hours \in 0..23
  <2>1. time.hours \in Int /\ 0 <= time.hours
    BY MakeTime
  <2> HIDE DEF time
  <2> QED BY <2>1 DEF in_conventional_range
<1> HIDE DEF time
<1>4. in_conventional_range(time) => /\ is_am(time.hours) # is_pm(time.hours)
                                     /\ make24(make12(time.hours), is_pm(time.hours)) = time.hours
  BY <1>3, TwelveHours
<1>5. in_conventional_range(time) <=> to_duration(time) \in 0..LastMs
  BY <1>1, <1>2
<1>6. TimeRight(d)
  BY <1>1, <1>4, <1>5 DEF TimeRight, time, LastMs
<1> QED BY <1>6

(* time_split gives the parts of exactly the time point it got, to the     *)
(* millisecond, in any time zone, on both sides of the epoch and with any  *)
(* resolution of the clock, and make_time, to_duration and the hours of    *)
(* twelve agree.                                                           *)
THEOREM TimeSplitExactHolds == Spec => []TimeSplitExact
<1>1. TimeSplitExact <=>
        (elapsed \in -3..3 /\ text = <<>> /\ moved = 0 =>
           \A t \in TimesOfDay :
             LET tp == elapsed * TicksPerDay + t
             IN  (\A zone \in Zones : SplitExact(tp, zone)) /\ TimeRight(trunc(tp, TicksPerMs)))
  BY DEF TimeSplitExact, SplitExact, TimeRight
<1>2. CalendarInv => TimeSplitExact
  <2> SUFFICES ASSUME CalendarInv, elapsed \in -3..3, NEW t \in TimesOfDay
               PROVE  LET tp == elapsed * TicksPerDay + t
                      IN  /\ \A zone \in Zones : SplitExact(tp, zone)
                          /\ TimeRight(trunc(tp, TicksPerMs))
    BY <1>1
  <2> DEFINE tp == elapsed * TicksPerDay + t
             d == trunc(tp, TicksPerMs)
  <2>1. elapsed \in Int /\ -3 <= elapsed /\ elapsed <= 3
    OBVIOUS
  <2>2. t \in Int /\ 0 <= t /\ t < TicksPerDay
    <3>1. t \in 0..(TicksPerDay - 1) /\ TicksPerDay \in Int
      BY CivilClockAssumption, VpUtilsAssumption DEF TicksPerDay, TicksPerHour
    <3> QED BY <3>1
  <2>3. \A zone \in Zones : SplitExact(tp, zone)
    BY <2>1, <2>2, SplitIsExact
  <2>4. TicksPerDay \in Int /\ TicksPerMs \in Int /\ TicksPerMs > 0
    BY VpUtilsAssumption DEF TicksPerDay, TicksPerHour
  <2>5. tp \in Int
    BY <2>1, <2>2, <2>4
  <2> HIDE DEF tp
  <2>6. d \in Int
    BY <2>4, <2>5, Division, -tp \in Int DEF trunc
  <2> HIDE DEF d
  <2>7. TimeRight(d)
    BY <2>6, TimesAreRight
  <2> QED BY <2>3, <2>7 DEF d, tp
<1> QED BY <1>2, Calendar, PTL
===============================================================================
