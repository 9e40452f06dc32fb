-------------------------- MODULE FarmerFormsProofs --------------------------
(***************************************************************************)
(* The parts of FarmerRegistry that are forms and dates: the calendars, the *)
(* rules of the server, the land table and the intake page.  Each has an    *)
(* inductive invariant, with a lemma on its initial states, one on its      *)
(* steps and one on what the invariant gives; FarmerRegistryProofs puts     *)
(* them together with the other parts.                                      *)
(***************************************************************************)
EXTENDS FarmerRegistry, FiniteSetTheorems, SequenceTheorems, TLAPS

-----------------------------------------------------------------------------
(* The two calendars.  A valid date of either has one day number, the next  *)
(* day the next number, and the way back from the number finds the date.    *)

\* A date the Gregorian calendar has; years are those of the walk.
GregorianDate(t) ==
    \E y \in Nat \ {0}, m \in 1..12 : \E d \in 1..Dates!GregorianMonthLength(y, m) :
        t = <<y, m, d>>
EthiopicDate(t) ==
    \E y \in Nat \ {0}, m \in 1..13 : \E d \in 1..Dates!EthiopicMonthLength(y, m) :
        t = <<y, m, d>>

\* The day number of an Ethiopian date: the leap years and days before it.
LEMMA EthiopicForth ==
    ASSUME NEW y \in Int, NEW m \in Int, NEW d \in Int
    PROVE  Dates!EthiopicToJdn(<<y, m, d>>)
               = Dates!Epoch + 365 * y + y \div 4 + 30 * (m - 1) + (d - 1)
  BY DEF Dates!EthiopicToJdn, Dates!Epoch

LEMMA EthiopicDays ==
    ASSUME NEW y \in Nat \ {0}, NEW m \in 1..13, NEW d \in 1..Dates!EthiopicMonthLength(y, m)
    PROVE  /\ d \in Nat /\ Dates!ValidEthiopic(<<y, m, d>>)
           /\ ~Dates!ValidEthiopic(<<y, m, Dates!EthiopicMonthLength(y, m) + 1>>)
  <1>1. Dates!EthiopicMonthLength(y, m) \in {5, 6, 30}
    BY DEF Dates!EthiopicMonthLength
  <1> QED
    BY <1>1 DEF Dates!EthiopicToJdn, Dates!Epoch, Dates!ValidEthiopic

LEMMA EthiopicBack ==
    ASSUME NEW y \in Nat \ {0}, NEW m \in 1..13, NEW d \in 1..Dates!EthiopicMonthLength(y, m)
    PROVE  Dates!JdnToEthiopic(Dates!EthiopicToJdn(<<y, m, d>>)) = <<y, m, d>>
  <1>1. PICK q \in Nat, s \in 0..3 : y = 4 * q + s
    <2>1. y \in Nat
      OBVIOUS
    <2>2. y \div 4 \in Int /\ y % 4 \in 0..3 /\ y = 4 * (y \div 4) + (y % 4)
      BY <2>1
    <2>3. y \div 4 >= 0
      BY <2>1
    <2> QED
      BY <2>2, <2>3
  <1>2. PICK n : n = 30 * (m - 1) + (d - 1)
    OBVIOUS
  <1>3. d \in 1..30 /\ (m = 13 => d <= IF s = 3 THEN 6 ELSE 5)
    BY <1>1 DEF Dates!EthiopicMonthLength
  <1>4. n \in 0..365 /\ (n = 365 => s = 3) /\ n \div 30 = m - 1 /\ n % 30 = d - 1
    BY <1>2, <1>3
  <1>5. PICK j : j = Dates!EthiopicToJdn(<<y, m, d>>)
    OBVIOUS
  <1>6. j - Dates!Epoch = 1461 * q + (365 * s + n) /\ j \in Int /\ Dates!Epoch \in Int
    <2>1. j = Dates!Epoch + 365 * y + y \div 4 + n
      <3>1. j = Dates!Epoch + 365 * y + y \div 4 + 30 * (m - 1) + (d - 1)
        BY <1>3, <1>5, EthiopicForth
      <3> QED
        BY <1>2, <1>3, <3>1 DEF Dates!Epoch
    <2>2. y \div 4 = q
      BY <1>1
    <2> QED
      BY <1>1, <1>4, <2>1, <2>2 DEF Dates!Epoch
  <1>7. PICK r : r = 365 * s + n
    OBVIOUS
  <1>8. r \in 0..1460
    BY <1>4, <1>7
  <1>9. (j - Dates!Epoch) % 1461 = r /\ (j - Dates!Epoch) \div 1461 = q
    BY <1>1, <1>6, <1>7, <1>8
  <1>10. (r % 365) + 365 * (r \div 1460) = n /\ r \div 365 - r \div 1460 = s
    <2>1. CASE n = 365
      BY <1>4, <1>7, <2>1
    <2>2. CASE n # 365
      BY <1>4, <1>7, <2>2
    <2> QED
      BY <2>1, <2>2
  <1>11. 4 * q + r \div 365 - r \div 1460 = y
    BY <1>1, <1>8, <1>10
  <1>12. Dates!JdnToEthiopic(j) = <<y, m, d>>
    BY <1>4, <1>9, <1>10, <1>11 DEF Dates!JdnToEthiopic, Dates!Date
  <1> QED
    BY <1>5, <1>12

LEMMA EthiopicTomorrow ==
    ASSUME NEW t, EthiopicDate(t)
    PROVE  /\ EthiopicDate(Dates!NextEthiopic(t))
           /\ Dates!EthiopicToJdn(Dates!NextEthiopic(t)) = Dates!EthiopicToJdn(t) + 1
  <1>1. PICK y \in Nat \ {0}, m \in 1..13 : \E d \in 1..Dates!EthiopicMonthLength(y, m) :
            t = <<y, m, d>>
    BY DEF EthiopicDate
  <1>2. PICK d \in 1..Dates!EthiopicMonthLength(y, m) : t = <<y, m, d>>
    BY <1>1
  <1>3. PICK l : l = Dates!EthiopicMonthLength(y, m)
    OBVIOUS
  <1>4. /\ l \in {5, 6, 30} /\ d \in 1..l
        /\ (m < 13 <=> l = 30) /\ (m = 13 => (l = 6 <=> y % 4 = 3))
    BY <1>3 DEF Dates!EthiopicMonthLength
  <1>5. l = IF m <= 12 THEN 30 ELSE IF (y + 1) % 4 = 0 THEN 6 ELSE 5
    BY <1>4
  <1>6. Dates!NextEthiopic(t) = IF d < l THEN <<y, m, d + 1>>
                                ELSE IF m < 13 THEN <<y, m + 1, 1>> ELSE <<y + 1, 1, 1>>
    BY <1>2, <1>5 DEF Dates!NextEthiopic, Dates!Following, Dates!Date
  <1>7. Dates!EthiopicToJdn(t) = Dates!Epoch + 365 * y + y \div 4 + 30 * (m - 1) + (d - 1)
    BY <1>2, <1>4, EthiopicForth
  <1>8. CASE d < l
    <2>1. d + 1 \in 1..Dates!EthiopicMonthLength(y, m)
      BY <1>3, <1>4, <1>8
    <2>2. EthiopicDate(<<y, m, d + 1>>)
      BY <2>1 DEF EthiopicDate
    <2>3. Dates!EthiopicToJdn(<<y, m, d + 1>>)
              = Dates!Epoch + 365 * y + y \div 4 + 30 * (m - 1) + ((d + 1) - 1)
      BY <1>4, EthiopicForth
    <2> QED
      BY <1>4, <1>6, <1>7, <1>8, <2>2, <2>3 DEF Dates!Epoch
  <1>9. CASE ~(d < l) /\ m < 13
    <2>1. m + 1 \in 1..13 /\ 1 \in 1..Dates!EthiopicMonthLength(y, m + 1) /\ d = 30
      BY <1>4, <1>9 DEF Dates!EthiopicMonthLength
    <2>2. EthiopicDate(<<y, m + 1, 1>>)
      BY <2>1 DEF EthiopicDate
    <2>3. Dates!EthiopicToJdn(<<y, m + 1, 1>>)
              = Dates!Epoch + 365 * y + y \div 4 + 30 * ((m + 1) - 1) + (1 - 1)
      BY <2>1, EthiopicForth
    <2> QED
      BY <1>6, <1>7, <1>9, <2>1, <2>2, <2>3 DEF Dates!Epoch
  <1>10. CASE ~(d < l) /\ ~(m < 13)
    <2>1. y + 1 \in Nat \ {0} /\ 1 \in 1..13 /\ 1 \in 1..Dates!EthiopicMonthLength(y + 1, 1)
          /\ m = 13 /\ d = l
      BY <1>4, <1>10 DEF Dates!EthiopicMonthLength
    <2>2. EthiopicDate(<<y + 1, 1, 1>>)
      BY <2>1 DEF EthiopicDate
    <2>3. Dates!EthiopicToJdn(<<y + 1, 1, 1>>)
              = Dates!Epoch + 365 * (y + 1) + (y + 1) \div 4 + 30 * (1 - 1) + (1 - 1)
      BY <2>1, EthiopicForth
    <2>4. (y + 1) \div 4 = (y \div 4) + (IF y % 4 = 3 THEN 1 ELSE 0)
      OBVIOUS
    <2> QED
      BY <1>4, <1>6, <1>7, <1>10, <2>1, <2>2, <2>3, <2>4 DEF Dates!Epoch
  <1> QED
    BY <1>8, <1>9, <1>10

\* The Gregorian arithmetic counts years from March, so that the leap day ends
\* one: LeapEnds says of such a year that it has it.
MarchYear(y, m) == IF m <= 2 THEN y + 4799 ELSE y + 4800
MarchMonth(m) == IF m <= 2 THEN m + 9 ELSE m - 3
LeapEnds(w) == ((w + 1) % 4 = 0 /\ (w + 1) % 100 # 0) \/ (w + 1) % 400 = 0
Before(w) == 365 * w + w \div 4 - w \div 100 + w \div 400

LEMMA GregorianForth ==
    ASSUME NEW y \in Nat, NEW m \in 1..12, NEW d \in Int
    PROVE  Dates!GregorianToJdn(<<y, m, d>>)
               = d + (153 * MarchMonth(m) + 2) \div 5 + Before(MarchYear(y, m)) - 32045
  <1>1. CASE m <= 2
    <2>1. (14 - m) \div 12 = 1
      BY <1>1
    <2>2. m + 12 * 1 - 3 = m + 9 /\ y + 4800 - 1 = y + 4799
      OBVIOUS
    <2> QED
      BY <1>1, <2>1, <2>2 DEF Dates!GregorianToJdn, MarchMonth, MarchYear, Before
  <1>2. CASE m > 2
    <2>1. (14 - m) \div 12 = 0
      BY <1>2
    <2>2. m + 12 * 0 - 3 = m - 3 /\ y + 4800 - 0 = y + 4800
      OBVIOUS
    <2> QED
      BY <1>2, <2>1, <2>2 DEF Dates!GregorianToJdn, MarchMonth, MarchYear, Before
  <1> QED
    BY <1>1, <1>2

\* A year is a number of four-century, century, four-year cycles and years.
Split(w, q, g, k, s) ==
    /\ w = 400 * q + 100 * g + 4 * k + s
    /\ Before(w) = 146097 * q + 36524 * g + 1461 * k + 365 * s
    /\ LeapEnds(w) <=> s = 3 /\ (k = 24 => g = 3)

LEMMA Cycles ==
    ASSUME NEW w \in Nat
    PROVE  \E q \in Nat, g \in 0..3, k \in 0..24, s \in 0..3 : Split(w, q, g, k, s)
  <1>1. PICK q \in Nat, u \in 0..399 : w = 400 * q + u
    <2>1. w \div 400 \in Nat /\ w % 400 \in 0..399 /\ w = 400 * (w \div 400) + (w % 400)
      OBVIOUS
    <2> QED
      BY <2>1
  <1>2. PICK g \in 0..3, v \in 0..99 : u = 100 * g + v
    <2>1. u \div 100 \in 0..3 /\ u % 100 \in 0..99 /\ u = 100 * (u \div 100) + (u % 100)
      OBVIOUS
    <2> QED
      BY <2>1
  <1>3. PICK k \in 0..24, s \in 0..3 : v = 4 * k + s
    <2>1. v \div 4 \in 0..24 /\ v % 4 \in 0..3 /\ v = 4 * (v \div 4) + (v % 4)
      OBVIOUS
    <2> QED
      BY <2>1
  <1>4. w = 400 * q + 100 * g + 4 * k + s
    BY <1>1, <1>2, <1>3
  <1>5. w \div 4 = 100 * q + 25 * g + k /\ w \div 100 = 4 * q + g /\ w \div 400 = q
    BY <1>4
  <1>6. Before(w) = 146097 * q + 36524 * g + 1461 * k + 365 * s
    BY <1>4, <1>5 DEF Before
  <1>7. (w + 1) % 4 = 0 <=> s = 3
    BY <1>4
  <1>8. (w + 1) % 100 = 0 <=> s = 3 /\ k = 24
    BY <1>4
  <1>9. (w + 1) % 400 = 0 <=> s = 3 /\ k = 24 /\ g = 3
    BY <1>4
  <1>10. LeapEnds(w) <=> s = 3 /\ (k = 24 => g = 3)
    <2> DEFINE four == (w + 1) % 4
               hundred == (w + 1) % 100
               all400 == (w + 1) % 400
    <2>1. LeapEnds(w) <=> (four = 0 /\ hundred # 0) \/ all400 = 0
      BY Zenon DEF LeapEnds
    <2>2. /\ four = 0 <=> s = 3
          /\ hundred = 0 <=> s = 3 /\ k = 24
          /\ all400 = 0 <=> s = 3 /\ k = 24 /\ g = 3
      BY <1>7, <1>8, <1>9, Zenon
    <2> HIDE DEF four, hundred, all400
    <2> QED
      BY <2>1, <2>2
  <1>11. Split(w, q, g, k, s)
    BY SMT, <1>4, <1>6, <1>10 DEF Split
  <1> QED
    BY <1>11

\* A century is a day short of 36525, but for the last of four; a year a day
\* short of 366, but for the last of four.
CenturyParts(a, q, g, x) ==
    /\ {a, q, g, x} \subseteq Int /\ 0 <= g /\ g <= 3 /\ 0 <= x /\ x <= 36524
    /\ x = 36524 => g = 3
    /\ a = 146097 * q + 36524 * g + x
YearParts(x, k, s, n) ==
    /\ {x, k, s, n} \subseteq Int /\ 0 <= s /\ s <= 3 /\ 0 <= n /\ n <= 365
    /\ n = 365 => s = 3
    /\ x = 1461 * k + 365 * s + n

LEMMA CenturyBack ==
    ASSUME NEW a, NEW q, NEW g, NEW x, CenturyParts(a, q, g, x)
    PROVE  Dates!Century(a) = 4 * q + g /\ Dates!InCentury(a) = x
  <1> /\ a \in Int /\ q \in Int /\ g \in Int /\ x \in Int
      /\ 0 <= g /\ g <= 3 /\ 0 <= x /\ x <= 36524
      /\ x = 36524 => g = 3
      /\ a = 146097 * q + 36524 * g + x
    BY SMT DEF CenturyParts
  <1>1. PICK u \in Int : u = 4 * q + g
    BY SMT
  <1>2. PICK v \in Int : v = 4 * x + 3 - g
    BY SMT
  <1>3. 0 <= v
    BY SMT, <1>2
  <1>4. v <= 146096
    BY SMT, <1>2
  <1>5. 4 * a + 3 = 146097 * (4 * q + g) + (4 * x + 3 - g)
    BY SMT
  <1>6. 4 * a + 3 = 146097 * u + v
    BY SMT, <1>1, <1>2, <1>5
  <1>7. \A t \in Int : t = 146097 * u + v => t \div 146097 = u
    BY SMT, <1>3, <1>4
  <1>8. 4 * a + 3 \in Int
    BY SMT
  <1>9. Dates!Century(a) = u
    BY SMT, <1>6, <1>7, <1>8 DEF Dates!Century
  <1>10. (146097 * u) \div 4 = 146097 * q + 36524 * g
    BY SMT, <1>1
  <1>11. Dates!InCentury(a) = x
    <2>1. Dates!InCentury(a) = a - (146097 * u) \div 4
      BY SMT, <1>9 DEF Dates!InCentury
    <2>2. a - (146097 * q + 36524 * g) = x
      BY SMT
    <2> QED
      BY SMT, <1>10, <2>1, <2>2
  <1> QED
    BY SMT, <1>1, <1>9, <1>11

LEMMA YearOfCenturyBack ==
    ASSUME NEW x, NEW k, NEW s, NEW n, YearParts(x, k, s, n)
    PROVE  Dates!YearOf(x) = 4 * k + s /\ Dates!InYear(x) = n
  <1> /\ x \in Int /\ k \in Int /\ s \in Int /\ n \in Int
      /\ 0 <= s /\ s <= 3 /\ 0 <= n /\ n <= 365
      /\ n = 365 => s = 3
      /\ x = 1461 * k + 365 * s + n
    BY SMT DEF YearParts
  <1>1. PICK r \in Int : r = 4 * k + s
    BY SMT
  <1>2. PICK z \in Int : z = 4 * n + 3 - s
    BY SMT
  <1>3. 0 <= z
    BY SMT, <1>2
  <1>4. z <= 1460
    BY SMT, <1>2
  <1>5. 4 * x + 3 = 1461 * r + z
    BY SMT, <1>1, <1>2
  <1>6. \A t \in Int : t = 1461 * r + z => t \div 1461 = r
    BY SMT, <1>3, <1>4
  <1>7. Dates!YearOf(x) = r
    BY SMT, <1>5, <1>6 DEF Dates!YearOf
  <1>8. (1461 * r) \div 4 = 1461 * k + 365 * s
    BY SMT, <1>1
  <1>9. Dates!InYear(x) = n
    <2>1. Dates!InYear(x) = x - (1461 * r) \div 4
      BY SMT, <1>7 DEF Dates!InYear
    <2>2. x - (1461 * k + 365 * s) = n
      BY SMT
    <2> QED
      BY SMT, <1>8, <2>1, <2>2
  <1> QED
    BY SMT, <1>1, <1>7, <1>9

\* From the number of days since a March to the year, and what is left of it.
DayParts(a, w, n) ==
    w \in Nat /\ n \in 0..365 /\ (n = 365 => LeapEnds(w)) /\ a = Before(w) + n

LEMMA YearBack ==
    ASSUME NEW a, NEW w, NEW n, DayParts(a, w, n)
    PROVE  /\ 100 * Dates!Century(a) + Dates!YearOf(Dates!InCentury(a)) = w
           /\ Dates!InYear(Dates!InCentury(a)) = n
  <1> w \in Nat /\ n \in 0..365 /\ (n = 365 => LeapEnds(w)) /\ a = Before(w) + n
    BY DEF DayParts
  <1>0. PICK q \in Nat, g \in 0..3, k \in 0..24, s \in 0..3 : Split(w, q, g, k, s)
    BY Cycles
  <1>1. /\ w = 400 * q + 100 * g + 4 * k + s
        /\ Before(w) = 146097 * q + 36524 * g + 1461 * k + 365 * s
        /\ LeapEnds(w) <=> s = 3 /\ (k = 24 => g = 3)
    BY SMT, <1>0 DEF Split
  <1>2. PICK x \in Int : x = 1461 * k + 365 * s + n
    BY SMT
  <1>3. 0 <= x
    BY SMT, <1>2
  <1>4. x <= 36524
    BY SMT, <1>2
  <1>5. x = 36524 => g = 3
    <2> SUFFICES ASSUME x = 36524
                 PROVE  g = 3
      OBVIOUS
    <2>1. k = 24
      BY SMT, <1>2
    <2>2. s = 3
      BY SMT, <1>2, <2>1
    <2>3. n = 365
      BY SMT, <1>2, <2>1, <2>2
    <2> QED
      BY SMT, <1>1, <2>1, <2>3
  <1>6. a \in Int
    BY SMT, <1>1
  <1>7. a = 146097 * q + 36524 * g + x
    BY SMT, <1>1, <1>2
  <1>8. CenturyParts(a, q, g, x)
    BY SMT, <1>3, <1>4, <1>5, <1>6, <1>7 DEF CenturyParts
  <1>9. Dates!Century(a) = 4 * q + g /\ Dates!InCentury(a) = x
    BY Zenon, <1>8, CenturyBack
  <1>10. n = 365 => s = 3
    BY SMT, <1>1
  <1>11. YearParts(x, k, s, n)
    BY SMT, <1>2, <1>10 DEF YearParts
  <1>12. Dates!YearOf(x) = 4 * k + s /\ Dates!InYear(x) = n
    BY Zenon, <1>11, YearOfCenturyBack
  <1>13. 100 * (4 * q + g) + (4 * k + s) = w
    BY SMT, <1>1
  <1> QED
    BY SMT, <1>9, <1>12, <1>13

\* The months from March, and the day of such a year.
DayOfYear(m, d) == (153 * MarchMonth(m) + 2) \div 5 + d - 1

MonthParts(y, m, d, n) ==
    /\ n \in 0..365 /\ d \in Nat
    /\ n = 365 => LeapEnds(MarchYear(y, m))
    /\ (5 * n + 2) \div 153 = MarchMonth(m)
    /\ MarchMonth(m) + 3 - 12 * (MarchMonth(m) \div 10) = m
    /\ MarchYear(y, m) - 4800 + MarchMonth(m) \div 10 = y

LEMMA MonthBack ==
    ASSUME NEW y \in Nat \ {0}, NEW m \in 1..12, NEW d \in 1..Dates!GregorianMonthLength(y, m)
    PROVE  MonthParts(y, m, d, DayOfYear(m, d))
  <1> DEFINE n == DayOfYear(m, d)
  <1>11. n = (153 * MarchMonth(m) + 2) \div 5 + d - 1
    BY DEF DayOfYear
  <1> HIDE DEF n
  <1>1. PICK l : l = Dates!GregorianMonthLength(y, m)
    OBVIOUS
  <1>2. /\ l \in 28..31 /\ d \in 1..l
        /\ m = 2 => l = IF LeapEnds(MarchYear(y, m)) THEN 29 ELSE 28
        /\ m \in {4, 6, 9, 11} => l = 30
    <2>1. m = 2 => /\ MarchYear(y, m) + 1 = y + 4800
                   /\ (y + 4800) % 4 = y % 4 /\ (y + 4800) % 100 = y % 100
                   /\ (y + 4800) % 400 = y % 400
      BY DEF MarchYear
    <2> QED
      BY <1>1, <2>1 DEF Dates!GregorianMonthLength, LeapEnds
  <1>3. d \in 1..31
    BY <1>2
  <1>4. MarchYear(y, m) - 4800 + MarchMonth(m) \div 10 = y
    BY DEF MarchYear, MarchMonth
  <1>5. MarchMonth(m) + 3 - 12 * (MarchMonth(m) \div 10) = m
    BY DEF MarchMonth
  <1>6. PICK p : p = MarchMonth(m)
    OBVIOUS
  <1>7. p \in 0..11 /\ (m = 2 <=> p = 11) /\ (m = 4 <=> p = 1) /\ (m = 6 <=> p = 3)
        /\ (m = 9 <=> p = 6) /\ (m = 11 <=> p = 8)
    BY <1>6 DEF MarchMonth
  <1>8. (153 * p + 2) \div 5 =
            IF p = 0 THEN 0 ELSE IF p = 1 THEN 31 ELSE IF p = 2 THEN 61 ELSE IF p = 3 THEN 92
            ELSE IF p = 4 THEN 122 ELSE IF p = 5 THEN 153 ELSE IF p = 6 THEN 184
            ELSE IF p = 7 THEN 214 ELSE IF p = 8 THEN 245 ELSE IF p = 9 THEN 275
            ELSE IF p = 10 THEN 306 ELSE 337
    BY <1>7
  <1>9. n \in 0..365 /\ (n = 365 => m = 2 /\ d = 29)
    BY <1>2, <1>3, <1>6, <1>7, <1>8, <1>11
  <1>10. (5 * n + 2) \div 153 = p
    <2>1. PICK o \in Int, i \in 0..4 : 153 * p + 2 = 5 * o + i /\ o = (153 * p + 2) \div 5
                                      /\ i = (153 * p + 2) % 5
      BY <1>7
    <2>2. d = 31 => p \in {0, 2, 4, 5, 7, 9, 10}
      BY <1>2, <1>7
    <2>3. d = 31 => i >= 2
      BY <2>1, <2>2
    <2>4. PICK v \in Int : v = 5 * d - 1 - i
      BY <1>3
    <2>5. 0 <= v /\ v <= 152
      BY <1>3, <2>3, <2>4
    <2>6. 5 * n + 2 = 153 * p + v
      <3>1. n = o + d - 1
        BY <1>3, <1>6, <1>11, <2>1
      <3>2. 5 * n + 2 = 5 * o + 5 * d - 3
        BY <1>3, <2>1, <3>1
      <3> QED
        BY <1>3, <1>7, <2>1, <2>4, <3>2
    <2>7. \A t \in Int : t = 153 * p + v => t \div 153 = p
      BY <1>7, <2>5
    <2> QED
      BY <1>9, <2>6, <2>7
  <1> QED
    BY <1>2, <1>3, <1>4, <1>5, <1>6, <1>7, <1>9, <1>10 DEF n, MonthParts

LEMMA GregorianBack ==
    ASSUME NEW y \in Nat \ {0}, NEW m \in 1..12, NEW d \in 1..Dates!GregorianMonthLength(y, m)
    PROVE  Dates!JdnToGregorian(Dates!GregorianToJdn(<<y, m, d>>)) = <<y, m, d>>
  <1> DEFINE n == DayOfYear(m, d)
  <1>1. n = DayOfYear(m, d)
    OBVIOUS
  <1>0. MonthParts(y, m, d, n)
    BY Zenon, MonthBack
  <1> HIDE DEF n
  <1>2. /\ n \in 0..365 /\ (n = 365 => LeapEnds(MarchYear(y, m)))
        /\ (5 * n + 2) \div 153 = MarchMonth(m)
        /\ MarchMonth(m) + 3 - 12 * (MarchMonth(m) \div 10) = m
        /\ MarchYear(y, m) - 4800 + MarchMonth(m) \div 10 = y
        /\ d \in Nat
    BY SMT, <1>0 DEF MonthParts
  <1>3. PICK w \in Nat : w = MarchYear(y, m)
    BY SMT DEF MarchYear
  <1>4. PICK p \in 0..11 : p = MarchMonth(m)
    BY DEF MarchMonth
  <1>5. PICK j : j = Dates!GregorianToJdn(<<y, m, d>>)
    OBVIOUS
  <1>6. n = (153 * p + 2) \div 5 + d - 1
    BY <1>1, <1>4 DEF DayOfYear
  <1>7. DayParts(j + 32044, w, n)
    <2>1. j = d + (153 * p + 2) \div 5 + Before(w) - 32045
      <3>1. y \in Nat /\ d \in Int
        BY SMT, <1>2
      <3>2. j = d + (153 * MarchMonth(m) + 2) \div 5 + Before(MarchYear(y, m)) - 32045
        BY SMT, <1>5, <3>1, GregorianForth
      <3> QED
        BY SMT, <1>3, <1>4, <3>2
    <2>2. Before(w) \in Int
      BY DEF Before
    <2>3. j + 32044 = Before(w) + n
      BY SMT, <1>2, <1>4, <1>6, <2>1, <2>2
    <2> QED
      BY SMT, <1>2, <1>3, <2>3 DEF DayParts
  <1>8. PICK a : a = j + 32044
    OBVIOUS
  <1>9. /\ 100 * Dates!Century(a) + Dates!YearOf(Dates!InCentury(a)) = w
        /\ Dates!InYear(Dates!InCentury(a)) = n
    BY <1>7, <1>8, YearBack
  <1>10. Dates!JdnToGregorian(j) = Dates!FromMarch(w, n)
    BY SMT, <1>8, <1>9 DEF Dates!JdnToGregorian
  <1>11. (5 * n + 2) \div 153 = p
    BY <1>2, <1>4
  <1>12. n - (153 * p + 2) \div 5 + 1 = d
    BY <1>2, <1>4, <1>6
  <1>13. Dates!FromMarch(w, n) =
             <<w - 4800 + p \div 10, p + 3 - 12 * (p \div 10), n - (153 * p + 2) \div 5 + 1>>
    BY SMT, <1>11 DEF Dates!FromMarch, Dates!Date
  <1> QED
    BY SMT, <1>2, <1>3, <1>4, <1>5, <1>10, <1>12, <1>13

LEMMA BeforeNext ==
    ASSUME NEW w \in Nat
    PROVE  Before(w + 1) = Before(w) + (IF LeapEnds(w) THEN 366 ELSE 365) /\ Before(w) \in Int
  <1>1. PICK v \in Nat : v = w + 1
    BY SMT
  <1>2. v \div 4 = w \div 4 + (IF v % 4 = 0 THEN 1 ELSE 0)
    BY SMT, <1>1
  <1>3. v \div 100 = w \div 100 + (IF v % 100 = 0 THEN 1 ELSE 0)
    BY SMT, <1>1
  <1>4. v \div 400 = w \div 400 + (IF v % 400 = 0 THEN 1 ELSE 0)
    BY SMT, <1>1
  <1>5. (v % 400 = 0 => v % 100 = 0) /\ (v % 100 = 0 => v % 4 = 0)
    BY SMT
  <1>6. PICK f \in Int, h \in Int, q \in Int : f = w \div 4 /\ h = w \div 100 /\ q = w \div 400
    BY SMT
  <1>7. Before(w) = 365 * w + f - h + q
    BY SMT, <1>6 DEF Before
  <1>8. Before(v) = 365 * v + v \div 4 - v \div 100 + v \div 400
    BY SMT DEF Before
  <1>9. LeapEnds(w) <=> (v % 4 = 0 /\ v % 100 # 0) \/ v % 400 = 0
    BY SMT, <1>1 DEF LeapEnds
  <1>10. Before(v) = Before(w) + (IF LeapEnds(w) THEN 366 ELSE 365)
    BY SMT, <1>1, <1>2, <1>3, <1>4, <1>5, <1>6, <1>7, <1>8, <1>9
  <1> QED
    BY SMT, <1>1, <1>6, <1>7, <1>10

\* The two ways to tell the length of a month agree.
LEMMA SameLength ==
    ASSUME NEW y \in Nat, NEW m \in 1..12
    PROVE  /\ Dates!MonthDays[m] + (IF m = 2 /\ Dates!Leap(y) THEN 1 ELSE 0)
                  = Dates!GregorianMonthLength(y, m)
           /\ Dates!GregorianMonthLength(y, m) \in 28..31
           /\ m \in {4, 6, 9, 11} => Dates!GregorianMonthLength(y, m) = 30
           /\ m \in {1, 3, 5, 7, 8, 10, 12} => Dates!GregorianMonthLength(y, m) = 31
           /\ m = 2 => Dates!GregorianMonthLength(y, m) = IF Dates!Leap(y) THEN 29 ELSE 28
  <1>1. Dates!Leap(y) <=> (y % 4 = 0 /\ y % 100 # 0) \/ y % 400 = 0
    <2>1. y % 400 = 0 => y % 4 = 0
      BY SMT
    <2> QED
      BY SMT, <2>1 DEF Dates!Leap
  <1>2. Dates!GregorianMonthLength(y, m) =
            IF m = 2 THEN IF Dates!Leap(y) THEN 29 ELSE 28
            ELSE IF m \in {4, 6, 9, 11} THEN 30 ELSE 31
    BY SMT, <1>1 DEF Dates!GregorianMonthLength
  <1>3. Dates!MonthDays[m] = IF m = 2 THEN 28 ELSE IF m \in {4, 6, 9, 11} THEN 30 ELSE 31
    <2>1. m \in {1, 2, 3, 4, 5, 6, 7, 8, 9, 10, 11, 12}
      BY SMT
    <2> QED
      BY SMT, <2>1 DEF Dates!MonthDays
  <1> QED
    BY SMT, <1>2, <1>3

\* The first of the next month follows the last day of a month.
LEMMA NextMonth ==
    ASSUME NEW y \in Nat \ {0}, NEW m \in 1..11
    PROVE  Dates!GregorianToJdn(<<y, m + 1, 1>>)
               = Dates!GregorianToJdn(<<y, m, Dates!GregorianMonthLength(y, m)>>) + 1
  <1>1. PICK l \in 28..31 : l = Dates!GregorianMonthLength(y, m)
    BY SMT, SameLength
  <1>2. /\ m \in {4, 6, 9, 11} => l = 30
        /\ m \in {1, 3, 5, 7, 8, 10} => l = 31
        /\ m = 2 => l = IF Dates!Leap(y) THEN 29 ELSE 28
    BY SMT, <1>1, SameLength
  <1>3. PICK w \in Nat, v \in Nat : w = MarchYear(y, m) /\ v = MarchYear(y, m + 1)
    BY SMT DEF MarchYear
  <1>4. PICK p \in 0..11, r \in 0..11 : p = MarchMonth(m) /\ r = MarchMonth(m + 1)
    BY SMT DEF MarchMonth
  <1>5. Dates!GregorianToJdn(<<y, m, l>>) = l + (153 * p + 2) \div 5 + Before(w) - 32045
    <2>1. m \in 1..12 /\ y \in Nat
      BY SMT
    <2> QED
      BY SMT, <1>3, <1>4, <2>1, GregorianForth
  <1>6. Dates!GregorianToJdn(<<y, m + 1, 1>>) = 1 + (153 * r + 2) \div 5 + Before(v) - 32045
    <2>1. m + 1 \in 1..12
      BY SMT
    <2> QED
      BY SMT, <1>3, <1>4, <2>1, GregorianForth
  <1>7. Before(w) \in Int /\ Before(w + 1) = Before(w) + (IF LeapEnds(w) THEN 366 ELSE 365)
    BY SMT, BeforeNext
  <1>8. CASE m = 2
    <2>1. w + 1 = y + 4800 /\ v = w + 1 /\ p = 11 /\ r = 0
      BY SMT, <1>3, <1>4, <1>8 DEF MarchYear, MarchMonth
    <2>2. LeapEnds(w) <=> Dates!Leap(y)
      <3>1. (y + 4800) % 4 = y % 4 /\ (y + 4800) % 100 = y % 100 /\ (y + 4800) % 400 = y % 400
        BY SMT
      <3>2. y % 400 = 0 => y % 4 = 0
        BY SMT
      <3> QED
        BY SMT, <2>1, <3>1, <3>2 DEF LeapEnds, Dates!Leap
    <2>3. (153 * 11 + 2) \div 5 = 337 /\ (153 * 0 + 2) \div 5 = 0
      BY SMT
    <2> QED
      BY SMT, <1>1, <1>2, <1>5, <1>6, <1>7, <1>8, <2>1, <2>2, <2>3
  <1>9. CASE m # 2
    <2>1. v = w
      BY SMT, <1>3, <1>9 DEF MarchYear
    <2>2. (153 * r + 2) \div 5 = (153 * p + 2) \div 5 + l
      <3>1. m \in {1, 3, 4, 5, 6, 7, 8, 9, 10, 11}
        BY SMT, <1>9
      <3>2. p = (IF m <= 2 THEN m + 9 ELSE m - 3) /\ r = (IF m + 1 <= 2 THEN m + 10 ELSE m - 2)
        BY SMT, <1>4 DEF MarchMonth
      <3> QED
        BY SMT, <1>2, <3>1, <3>2
    <2> QED
      BY SMT, <1>1, <1>5, <1>6, <1>7, <2>1, <2>2
  <1> QED
    BY <1>8, <1>9

LEMMA NextYear ==
    ASSUME NEW y \in Nat \ {0}
    PROVE  Dates!GregorianToJdn(<<y + 1, 1, 1>>) = Dates!GregorianToJdn(<<y, 12, 31>>) + 1
  <1>1. MarchYear(y, 12) = y + 4800 /\ MarchYear(y + 1, 1) = y + 4800
    BY SMT DEF MarchYear
  <1>2. MarchMonth(12) = 9 /\ MarchMonth(1) = 10
    BY SMT DEF MarchMonth
  <1>3. (153 * 9 + 2) \div 5 = 275 /\ (153 * 10 + 2) \div 5 = 306
    BY SMT
  <1>4. Dates!GregorianToJdn(<<y, 12, 31>>) = 31 + 275 + Before(y + 4800) - 32045
    BY SMT, <1>1, <1>2, <1>3, GregorianForth
  <1>5. Dates!GregorianToJdn(<<y + 1, 1, 1>>) = 1 + 306 + Before(y + 4800) - 32045
    <2>1. y + 1 \in Nat
      BY SMT
    <2> QED
      BY SMT, <1>1, <1>2, <1>3, <2>1, GregorianForth
  <1>6. Before(y + 4800) \in Int
    BY SMT DEF Before
  <1> QED
    BY SMT, <1>4, <1>5, <1>6

LEMMA GregorianTomorrow ==
    ASSUME NEW t, GregorianDate(t)
    PROVE  /\ GregorianDate(Dates!NextGregorian(t))
           /\ Dates!GregorianToJdn(Dates!NextGregorian(t)) = Dates!GregorianToJdn(t) + 1
  <1>1. PICK y \in Nat \ {0}, m \in 1..12 : \E d \in 1..Dates!GregorianMonthLength(y, m) :
            t = <<y, m, d>>
    BY DEF GregorianDate
  <1>2. PICK d \in 1..Dates!GregorianMonthLength(y, m) : t = <<y, m, d>>
    BY <1>1
  <1>3. PICK l \in 28..31 : l = Dates!GregorianMonthLength(y, m)
    BY SMT, SameLength
  <1>4. d \in 1..l
    BY <1>3
  <1>5. Dates!NextGregorian(t) = IF d < l THEN <<y, m, d + 1>>
                                 ELSE IF m < 12 THEN <<y, m + 1, 1>> ELSE <<y + 1, 1, 1>>
    <2>1. Dates!MonthDays[m] + (IF m = 2 /\ Dates!Leap(y) THEN 1 ELSE 0) = l
      BY SMT, <1>3, SameLength
    <2>2. t[1] = y /\ t[2] = m /\ t[3] = d
      BY <1>2
    <2> QED
      BY <2>1, <2>2 DEF Dates!NextGregorian, Dates!Following, Dates!Date
  <1>6. CASE d < l
    <2>1. d + 1 \in 1..Dates!GregorianMonthLength(y, m)
      BY SMT, <1>3, <1>4, <1>6
    <2>2. GregorianDate(<<y, m, d + 1>>)
      BY <2>1 DEF GregorianDate
    <2>3. PICK b \in Int : b = Before(MarchYear(y, m))
      BY SMT DEF MarchYear, Before
    <2>4. PICK o \in Int : o = (153 * MarchMonth(m) + 2) \div 5
      BY SMT DEF MarchMonth
    <2>5. Dates!GregorianToJdn(<<y, m, d + 1>>) = (d + 1) + o + b - 32045
      BY SMT, <1>4, <2>3, <2>4, GregorianForth
    <2>6. Dates!GregorianToJdn(t) = d + o + b - 32045
      BY SMT, <1>2, <1>4, <2>3, <2>4, GregorianForth
    <2> QED
      BY SMT, <1>4, <1>5, <1>6, <2>2, <2>3, <2>4, <2>5, <2>6
  <1>7. CASE ~(d < l) /\ m < 12
    <2>1. m \in 1..11 /\ m + 1 \in 1..12 /\ d = l
      BY SMT, <1>4, <1>7
    <2>2. 1 \in 1..Dates!GregorianMonthLength(y, m + 1)
      <3>1. Dates!GregorianMonthLength(y, m + 1) \in 28..31
        BY SMT, <2>1, SameLength
      <3> QED
        BY SMT, <3>1
    <2>3. GregorianDate(<<y, m + 1, 1>>)
      BY <2>1, <2>2 DEF GregorianDate
    <2> QED
      BY <1>2, <1>3, <1>5, <1>7, <2>1, <2>3, NextMonth
  <1>8. CASE ~(d < l) /\ ~(m < 12)
    <2>1. m = 12 /\ d = l /\ y + 1 \in Nat \ {0}
      BY SMT, <1>4, <1>8
    <2>2. d = 31
      BY SMT, <1>3, <2>1, SameLength
    <2>3. 1 \in 1..Dates!GregorianMonthLength(y + 1, 1)
      BY SMT, <2>1 DEF Dates!GregorianMonthLength
    <2>4. GregorianDate(<<y + 1, 1, 1>>)
      BY <2>1, <2>3 DEF GregorianDate
    <2> QED
      BY <1>2, <1>5, <1>8, <2>1, <2>2, <2>4, NextYear
  <1> QED
    BY <1>6, <1>7, <1>8

\* The walk: two dates of one day.
DatesInv ==
    /\ GregorianDate(greg) /\ EthiopicDate(eth) /\ walked \in 0..Span
    /\ Dates!GregorianToJdn(greg) = Dates!EthiopicToJdn(eth)

\* The pairs a walk begins with name one day.
AnchorsHold ==
    \A p \in Anchors : /\ GregorianDate(p[1]) /\ EthiopicDate(p[2])
                       /\ Dates!GregorianToJdn(p[1]) = Dates!EthiopicToJdn(p[2])

LEMMA DatesStart == ASSUME AnchorsHold, Dates!Init PROVE DatesInv
  <1>1. PICK p \in Anchors : greg = p[1] /\ eth = p[2] /\ walked = 0
    BY DEF Dates!Init
  <1>2. 0 \in 0..Span
    BY SMT, PartsAssumption
  <1> QED
    BY <1>1, <1>2 DEF AnchorsHold, DatesInv

LEMMA DatesStep == ASSUME DatesInv, Dates!Next \/ UNCHANGED calendar PROVE DatesInv'
  <1>1. CASE Dates!Next
    <2>1. walked < Span /\ greg' = Dates!NextGregorian(greg) /\ eth' = Dates!NextEthiopic(eth)
          /\ walked' = walked + 1
      BY <1>1 DEF Dates!Next, Dates!Tomorrow
    <2>2. walked' \in 0..Span
      BY SMT, <2>1, PartsAssumption DEF DatesInv
    <2>3. /\ GregorianDate(Dates!NextGregorian(greg))
          /\ Dates!GregorianToJdn(Dates!NextGregorian(greg)) = Dates!GregorianToJdn(greg) + 1
      BY Zenon, GregorianTomorrow DEF DatesInv
    <2>4. /\ EthiopicDate(Dates!NextEthiopic(eth))
          /\ Dates!EthiopicToJdn(Dates!NextEthiopic(eth)) = Dates!EthiopicToJdn(eth) + 1
      BY Zenon, EthiopicTomorrow DEF DatesInv
    <2> DEFINE G == Dates!NextGregorian(greg)
               E == Dates!NextEthiopic(eth)
    <2>5. greg' = G /\ eth' = E
      BY <2>1
    <2>6. GregorianDate(G) /\ EthiopicDate(E) /\ Dates!GregorianToJdn(G) = Dates!EthiopicToJdn(E)
      BY <2>3, <2>4 DEF DatesInv
    <2> HIDE DEF G, E
    <2>7. GregorianDate(greg') /\ EthiopicDate(eth')
          /\ Dates!GregorianToJdn(greg') = Dates!EthiopicToJdn(eth')
      BY Zenon, <2>5, <2>6
    <2>8. (Dates!GregorianToJdn(greg) = Dates!EthiopicToJdn(eth))'
          <=> Dates!GregorianToJdn(greg') = Dates!EthiopicToJdn(eth')
      BY DEF Dates!GregorianToJdn, Dates!EthiopicToJdn
    <2>9. GregorianDate(greg)' /\ EthiopicDate(eth)'
      BY Zenon, <2>7 DEF GregorianDate, EthiopicDate
    <2> QED
      BY Zenon, <2>2, <2>7, <2>8, <2>9 DEF DatesInv
  <1>2. CASE UNCHANGED calendar
    BY <1>2 DEF calendar, DatesInv, GregorianDate, EthiopicDate, Dates!GregorianToJdn, Dates!EthiopicToJdn
  <1> QED
    BY <1>1, <1>2

LEMMA DatesSound == ASSUME DatesInv PROVE Dates!TypeOK /\ Dates!CalendarsAgree
  <1>1. PICK y \in Nat \ {0}, m \in 1..12 : \E d \in 1..Dates!GregorianMonthLength(y, m) :
            greg = <<y, m, d>>
    BY DEF DatesInv, GregorianDate
  <1>2. PICK d \in 1..Dates!GregorianMonthLength(y, m) : greg = <<y, m, d>>
    BY <1>1
  <1>3. PICK u \in Nat \ {0}, v \in 1..13 : \E x \in 1..Dates!EthiopicMonthLength(u, v) :
            eth = <<u, v, x>>
    BY DEF DatesInv, EthiopicDate
  <1>4. PICK x \in 1..Dates!EthiopicMonthLength(u, v) : eth = <<u, v, x>>
    BY <1>3
  <1>5. Dates!JdnToGregorian(Dates!GregorianToJdn(greg)) = greg
    BY Zenon, <1>2, GregorianBack
  <1>6. Dates!JdnToEthiopic(Dates!EthiopicToJdn(eth)) = eth
    BY Zenon, <1>4, EthiopicBack
  <1>7. /\ x \in Nat /\ Dates!ValidEthiopic(eth)
        /\ ~Dates!ValidEthiopic(<<u, v, Dates!EthiopicMonthLength(u, v) + 1>>)
    BY Zenon, <1>4, EthiopicDays
  <1>8. Dates!GregorianToEthiopic(greg) = eth /\ Dates!EthiopicToGregorian(eth) = {greg}
    BY Zenon, <1>5, <1>6, <1>7 DEF DatesInv, Dates!GregorianToEthiopic, Dates!EthiopicToGregorian
  <1>9. Dates!EcToGc(eth) = {greg}
    BY Zenon, <1>8 DEF Dates!EcToGc
  <1>10. greg[1] = y /\ greg[2] = m /\ greg[3] = d /\ eth[1] = u /\ eth[2] = v
    BY <1>2, <1>4
  <1>11. Dates!GcToEc(greg) = {eth}
    BY <1>2, <1>8, <1>10 DEF Dates!GcToEc, Dates!ValidGregorian
  <1>12. d \in Nat
    BY SMT, SameLength
  <1>13. Dates!TypeOK
    BY <1>2, <1>4, <1>7, <1>12 DEF Dates!TypeOK, DatesInv
  <1>14. ~Dates!ValidEthiopic(Dates!Date(eth[1], eth[2],
                                         Dates!EthiopicMonthLength(eth[1], eth[2]) + 1))
    BY <1>7, <1>10 DEF Dates!Date
  <1> QED
    BY Zenon, <1>7, <1>8, <1>9, <1>11, <1>13, <1>14 DEF Dates!CalendarsAgree

LEMMA AnchorsAreDays == AnchorsHold
  <1> SUFFICES ASSUME NEW p \in Anchors
               PROVE  /\ GregorianDate(p[1]) /\ EthiopicDate(p[2])
                      /\ Dates!GregorianToJdn(p[1]) = Dates!EthiopicToJdn(p[2])
    BY DEF AnchorsHold
  <1>1. Dates!OneDay(p)
    BY PartsAssumption
  <1>2. p[1] \in Dates!AnyDate /\ p[2] \in Dates!AnyDate
    BY <1>1 DEF Dates!OneDay
  <1>3. GregorianDate(p[1])
    <2>1. PICK y \in Nat, m \in Nat, d \in Nat : p[1] = <<y, m, d>>
      BY <1>2 DEF Dates!AnyDate
    <2>2. y >= 1 /\ m \in 1..12 /\ d \in 1..Dates!GregorianMonthLength(y, m)
      BY <1>1, <2>1 DEF Dates!OneDay, Dates!ValidGregorian
    <2> QED
      BY <2>1, <2>2 DEF GregorianDate
  <1>4. EthiopicDate(p[2])
    <2>1. PICK y \in Nat, m \in Nat, d \in Nat : p[2] = <<y, m, d>>
      BY <1>2 DEF Dates!AnyDate
    <2>2. y >= 1 /\ m \in 1..13 /\ d \in 1..Dates!EthiopicMonthLength(y, m)
      BY <1>1, <2>1 DEF Dates!OneDay, Dates!ValidEthiopic
    <2> QED
      BY <2>1, <2>2 DEF EthiopicDate
  <1> QED
    BY <1>1, <1>3, <1>4 DEF Dates!OneDay

-----------------------------------------------------------------------------
(* The rules of the forms (FormRules).                                      *)

\* A row that the browser does not hold back is taken by the server.
LEMMA RowAccepted ==
    ASSUME today \in Int,
           NEW row_ \in Forms!Rows, NEW here \in {today, today + 1},
           Forms!RowProblems(row_, here) = {}
    PROVE  Forms!RegIdsAccepted(<<row_>>)
  <1>1. /\ ~(row_.type # Forms!Unchosen /\ row_.value = <<>>)
        /\ ~(/\ row_.value # <<>>
             /\ \/ row_.type = "UID" /\ row_.value[1] \notin {12, 16}
                \/ row_.type = "RID" /\ (row_.value[1] # 29 \/ Forms!Prefixed(row_)))
        /\ ~(row_.status = "VALID" /\ row_.expiry # Forms!None /\ row_.expiry < here)
    BY Zenon DEF Forms!RowProblems
  <1>2. row_.expiry \in {Forms!None, today - 1, today, today + 1} /\ row_.removed = FALSE
    BY DEF Forms!Rows
  <1>3. Forms!ValueRequired(row_)
    BY <1>1 DEF Forms!ValueRequired
  <1>4. Forms!ValueFormat(row_)
    BY <1>1 DEF Forms!ValueFormat
  <1>5. Forms!NotExpiredWhenValid(row_)
    BY <1>1, <1>2, SMT DEF Forms!NotExpiredWhenValid
  <1> DEFINE one == <<row_>>
  <1>6. DOMAIN one = {1} /\ one[1] = row_
    OBVIOUS
  <1>7. Forms!ActiveRecords(one) \subseteq {1}
    BY <1>6 DEF Forms!ActiveRecords
  <1> HIDE DEF one
  <1>8. Forms!RegIdsAccepted(one)
    BY <1>3, <1>4, <1>5, <1>6, <1>7 DEF Forms!RegIdsAccepted, Forms!RejectDuplicates
  <1> QED
    BY <1>8 DEF one

LEMMA CropAccepted ==
    ASSUME NEW row_ \in Forms!Crops, Forms!CropProblems(row_) = {}
    PROVE  Forms!CropsAccepted(<<row_>>, TRUE)
  <1>1. row_["type"] # Forms!Unchosen /\ row_["status"] # Forms!Unchosen
    BY DEF Forms!CropProblems
  <1> DEFINE one == <<row_>>
  <1>2. DOMAIN one = {1} /\ one[1] = row_
    OBVIOUS
  <1>3. Forms!ActiveRecords(one) \subseteq {1}
    BY <1>2 DEF Forms!ActiveRecords
  <1> HIDE DEF one
  <1>4. Forms!CropsAccepted(one, TRUE)
    BY <1>1, <1>2, <1>3 DEF Forms!CropsAccepted, Forms!RejectDuplicates
  <1> QED
    BY <1>4 DEF one

LEMMA BrowserHolds == today \in Int => Forms!BrowserSound
  <1> SUFFICES ASSUME today \in Int PROVE Forms!BrowserSound
    OBVIOUS
  <1>1. \A row_ \in Forms!Rows, here \in {today, today + 1} :
            Forms!RowProblems(row_, here) = {} => Forms!RegIdsAccepted(<<row_>>)
    BY RowAccepted
  <1>2. \A row_ \in Forms!Crops :
            Forms!CropProblems(row_) = {} => Forms!CropsAccepted(<<row_>>, TRUE)
    BY CropAccepted
  <1> QED
    BY <1>1, <1>2, Zenon DEF Forms!BrowserSound

\* A record passes the rules one after the other.
LEMMA RulesInOrder ==
    ASSUME NEW r, NEW i \in BOOLEAN, NEW v
    PROVE  v \in Forms!Validated(r, i) <=>
             \E a \in Forms!NormalizeBooleans(r) :
               \E b \in Forms!NormalizeCoordinates(a) :
                 \E c \in Forms!ValidateNames(b, i) :
                   \E d \in Forms!ValidateBirthDate(c) :
                     \E e \in Forms!SyncDates(d, "birth_date", "birth_date_ec") :
                       \E f \in Forms!PopulateAge(e) :
                         \E g \in Forms!ValidateAge(f) : v \in Forms!SyncGeoNames(g)
  <1> DEFINE A == Forms!NormalizeBooleans(r)
             B == UNION {Forms!NormalizeCoordinates(a) : a \in A}
             C == UNION {Forms!ValidateNames(b, i) : b \in B}
             D == UNION {Forms!ValidateBirthDate(c) : c \in C}
             E == UNION {Forms!SyncDates(d, "birth_date", "birth_date_ec") : d \in D}
             F == UNION {Forms!PopulateAge(e) : e \in E}
             G == UNION {Forms!ValidateAge(f) : f \in F}
             V == UNION {Forms!SyncGeoNames(g) : g \in G}
  <1>1. Forms!Validated(r, i) = V
    BY DEF Forms!Validated, Forms!Then
  <1>2. \A x : x \in B <=> \E a \in A : x \in Forms!NormalizeCoordinates(a)
    BY Zenon
  <1>3. \A x : x \in C <=> \E b \in B : x \in Forms!ValidateNames(b, i)
    BY Zenon
  <1>4. \A x : x \in D <=> \E c \in C : x \in Forms!ValidateBirthDate(c)
    BY Zenon
  <1>5. \A x : x \in E <=> \E d \in D : x \in Forms!SyncDates(d, "birth_date", "birth_date_ec")
    BY Zenon
  <1>6. \A x : x \in F <=> \E e \in E : x \in Forms!PopulateAge(e)
    BY Zenon
  <1>7. \A x : x \in G <=> \E f \in F : x \in Forms!ValidateAge(f)
    BY Zenon
  <1>8. \A x : x \in V <=> \E g \in G : x \in Forms!SyncGeoNames(g)
    BY Zenon
  <1> HIDE DEF A, B, C, D, E, F, G, V
  <1>9. v \in V <=>
             \E a \in A :
               \E b \in Forms!NormalizeCoordinates(a) :
                 \E c \in Forms!ValidateNames(b, i) :
                   \E d \in Forms!ValidateBirthDate(c) :
                     \E e \in Forms!SyncDates(d, "birth_date", "birth_date_ec") :
                       \E f \in Forms!PopulateAge(e) :
                         \E g \in Forms!ValidateAge(f) : v \in Forms!SyncGeoNames(g)
    BY <1>2, <1>3, <1>4, <1>5, <1>6, <1>7, <1>8, Zenon
  <1> QED
    BY <1>1, <1>9 DEF A

\* Two dates of a record that is to be stored: one of them is blank, or both
\* name one day.
Births == {"birth_date", "birth_date_ec"}
BirthYears == {Forms!None} \cup 1..3
Paired(e) ==
    /\ \A k \in Births \cap DOMAIN e : e[k] \in BirthYears
    /\ Births \cap DOMAIN e # {} =>
           \/ \E k \in Births \cap DOMAIN e : e[k] = Forms!None
           \/ Births \subseteq DOMAIN e /\ e["birth_date"] = e["birth_date_ec"]

\* An Age that was blank beside a birth date is filled in.
AgeFilled(e) ==
    "estimated_age" \in DOMAIN e =>
        (Forms!Get(e, "birth_date") # Forms!None => e["estimated_age"] # Forms!None)

LEMMA DatesPaired ==
    ASSUME NEW d, NEW e \in Forms!SyncDates(d, "birth_date", "birth_date_ec"),
           "birth_date" \in DOMAIN d => d["birth_date"] \in BirthYears,
           "birth_date_ec" \in DOMAIN d => d["birth_date_ec"] \in BirthYears \cup {Forms!Wrong}
    PROVE  /\ Paired(e)
           /\ DOMAIN d \subseteq DOMAIN e /\ DOMAIN e \subseteq DOMAIN d \cup Births
           /\ \A k \in DOMAIN e \ Births : e[k] = d[k]
           /\ Births \cap DOMAIN d = {} => e = d
  <1> DEFINE gc == Forms!Get(d, "birth_date")
             ec == Forms!Get(d, "birth_date_ec")
  <1>0. Forms!None # Forms!Wrong /\ Forms!None \notin 1..3 /\ Forms!Wrong \notin BirthYears
    BY DEF Forms!None, Forms!Wrong, BirthYears
  <1>1. /\ gc = IF "birth_date" \in DOMAIN d THEN d["birth_date"] ELSE Forms!None
        /\ ec = IF "birth_date_ec" \in DOMAIN d THEN d["birth_date_ec"] ELSE Forms!None
    BY DEF Forms!Get, Forms!Sent
  <1>2. CASE Births \cap DOMAIN d = {}
    <2>1. e = d
      BY <1>0, <1>1, <1>2 DEF Forms!SyncDates, Forms!Sent, Births
    <2> QED
      BY <1>2, <2>1 DEF Paired
  <1>3. CASE Births \cap DOMAIN d # {} /\ ec = Forms!Wrong
    BY <1>0, <1>3 DEF Forms!SyncDates, Forms!Sent, Births
  <1>4. CASE Births \cap DOMAIN d # {} /\ ec \notin {Forms!None, Forms!Wrong}
    <2>1. e \in IF gc = Forms!None THEN {Forms!With(d, "birth_date", d["birth_date_ec"])}
                ELSE IF d["birth_date"] = d["birth_date_ec"] THEN {d} ELSE {}
      BY <1>0, <1>4 DEF Forms!SyncDates, Forms!Sent, Births
    <2>2. "birth_date_ec" \in DOMAIN d /\ ec = d["birth_date_ec"] /\ ec \in BirthYears
      BY <1>0, <1>1, <1>4
    <2>3. CASE gc = Forms!None
      <3>0. e = Forms!With(d, "birth_date", ec)
        BY <2>1, <2>2, <2>3
      <3>1. /\ DOMAIN e = DOMAIN d \cup {"birth_date"} /\ e["birth_date"] = ec
            /\ \A x \in DOMAIN d \ {"birth_date"} : e[x] = d[x]
        BY <3>0 DEF Forms!With
      <3> QED
        BY <2>2, <3>1 DEF Paired, Births
    <2>4. CASE gc # Forms!None
      <3>1. e = d /\ d["birth_date"] = d["birth_date_ec"] /\ "birth_date" \in DOMAIN d
        BY <1>1, <2>1, <2>4
      <3> QED
        BY <2>2, <3>1 DEF Paired, Births
    <2> QED
      BY <2>3, <2>4
  <1>5. CASE Births \cap DOMAIN d # {} /\ ec = Forms!None /\ gc # Forms!None
    <2>1. e = Forms!With(d, "birth_date_ec", d["birth_date"])
      BY <1>0, <1>5 DEF Forms!SyncDates, Forms!Sent, Births
    <2>2. "birth_date" \in DOMAIN d
      BY <1>1, <1>5
    <2>3. /\ DOMAIN e = DOMAIN d \cup {"birth_date_ec"} /\ e["birth_date_ec"] = d["birth_date"]
          /\ \A x \in DOMAIN d \ {"birth_date_ec"} : e[x] = d[x]
      BY <2>1 DEF Forms!With
    <2> QED
      BY <2>2, <2>3 DEF Paired, Births
  <1>6. CASE Births \cap DOMAIN d # {} /\ ec = Forms!None /\ gc = Forms!None
    <2>1. e = d
      BY <1>0, <1>6 DEF Forms!SyncDates, Forms!Sent, Births
    <2>2. \A k \in Births \cap DOMAIN d : d[k] = Forms!None
      BY <1>1, <1>6 DEF Births
    <2> QED
      BY <1>6, <2>1, <2>2 DEF Paired, BirthYears
  <1> QED
    BY <1>2, <1>3, <1>4, <1>5, <1>6

\* What the rules make of the record of a save.
Derived(r, v) ==
    /\ DOMAIN r \subseteq DOMAIN v /\ Paired(v)
    /\ \A k \in DOMAIN v : v[k] \in -9..Horizon
    /\ Forms!BirthKeys \cap DOMAIN r = {} => Forms!BirthKeys \cap DOMAIN v = {}
    /\ "estimated_age" \in DOMAIN r /\ r["estimated_age"] = Forms!None =>
           v["estimated_age"] = IF "birth_date" \in DOMAIN v /\ v["birth_date"] # Forms!None
                                THEN today - v["birth_date"] ELSE Forms!None

LEMMA FieldValues ==
    ASSUME NEW keys \in SUBSET Forms!Columns, NEW r \in Forms!Records(keys)
    PROVE  /\ DOMAIN r = keys /\ \A k \in keys : r[k] \in {Forms!None, Forms!Wrong} \cup 0..3
           /\ "birth_date" \in keys => r["birth_date"] \in BirthYears
           /\ "birth_date_ec" \in keys => r["birth_date_ec"] \in BirthYears \cup {Forms!Wrong}
  <1>1. /\ r \in [keys -> {Forms!None, Forms!Wrong} \cup 0..3]
        /\ \A k \in keys : r[k] \in Forms!ValuesFor(k)
    BY DEF Forms!Records
  <1>2. Forms!ValuesFor("birth_date") = BirthYears
    BY DEF Forms!ValuesFor, BirthYears
  <1>3. Forms!ValuesFor("birth_date_ec") = BirthYears \cup {Forms!Wrong}
    BY DEF Forms!ValuesFor, BirthYears
  <1> QED
    BY <1>1, <1>2, <1>3

LEMMA RulesDerive ==
    ASSUME today \in 2..Horizon, NEW keys \in SUBSET Forms!Columns, NEW r \in Forms!Records(keys),
           NEW i \in BOOLEAN, NEW v \in Forms!Validated(r, i)
    PROVE  Derived(r, v)
  <1>0. Horizon \in Nat /\ Horizon >= 3
    BY PartsAssumption
  <1>1. PICK a \in Forms!NormalizeBooleans(r) :
             \E b \in Forms!NormalizeCoordinates(a) :
               \E c \in Forms!ValidateNames(b, i) :
                 \E d \in Forms!ValidateBirthDate(c) :
                   \E e \in Forms!SyncDates(d, "birth_date", "birth_date_ec") :
                     \E f \in Forms!PopulateAge(e) :
                       \E g \in Forms!ValidateAge(f) : v \in Forms!SyncGeoNames(g)
    BY RulesInOrder, Zenon
  <1>2. PICK e \in Forms!SyncDates(a, "birth_date", "birth_date_ec") :
             \E f \in Forms!PopulateAge(e) : v \in Forms!SyncGeoNames(f)
    BY <1>1 DEF Forms!NormalizeCoordinates, Forms!ValidateNames, Forms!ValidateBirthDate,
       Forms!ValidateAge
  <1>3. PICK f \in Forms!PopulateAge(e) : v \in Forms!SyncGeoNames(f)
    BY <1>2
  <1>4. /\ DOMAIN a = keys /\ \A k \in keys \ {"disabled"} : a[k] = r[k]
        /\ \A k \in keys : a[k] \in -9..3
    <2>1. DOMAIN r = keys /\ \A k \in keys : r[k] \in -9..3
      BY FieldValues DEF Forms!None, Forms!Wrong
    <2>2. \A u : Forms!AsBool(u) \in -9..3
      BY DEF Forms!AsBool, Forms!None
    <2> QED
      BY <2>1, <2>2 DEF Forms!NormalizeBooleans, Forms!With, Forms!Sent
  <1>5. /\ Paired(e) /\ keys \subseteq DOMAIN e /\ DOMAIN e \subseteq keys \cup Births
        /\ \A k \in DOMAIN e \ Births : e[k] = a[k]
    <2>1. /\ "birth_date" \in DOMAIN a => a["birth_date"] \in BirthYears
          /\ "birth_date_ec" \in DOMAIN a => a["birth_date_ec"] \in BirthYears \cup {Forms!Wrong}
      BY <1>4, FieldValues
    <2> QED
      BY <1>4, <2>1, DatesPaired
  <1>6. \A k \in DOMAIN e : e[k] \in -9..3
    <2>1. \A u \in BirthYears : u \in -9..3
      BY DEF BirthYears, Forms!None
    <2> QED
      BY <1>4, <1>5, <2>1 DEF Paired
  <1> DEFINE born == IF "birth_date" \in DOMAIN e THEN e["birth_date"] ELSE Forms!None
             old == IF "estimated_age" \in DOMAIN e THEN e["estimated_age"] ELSE Forms!None
  <1>7. f = IF born # Forms!None /\ old = Forms!None
            THEN Forms!With(e, "estimated_age", today - born) ELSE e
    BY <1>3 DEF Forms!PopulateAge, Forms!Get, Forms!Sent, Forms!Age
  <1>8. /\ DOMAIN f \subseteq DOMAIN e \cup {"estimated_age"} /\ DOMAIN e \subseteq DOMAIN f
        /\ \A k \in DOMAIN f \ {"estimated_age"} : f[k] = e[k]
        /\ "estimated_age" \in DOMAIN f => f["estimated_age"] =
              IF born # Forms!None /\ old = Forms!None THEN today - born ELSE e["estimated_age"]
    BY <1>7 DEF Forms!With
  <1>9. born \in BirthYears
    BY <1>5 DEF Paired, Births, BirthYears
  <1>10. \A k \in DOMAIN f : f[k] \in -9..Horizon
    <2>1. born # Forms!None => today - born \in -9..Horizon
      BY <1>0, <1>9, SMT DEF BirthYears
    <2>2. \A u \in -9..3 : u \in -9..Horizon
      BY <1>0
    <2> HIDE DEF born, old
    <2> QED
      <3>1. CASE born # Forms!None /\ old = Forms!None
        BY <1>6, <1>8, <2>1, <2>2, <3>1
      <3>2. CASE ~(born # Forms!None /\ old = Forms!None)
        <4>1. f = e
          BY <1>7, <3>2
        <4> QED
          BY <1>6, <2>2, <4>1
      <3> QED
        BY <3>1, <3>2
  <1>11. /\ DOMAIN f \subseteq DOMAIN v /\ DOMAIN v \subseteq DOMAIN f \cup {"region_name"}
         /\ \A k \in DOMAIN f \ {"region_name"} : v[k] = f[k]
         /\ \A k \in DOMAIN v : v[k] \in -9..Horizon
    BY <1>3, <1>10 DEF Forms!SyncGeoNames, Forms!With, Forms!Sent
  <1> HIDE DEF born, old
  <1>12. Paired(v)
    <2>1. \A k \in Births : /\ k \in DOMAIN v <=> k \in DOMAIN e
                            /\ k \in DOMAIN e => v[k] = e[k]
      BY <1>8, <1>11 DEF Births
    <2> QED
      BY <1>5, <2>1 DEF Paired, Births
  <1>13. ASSUME "estimated_age" \in DOMAIN r, r["estimated_age"] = Forms!None
         PROVE  v["estimated_age"] = IF born # Forms!None THEN today - born ELSE Forms!None
    <2>1. "estimated_age" \in keys /\ r["estimated_age"] = a["estimated_age"]
      BY <1>4, <1>13, FieldValues
    <2>2. "estimated_age" \in DOMAIN e /\ e["estimated_age"] = Forms!None
      BY <1>5, <1>13, <2>1 DEF Births
    <2>3. old = Forms!None
      BY <2>2 DEF old
    <2> QED
      BY <1>8, <1>11, <2>2, <2>3
  <1>14. /\ "birth_date" \in DOMAIN v <=> "birth_date" \in DOMAIN e
         /\ "birth_date" \in DOMAIN e => v["birth_date"] = e["birth_date"]
    BY <1>8, <1>11
  <1>15. DOMAIN r \subseteq DOMAIN v
    BY <1>5, <1>8, <1>11, FieldValues
  <1>16. ASSUME Forms!BirthKeys \cap DOMAIN r = {}
         PROVE  Forms!BirthKeys \cap DOMAIN v = {}
    <2>1. keys \cap Births = {} /\ "estimated_age" \notin keys
      BY <1>16, FieldValues DEF Forms!BirthKeys, Births
    <2>2. e = a
      BY <1>4, <2>1, DatesPaired, FieldValues
    <2>3. born = Forms!None
      BY <1>4, <2>1, <2>2 DEF born, Births
    <2>4. f = e
      BY <1>7, <2>3
    <2> QED
      BY <1>4, <1>11, <2>1, <2>2, <2>4 DEF Forms!BirthKeys, Births
  <1> QED
    BY <1>11, <1>12, <1>13, <1>14, <1>15, <1>16 DEF Derived, born

\* An Age that a save filled in was the farmer's age then.
FilledInv ==
    filled # Forms!None =>
        /\ filled \in 2..today
        /\ stored["birth_date"] \in 1..filled
        /\ stored["estimated_age"] \in {Forms!None, filled - stored["birth_date"]}

FormsInv ==
    /\ Forms!TypeOK /\ Paired(stored) /\ FilledInv

LEMMA KeysAre ==
    /\ Births \subseteq Forms!Columns /\ "estimated_age" \in Forms!Columns
    /\ Forms!BirthKeys = Births \cup {"estimated_age"}
    /\ \A s \in Forms!Sections : s \subseteq Forms!Columns
    /\ "disabled" \notin Forms!BirthKeys /\ "latitude" \notin Forms!BirthKeys
    /\ "first_name" \notin Forms!BirthKeys
    /\ "geo_lowest_level_value_id" \notin Forms!BirthKeys
  BY DEF Births, Forms!Columns, Forms!Sections, Forms!BirthKeys

LEMMA FormsStart == Forms!Init => FormsInv
  <1> SUFFICES ASSUME Forms!Init PROVE FormsInv
    OBVIOUS
  <1>0. Horizon \in Nat /\ Horizon >= 3
    BY PartsAssumption
  <1>1. stored = [c \in Forms!Columns |-> Forms!None] /\ today = 2 /\ filled = Forms!None
    BY DEF Forms!Init, Forms!Empty
  <1>2. Forms!TypeOK
    BY <1>0, <1>1 DEF Forms!TypeOK, Forms!None
  <1>3. Paired(stored)
    BY <1>1 DEF Paired, BirthYears
  <1> QED
    BY <1>1, <1>2, <1>3 DEF FormsInv, FilledInv

LEMMA SaveKeeps ==
    ASSUME FormsInv, NEW keys \in SUBSET Forms!Columns, NEW r \in Forms!Records(keys),
           NEW i \in BOOLEAN, Forms!Save(r, i)
    PROVE  FormsInv'
  <1>1. PICK v \in Forms!Validated(r, i) :
             stored' = [c \in Forms!Columns |-> IF c \in DOMAIN v THEN v[c] ELSE stored[c]]
    BY DEF Forms!Save
  <1>2. Derived(r, v)
    BY <1>1, RulesDerive DEF FormsInv, Forms!TypeOK
  <1>3. /\ UNCHANGED today
        /\ filled' = IF \E k \in Forms!BirthKeys : k \in DOMAIN r
                     THEN IF /\ "estimated_age" \in DOMAIN r /\ r["estimated_age"] = Forms!None
                             /\ stored'["birth_date"] \in 0..today THEN today ELSE Forms!None
                     ELSE filled
    BY DEF Forms!Save, Forms!Sent
  <1>4. Forms!TypeOK'
    BY <1>1, <1>2, <1>3 DEF FormsInv, Forms!TypeOK, Derived
  <1>5. /\ DOMAIN stored' = Forms!Columns
        /\ \A c \in Forms!Columns : stored'[c] = IF c \in DOMAIN v THEN v[c] ELSE stored[c]
    BY <1>1
  <1>6. Paired(stored')
    <2>1. Paired(v) /\ Paired(stored) /\ DOMAIN stored = Forms!Columns
      BY <1>2 DEF Derived, FormsInv, Forms!TypeOK
    <2> QED
      BY <1>5, <2>1, KeysAre DEF Paired, Births
  <1>7. FilledInv'
    <2>1. CASE \E k \in Forms!BirthKeys : k \in DOMAIN r
      <3> SUFFICES ASSUME "estimated_age" \in DOMAIN r, r["estimated_age"] = Forms!None,
                          stored'["birth_date"] \in 0..today, filled' = today
                   PROVE  /\ today \in 2..today /\ stored'["birth_date"] \in 1..today
                          /\ stored'["estimated_age"] \in {Forms!None, today - stored'["birth_date"]}
        BY <1>3, <2>1 DEF FilledInv
      <3>1. today \in Int /\ today >= 2
        BY DEF FormsInv, Forms!TypeOK
      <3>2. stored'["birth_date"] \in BirthYears
        BY <1>5, <1>6, KeysAre DEF Paired, Births
      <3>3. stored'["birth_date"] \in 1..today
        BY <3>1, <3>2 DEF BirthYears, Forms!None
      <3>4. "estimated_age" \in DOMAIN v
        BY <1>2 DEF Derived
      <3>5. CASE "birth_date" \in DOMAIN v /\ v["birth_date"] # Forms!None
        BY <1>2, <1>5, <3>1, <3>3, <3>4, <3>5, KeysAre DEF Derived, Births
      <3>6. CASE ~("birth_date" \in DOMAIN v /\ v["birth_date"] # Forms!None)
        BY <1>2, <1>5, <3>1, <3>3, <3>4, <3>6, KeysAre DEF Derived, Births
      <3> QED
        BY <3>5, <3>6
    <2>2. CASE ~ \E k \in Forms!BirthKeys : k \in DOMAIN r
      <3>1. \A k \in Forms!BirthKeys : k \notin DOMAIN v
        BY <1>2, <2>2 DEF Derived
      <3> QED
        BY <1>3, <1>5, <2>2, <3>1, KeysAre DEF FilledInv, FormsInv, Births
    <2> QED
      BY <2>1, <2>2
  <1> QED
    BY <1>4, <1>6, <1>7 DEF FormsInv, Paired

LEMMA FormsStep ==
    ASSUME FormsInv, Forms!Next \/ UNCHANGED forms
    PROVE  FormsInv'
  <1>1. ASSUME NEW s \in Forms!Sections, NEW r \in Forms!Records(s \ {"region_name"}),
               Forms!Save(r, TRUE)
        PROVE  FormsInv'
    <2>1. s \ {"region_name"} \in SUBSET Forms!Columns
      BY KeysAre
    <2> QED
      BY <1>1, <2>1, SaveKeeps
  <1>2. ASSUME NEW s \in Forms!Sections, NEW keys \in (SUBSET (s \ {"region_name"})) \ {{}},
               NEW r \in Forms!Records(keys), Forms!Save(r, FALSE)
        PROVE  FormsInv'
    <2>1. keys \in SUBSET Forms!Columns
      BY KeysAre
    <2> QED
      BY <1>2, <2>1, SaveKeeps
  <1>3. ASSUME Forms!Birthday PROVE FormsInv'
    <2>1. today < Horizon /\ today' = today + 1 /\ UNCHANGED <<stored, filled>>
      BY <1>3 DEF Forms!Birthday
    <2>2. today \in Nat /\ Horizon \in Nat
      BY PartsAssumption DEF FormsInv, Forms!TypeOK
    <2>3. Forms!TypeOK'
      BY <2>1, <2>2 DEF FormsInv, Forms!TypeOK
    <2>4. FilledInv'
      BY <2>1, <2>2 DEF FormsInv, FilledInv
    <2> QED
      BY <2>1, <2>3, <2>4 DEF FormsInv, Paired
  <1>4. ASSUME UNCHANGED forms PROVE FormsInv'
    BY <1>4 DEF forms, FormsInv, FilledInv, Paired, Forms!TypeOK
  <1> QED
    BY <1>1, <1>2, <1>3, <1>4 DEF Forms!Next, Forms!SaveSection, Forms!SavePart

\* The birth section of a farmer whose Age was filled in is taken again.
LEMMA StillSavable == ASSUME FormsInv PROVE Forms!StaysSavable
  <1> DEFINE r == [k \in Forms!BirthKeys |-> stored[k]]
  <1> SUFFICES ASSUME filled # Forms!None, filled \in (today - 1)..today,
                      stored["birth_date"] \in {Forms!None, stored["birth_date_ec"]}
                          \/ stored["birth_date_ec"] = Forms!None,
                      stored["birth_date_ec"] # Forms!None
               PROVE  Forms!Validated(r, TRUE) # {}
    BY DEF Forms!StaysSavable, Forms!DatesAgree
  <1>1. /\ today \in Int /\ filled \in Int /\ filled <= today /\ today - 1 <= filled
        /\ stored["birth_date"] \in 1..filled
        /\ stored["estimated_age"] \in {Forms!None, filled - stored["birth_date"]}
        /\ DOMAIN stored = Forms!Columns
    BY DEF FormsInv, FilledInv, Forms!TypeOK
  <1>2. /\ DOMAIN r = Forms!BirthKeys /\ "birth_date" \in DOMAIN r
        /\ "birth_date_ec" \in DOMAIN r /\ "estimated_age" \in DOMAIN r
        /\ \A k \in DOMAIN r : r[k] = stored[k]
    BY DEF Forms!BirthKeys
  <1> HIDE DEF r
  <1>3. r["birth_date"] # Forms!None /\ r["birth_date_ec"] = r["birth_date"]
        /\ r["birth_date_ec"] # Forms!Wrong
    BY <1>1, <1>2 DEF Forms!None, Forms!Wrong
  <1>4. /\ r \in Forms!NormalizeBooleans(r) /\ r \in Forms!NormalizeCoordinates(r)
        /\ r \in Forms!ValidateNames(r, TRUE)
    BY <1>2, KeysAre DEF Forms!NormalizeBooleans, Forms!NormalizeCoordinates,
       Forms!ValidateNames, Forms!Sent
  <1>5. r \in Forms!ValidateBirthDate(r)
    <2>1. ~(r["birth_date"] > today)
      BY <1>1, <1>2, SMT
    <2> QED
      BY <1>2, <2>1 DEF Forms!ValidateBirthDate, Forms!Get, Forms!Sent
  <1>6. r \in Forms!SyncDates(r, "birth_date", "birth_date_ec")
    BY <1>2, <1>3 DEF Forms!SyncDates, Forms!Get, Forms!Sent
  <1> DEFINE born == r["birth_date"]
             f == IF r["estimated_age"] = Forms!None
                  THEN Forms!With(r, "estimated_age", today - born) ELSE r
  <1>7. f \in Forms!PopulateAge(r)
    BY <1>2, <1>3 DEF Forms!PopulateAge, Forms!Get, Forms!Sent, Forms!Age
  <1>8. /\ DOMAIN f = Forms!BirthKeys /\ f["birth_date"] = born
        /\ f["estimated_age"] \in {today - born, filled - born}
    BY <1>1, <1>2 DEF Forms!With
  <1> HIDE DEF f
  <1>9. f \in Forms!ValidateAge(f)
    <2>1. f["estimated_age"] - (today - f["birth_date"]) \in -1..1
      BY <1>1, <1>2, <1>8, SMT
    <2>2. Forms!Get(f, "estimated_age") = f["estimated_age"]
          /\ Forms!Get(f, "birth_date") = f["birth_date"]
      BY <1>2, <1>8 DEF Forms!Get, Forms!Sent
    <2> QED
      BY <2>1, <2>2 DEF Forms!ValidateAge, Forms!Age
  <1>10. f \in Forms!SyncGeoNames(f)
    BY <1>8, KeysAre DEF Forms!SyncGeoNames, Forms!Sent
  <1>11. f \in Forms!Validated(r, TRUE)
    <2>1. TRUE \in BOOLEAN
      OBVIOUS
    <2> QED
      BY <1>4, <1>5, <1>6, <1>7, <1>9, <1>10, <2>1, RulesInOrder, Zenon
  <1> QED
    BY <1>11

LEMMA FormsHold ==
    ASSUME FormsInv
    PROVE  Forms!TypeOK /\ Forms!DatesAgree /\ Forms!StaysSavable /\ Forms!BrowserSound
  <1>1. Forms!DatesAgree
    BY KeysAre DEF FormsInv, Paired, Forms!DatesAgree, Forms!TypeOK, Births
  <1>2. today \in Int
    BY DEF FormsInv, Forms!TypeOK
  <1> QED
    BY <1>1, <1>2, StillSavable, BrowserHolds DEF FormsInv

-----------------------------------------------------------------------------
(* The land table of the form (ParcelForm).                                 *)

Fields == {"id", "size", "unit", "area", "cert", "year", "provided", "action"}
Entries == {Parcels!None, Parcels!Wrong} \cup Nat

\* A row as the form or an import may send it.
SentRow(r) ==
    /\ DOMAIN r = Fields /\ r["id"] \in LandIds \cup {Parcels!None}
    /\ r["size"] \in Entries /\ r["area"] \in Entries /\ r["year"] \in Int
    /\ r["unit"] \in DOMAIN ParcelUnits /\ r["action"] \in {"NONE", "DELETE"}

\* The two figures of a land.
Agreeing(r) ==
    \/ r["size"] = Parcels!None /\ r["area"] = Parcels!None
    \/ /\ r["size"] \in Nat \ {0} /\ r["area"] \in Nat \ {0}
       /\ r["size"] * ParcelUnits[r["unit"]] = r["area"]

\* A row as it is stored when n documents are in storage.
StoredRow(r, n) ==
    /\ SentRow(r) /\ Agreeing(r) /\ r["action"] = "NONE"
    /\ r["year"] # Parcels!Wrong /\ (r["year"] = Parcels!None \/ r["year"] <= Parcels!Today)
    /\ r["cert"] \in 1..n \cup {Parcels!None}
    /\ r["provided"] = (r["cert"] # Parcels!None)

ParcelsInv ==
    /\ papers \in 0..MaxDocs /\ DOMAIN table = {1, 2}
    /\ \A i \in {1, 2} : StoredRow(table[i], papers)
    /\ ~Parcels!Duplicated(table)
    /\ table[1]["cert"] = Parcels!None \/ table[1]["cert"] # table[2]["cert"]

LEMMA ParcelConstants ==
    /\ Parcels!Rows = {1, 2} /\ Parcels!None = -9 /\ Parcels!Wrong = -8
    /\ Parcels!File = -7 /\ Parcels!Broken = -6 /\ Parcels!Today = 1
    /\ MaxDocs \in Nat /\ "HECTARE" \in DOMAIN ParcelUnits /\ ParcelUnits["HECTARE"] = 1
    /\ \A u \in DOMAIN ParcelUnits : ParcelUnits[u] \in Nat \ {0}
  BY PartsAssumption DEF Parcels!Rows, Parcels!None, Parcels!Wrong, Parcels!File,
     Parcels!Broken, Parcels!Today

LEMMA Positive ==
    ASSUME NEW a \in Nat \ {0}, NEW b \in Nat \ {0}
    PROVE  a * b \in Nat \ {0}
  BY SMT

\* What the service makes of a row, the next document being n + 1.
LEMMA RowMade ==
    ASSUME NEW r, SentRow(r), NEW n, NEW w, w = Parcels!NormalizeNumbers(Parcels!Synchronized(r, n))
    PROVE  /\ DOMAIN w = Fields /\ w["id"] = r["id"] /\ w["action"] = r["action"]
           /\ w["cert"] = IF r["cert"] = Parcels!File THEN n + 1 ELSE r["cert"]
           /\ w["provided"] = (w["cert"] # Parcels!None)
           /\ w["year"] = Parcels!AsNumber(r["year"])
           /\ Parcels!AsNumber(r["area"]) # Parcels!None =>
                 /\ w["area"] = r["area"] /\ w["size"] = r["area"] /\ w["unit"] = "HECTARE"
           /\ Parcels!AsNumber(r["area"]) = Parcels!None /\ Parcels!AsNumber(r["size"]) # Parcels!None =>
                 /\ w["area"] = Parcels!AsNumber(r["size"] * ParcelUnits[r["unit"]])
                 /\ w["size"] = r["size"] /\ w["unit"] = r["unit"]
           /\ Parcels!AsNumber(r["area"]) = Parcels!None /\ Parcels!AsNumber(r["size"]) = Parcels!None =>
                 /\ w["area"] = Parcels!None /\ w["size"] = Parcels!None /\ w["unit"] = r["unit"]
           /\ Parcels!Synchronized(r, n)["size"] = IF Parcels!AsNumber(r["area"]) # Parcels!None
                                                  THEN r["area"] ELSE r["size"]
  <1> DEFINE p == Parcels!PersistCertificate(r, n)
             a == Parcels!SynchronizeArea(p)
             f == Parcels!SynchronizeFlag(a)
  <1>1. /\ DOMAIN p = Fields /\ \A x \in Fields \ {"cert"} : p[x] = r[x]
        /\ p["cert"] = IF r["cert"] = Parcels!File THEN n + 1 ELSE r["cert"]
    BY DEF Parcels!PersistCertificate, SentRow, Fields
  <1>2. /\ DOMAIN a = Fields /\ \A x \in Fields \ {"size", "unit", "area"} : a[x] = p[x]
        /\ Parcels!AsNumber(p["area"]) # Parcels!None =>
              /\ a["area"] = p["area"] /\ a["size"] = Parcels!AsNumber(p["area"])
              /\ a["unit"] = "HECTARE"
        /\ Parcels!AsNumber(p["area"]) = Parcels!None /\ Parcels!AsNumber(p["size"]) # Parcels!None =>
              /\ a["area"] = Parcels!AsNumber(p["size"]) * ParcelUnits[p["unit"]]
              /\ a["size"] = p["size"] /\ a["unit"] = p["unit"]
        /\ Parcels!AsNumber(p["area"]) = Parcels!None /\ Parcels!AsNumber(p["size"]) = Parcels!None =>
              a = p
    <2> HIDE DEF p
    <2> QED
      BY <1>1 DEF Parcels!SynchronizeArea, Fields
  <1>3. /\ DOMAIN f = Fields /\ \A x \in Fields \ {"provided"} : f[x] = a[x]
        /\ f["provided"] = (a["cert"] # Parcels!None)
    <2> HIDE DEF a
    <2> QED
      BY <1>2 DEF Parcels!SynchronizeFlag, Fields
  <1>4. Parcels!Synchronized(r, n) = f
    BY DEF Parcels!Synchronized
  <1>5. /\ DOMAIN w = Fields
        /\ \A x \in Fields \ {"size", "area", "year"} : w[x] = f[x]
        /\ w["size"] = Parcels!AsNumber(f["size"]) /\ w["area"] = Parcels!AsNumber(f["area"])
        /\ w["year"] = Parcels!AsNumber(f["year"])
    <2>1. w = Parcels!NormalizeNumbers(f)
      BY <1>4
    <2> HIDE DEF f
    <2> QED
      BY <1>3, <2>1 DEF Parcels!NormalizeNumbers, Fields
  <1>6. \A x : Parcels!AsNumber(x) # Parcels!None => Parcels!AsNumber(x) = x
    BY DEF Parcels!AsNumber
  <1> HIDE DEF p, a, f
  <1>7. \A x \in Fields \ {"cert", "size", "unit", "area", "provided"} : f[x] = r[x]
    BY <1>1, <1>2, <1>3
  <1>8. "size" \in Fields /\ "unit" \in Fields /\ "area" \in Fields /\ "cert" \in Fields
        /\ "id" \in Fields /\ "action" \in Fields /\ "year" \in Fields /\ "provided" \in Fields
    BY DEF Fields
  <1>9. p["size"] = r["size"] /\ p["area"] = r["area"] /\ p["unit"] = r["unit"]
    BY <1>1, <1>8
  <1>10. f["size"] = a["size"] /\ f["area"] = a["area"] /\ f["unit"] = a["unit"]
         /\ f["cert"] = p["cert"]
    BY <1>2, <1>3, <1>8
  <1>11. w["cert"] = p["cert"] /\ w["provided"] = (w["cert"] # Parcels!None)
    BY <1>2, <1>3, <1>5, <1>8, <1>10
  <1>12. /\ w["id"] = r["id"] /\ w["action"] = r["action"]
         /\ w["year"] = Parcels!AsNumber(r["year"]) /\ w["unit"] = a["unit"]
         /\ w["size"] = Parcels!AsNumber(a["size"]) /\ w["area"] = Parcels!AsNumber(a["area"])
    BY <1>5, <1>7, <1>8, <1>10
  <1>13. CASE Parcels!AsNumber(r["area"]) # Parcels!None
    BY <1>1, <1>2, <1>4, <1>5, <1>6, <1>9, <1>10, <1>11, <1>12, <1>13
  <1>14. CASE Parcels!AsNumber(r["area"]) = Parcels!None /\ Parcels!AsNumber(r["size"]) # Parcels!None
    BY <1>1, <1>2, <1>4, <1>5, <1>6, <1>9, <1>10, <1>11, <1>12, <1>14
  <1>15. CASE Parcels!AsNumber(r["area"]) = Parcels!None /\ Parcels!AsNumber(r["size"]) = Parcels!None
    BY <1>1, <1>2, <1>4, <1>5, <1>6, <1>9, <1>10, <1>11, <1>12, <1>15
  <1> QED
    BY <1>13, <1>14, <1>15

LEMMA RowAgrees ==
    ASSUME NEW r, SentRow(r), r["action"] = "NONE", ~Parcels!Refuses(r),
           NEW n \in Nat, NEW m \in Nat, NEW w,
           w = Parcels!NormalizeNumbers(Parcels!Synchronized(r, n)),
           w["cert"] \in 1..m \cup {Parcels!None}
    PROVE  StoredRow(w, m)
  <1> USE ParcelConstants
  <1>1. Parcels!ValidSize(Parcels!Synchronized(r, 0)) /\ Parcels!ValidYear(r)
    BY DEF Parcels!Refuses
  <1>2. Agreeing(w) /\ w["size"] \in Entries /\ w["area"] \in Entries
        /\ w["unit"] \in DOMAIN ParcelUnits
    <2>1. CASE Parcels!AsNumber(r["area"]) # Parcels!None
      <3>1. r["area"] \in Nat /\ Parcels!Synchronized(r, 0)["size"] = r["area"]
        BY <2>1, RowMade DEF SentRow, Entries, Parcels!AsNumber
      <3>2. r["area"] > 0
        BY <1>1, <3>1 DEF Parcels!ValidSize, Parcels!AsNumber
      <3>3. w["area"] = r["area"] /\ w["size"] = r["area"] /\ w["unit"] = "HECTARE"
        BY <2>1, RowMade
      <3> QED
        BY <3>1, <3>2, <3>3 DEF Agreeing, Entries
    <2>2. CASE Parcels!AsNumber(r["area"]) = Parcels!None
               /\ Parcels!AsNumber(r["size"]) # Parcels!None
      <3>1. r["size"] \in Nat /\ Parcels!Synchronized(r, 0)["size"] = r["size"]
        BY <2>2, RowMade DEF SentRow, Entries, Parcels!AsNumber
      <3>2. r["size"] > 0
        BY <1>1, <3>1 DEF Parcels!ValidSize, Parcels!AsNumber
      <3>3. /\ w["area"] = Parcels!AsNumber(r["size"] * ParcelUnits[r["unit"]])
            /\ w["size"] = r["size"] /\ w["unit"] = r["unit"]
        BY <2>2, RowMade
      <3>4. r["size"] \in Nat \ {0} /\ ParcelUnits[r["unit"]] \in Nat \ {0}
        BY <3>1, <3>2 DEF SentRow
      <3>5. r["size"] * ParcelUnits[r["unit"]] \in Nat \ {0}
        BY <3>4, Positive, Zenon
      <3>6. w["area"] = r["size"] * ParcelUnits[r["unit"]]
        BY <3>3, <3>5 DEF Parcels!AsNumber
      <3> QED
        BY <3>1, <3>3, <3>4, <3>5, <3>6 DEF Agreeing, Entries, SentRow
    <2>3. CASE Parcels!AsNumber(r["area"]) = Parcels!None
               /\ Parcels!AsNumber(r["size"]) = Parcels!None
      BY <2>3, RowMade DEF Agreeing, Entries, SentRow
    <2> QED
      BY <2>1, <2>2, <2>3
  <1>3. w["year"] \in Int \ {Parcels!Wrong}
        /\ (w["year"] = Parcels!None \/ w["year"] <= Parcels!Today)
    <2>1. w["year"] = Parcels!AsNumber(r["year"]) /\ r["year"] \in Int
      BY RowMade DEF SentRow
    <2> QED
      BY <1>1, <2>1 DEF Parcels!ValidYear, Parcels!AsNumber
  <1>4. DOMAIN w = Fields /\ w["id"] = r["id"] /\ w["action"] = r["action"]
        /\ w["provided"] = (w["cert"] # Parcels!None)
    BY RowMade
  <1> QED
    BY <1>2, <1>3, <1>4 DEF StoredRow, SentRow

\* A stored row is taken again, and left as it is.
LEMMA StoredIsTaken ==
    ASSUME NEW r, NEW m \in Nat, StoredRow(r, m)
    PROVE  /\ ~Parcels!Refuses(r)
           /\ \A n \in Nat :
                 Parcels!NormalizeNumbers(Parcels!Synchronized(r, n))["area"] = r["area"]
  <1> USE ParcelConstants
  <1>1. SentRow(r) /\ r["cert"] # Parcels!Broken /\ r["cert"] # Parcels!File
    BY DEF StoredRow
  <1>2. Parcels!ValidYear(r)
    BY DEF StoredRow, Parcels!ValidYear, Parcels!AsNumber
  <1>3. Parcels!ValidSize(Parcels!Synchronized(r, 0))
    BY <1>1, RowMade DEF StoredRow, Agreeing, Parcels!ValidSize, Parcels!AsNumber
  <1>4. ASSUME NEW n \in Nat
        PROVE  Parcels!NormalizeNumbers(Parcels!Synchronized(r, n))["area"] = r["area"]
    <2>1. CASE r["area"] = Parcels!None
      BY <1>1, <2>1, RowMade DEF StoredRow, Agreeing, Parcels!AsNumber
    <2>2. CASE r["area"] # Parcels!None
      <3>1. Parcels!AsNumber(r["area"]) # Parcels!None
        BY <2>2 DEF StoredRow, Agreeing, Parcels!AsNumber
      <3> QED
        BY <1>1, <3>1, RowMade
    <2> QED
      BY <2>1, <2>2
  <1> QED
    BY <1>1, <1>2, <1>3, <1>4 DEF Parcels!Refuses

\* The documents a table uploads, before its first, its second and no row.
LEMMA Counted ==
    ASSUME NEW t
    PROVE  /\ Parcels!Uploads(t, 0) = 0
           /\ Parcels!Uploads(t, 1) = IF t[1]["cert"] = Parcels!File THEN 1 ELSE 0
           /\ Parcels!Uploads(t, 2) =
                 Parcels!Uploads(t, 1) + IF t[2]["cert"] = Parcels!File THEN 1 ELSE 0
  <1> USE ParcelConstants
  <1> DEFINE S(upto) == {i \in Parcels!Rows : i <= upto /\ t[i]["cert"] = Parcels!File}
  <1>0. \A X : Parcels!Cardinality(X) = Cardinality(X)
    BY DEF Parcels!Cardinality, Cardinality
  <1>1. \A upto : Parcels!Uploads(t, upto) = Cardinality(S(upto))
    BY <1>0 DEF Parcels!Uploads
  <1>2. S(0) = {}
    OBVIOUS
  <1>3. S(1) = IF t[1]["cert"] = Parcels!File THEN {1} ELSE {}
    OBVIOUS
  <1>4. S(2) = IF t[2]["cert"] = Parcels!File THEN S(1) \cup {2} ELSE S(1)
    OBVIOUS
  <1>5. IsFiniteSet(S(1)) /\ 2 \notin S(1)
    <2>1. IsFiniteSet({}) /\ IsFiniteSet({1})
      BY FS_EmptySet, FS_Singleton
    <2>2. S(1) = {1} \/ S(1) = {}
      BY <1>3
    <2>3. S(1) \subseteq {1}
      BY <2>2
    <2> HIDE DEF S
    <2> QED
      BY <2>1, <2>2, <2>3
  <1>6. Cardinality(S(1) \cup {2}) = Cardinality(S(1)) + 1
    BY <1>5, FS_AddElement
  <1>7. Cardinality({}) = 0 /\ Cardinality({1}) = 1
    BY FS_EmptySet, FS_Singleton
  <1>8. Cardinality(S(1)) \in Nat
    BY <1>5, FS_CardinalityType
  <1> HIDE DEF S
  <1> QED
    BY <1>1, <1>2, <1>3, <1>4, <1>6, <1>7, <1>8

LEMMA NoRowStored ==
    ASSUME NEW n \in Nat
    PROVE  /\ StoredRow(Parcels!NoRow, n)
           /\ Parcels!NoRow["id"] = Parcels!None /\ Parcels!NoRow["cert"] = Parcels!None
  <1> USE ParcelConstants
  <1>1. /\ DOMAIN Parcels!NoRow = Fields
        /\ Parcels!NoRow["id"] = Parcels!None /\ Parcels!NoRow["size"] = Parcels!None
        /\ Parcels!NoRow["unit"] = "HECTARE" /\ Parcels!NoRow["area"] = Parcels!None
        /\ Parcels!NoRow["cert"] = Parcels!None /\ Parcels!NoRow["year"] = Parcels!None
        /\ Parcels!NoRow["provided"] = FALSE /\ Parcels!NoRow["action"] = "NONE"
    BY DEF Parcels!NoRow, Fields
  <1>2. Parcels!NoRow["provided"] = (Parcels!NoRow["cert"] # Parcels!None)
    BY <1>1, Zenon
  <1>3. SentRow(Parcels!NoRow) /\ Agreeing(Parcels!NoRow)
    BY <1>1 DEF SentRow, Agreeing, Entries
  <1>4. /\ Parcels!NoRow["year"] # Parcels!Wrong
        /\ Parcels!NoRow["cert"] \in 1..n \cup {Parcels!None}
    BY <1>1
  <1> QED
    BY <1>1, <1>2, <1>3, <1>4, Zenon DEF StoredRow

\* What is sent for a table: of a stored certificate a row may have its own.
SentTable(t) ==
    /\ DOMAIN t = {1, 2}
    /\ \A i \in {1, 2} :
          /\ SentRow(t[i])
          /\ t[i]["cert"] \in {table[i]["cert"], Parcels!None, Parcels!File, Parcels!Broken}

LEMMA TableKept ==
    ASSUME ParcelsInv, NEW t, SentTable(t), Parcels!ValidateAndSave(t)
    PROVE  ParcelsInv'
  <1> USE ParcelConstants
  <1> DEFINE refusing == {i \in Parcels!Rows : Parcels!Refuses(t[i])}
             first == Parcels!Min(refusing \cup {2})
  <1>1. /\ ~Parcels!Duplicated(t) /\ papers' = papers + Parcels!Uploads(t, first)
        /\ papers' <= MaxDocs
        /\ table' = IF refusing # {} THEN table ELSE
               [i \in Parcels!Rows |-> IF i \in Parcels!ActiveRows(t)
                                       THEN Parcels!Validated(t, i) ELSE Parcels!NoRow]
    BY DEF Parcels!ValidateAndSave
  <1>2. first \in {1, 2} /\ (refusing = {} => first = 2)
    <2>1. \E x \in refusing \cup {2} : \A y \in refusing \cup {2} : x <= y
      <3>1. refusing \subseteq {1, 2}
        OBVIOUS
      <3>2. CASE 1 \in refusing
        BY <3>1, <3>2
      <3>3. CASE 1 \notin refusing
        BY <3>1, <3>3
      <3> QED
        BY <3>2, <3>3
    <2>2. first \in refusing \cup {2}
      BY <2>1 DEF Parcels!Min
    <2> QED
      BY <2>2
  <1> HIDE DEF refusing, first
  <1>3. /\ Parcels!Uploads(t, 1) \in {0, 1}
        /\ Parcels!Uploads(t, 2) \in {Parcels!Uploads(t, 1), Parcels!Uploads(t, 1) + 1}
        /\ t[2]["cert"] = Parcels!File => Parcels!Uploads(t, 2) = Parcels!Uploads(t, 1) + 1
        /\ t[1]["cert"] = Parcels!File => Parcels!Uploads(t, 1) = 1
        /\ Parcels!Uploads(t, 0) = 0
    BY Counted
  <1>4. papers \in Nat /\ papers' \in Nat /\ papers' \in 0..MaxDocs /\ papers <= papers'
    BY <1>1, <1>2, <1>3 DEF ParcelsInv
  <1>5. CASE refusing # {}
    <2>1. table' = table
      BY <1>1, <1>5
    <2>2. \A i \in {1, 2} : StoredRow(table[i], papers')
      BY <1>4 DEF ParcelsInv, StoredRow
    <2>3. \A i \in {1, 2} : StoredRow(table'[i], papers')
      BY <2>1, <2>2
    <2>4. ~Parcels!Duplicated(table')
      BY <2>1 DEF ParcelsInv
    <2> QED
      BY <1>4, <2>1, <2>3, <2>4 DEF ParcelsInv
  <1>6. CASE refusing = {}
    <2> DEFINE n(i) == papers + Parcels!Uploads(t, i - 1)
               w(i) == Parcels!NormalizeNumbers(Parcels!Synchronized(t[i], n(i)))
    <2>1. /\ DOMAIN table' = {1, 2}
          /\ \A i \in {1, 2} : table'[i] = IF i \in Parcels!ActiveRows(t) THEN w(i)
                                          ELSE Parcels!NoRow
      BY <1>1, <1>6 DEF Parcels!Validated
    <2>2. papers' = papers + Parcels!Uploads(t, 2)
      BY <1>1, <1>2, <1>6
    <2>3. /\ n(1) = papers /\ n(2) = papers + Parcels!Uploads(t, 1)
          /\ n(1) \in Nat /\ n(2) \in Nat
      BY <1>3, <1>4
    <2>4. ASSUME NEW i \in {1, 2}
          PROVE  /\ w(i)["id"] = t[i]["id"] /\ w(i)["action"] = t[i]["action"]
                 /\ w(i)["cert"] = IF t[i]["cert"] = Parcels!File THEN n(i) + 1 ELSE t[i]["cert"]
      <3>1. SentRow(t[i])
        BY DEF SentTable
      <3> QED
        BY <3>1, RowMade
    <2>5. ASSUME NEW i \in {1, 2}
          PROVE  w(i)["cert"] \in 1..papers' \cup {Parcels!None}
      <3>1. t[i]["cert"] # Parcels!Broken
        BY <1>6 DEF refusing, Parcels!Refuses
      <3>2. table[i]["cert"] \in 1..papers \cup {Parcels!None}
        BY DEF ParcelsInv, StoredRow
      <3>3. CASE t[i]["cert"] = Parcels!File
        <4>1. n(i) + 1 \in 1..papers'
          BY <1>3, <1>4, <2>2, <2>3, <3>3
        <4> QED
          BY <2>4, <3>3, <4>1
      <3>4. CASE t[i]["cert"] # Parcels!File
        <4>1. w(i)["cert"] \in {table[i]["cert"], Parcels!None}
          BY <2>4, <3>1, <3>4 DEF SentTable
        <4> HIDE DEF w
        <4> QED
          BY <1>4, <3>2, <4>1
      <3> QED
        BY <3>3, <3>4
    <2>6. ASSUME NEW i \in {1, 2}, i \in Parcels!ActiveRows(t)
          PROVE  StoredRow(w(i), papers')
      <3>1. t[i]["action"] = "NONE" /\ SentRow(t[i]) /\ ~Parcels!Refuses(t[i])
        BY <1>6, <2>6 DEF refusing, Parcels!ActiveRows, SentTable, SentRow
      <3>2. n(i) \in Nat
        BY <2>3
      <3> HIDE DEF n
      <3> QED
        BY <1>4, <2>5, <3>1, <3>2, RowAgrees
    <2>7. StoredRow(Parcels!NoRow, papers') /\ Parcels!NoRow["id"] = Parcels!None
          /\ Parcels!NoRow["cert"] = Parcels!None
      BY NoRowStored, <1>4
    <2> HIDE DEF w
    <2>8. \A i \in {1, 2} : StoredRow(table'[i], papers')
      BY <2>1, <2>6, <2>7
    <2>9. ~Parcels!Duplicated(table')
      <3> SUFFICES ASSUME NEW i \in {1, 2}, NEW j \in {1, 2}, i # j,
                          table'[i]["id"] # Parcels!None,
                          table'[i]["id"] = table'[j]["id"]
                   PROVE  FALSE
        BY DEF Parcels!Duplicated, Parcels!ActiveRows
      <3>1. i \in Parcels!ActiveRows(t) /\ j \in Parcels!ActiveRows(t)
        BY <2>1, <2>7
      <3>2. t[i]["id"] # Parcels!None /\ t[i]["id"] = t[j]["id"]
        BY <2>1, <2>4, <3>1
      <3> QED
        BY <1>1, <3>1, <3>2 DEF Parcels!Duplicated
    <2>10. table'[1]["cert"] = Parcels!None \/ table'[1]["cert"] # table'[2]["cert"]
      <3> SUFFICES ASSUME 1 \in Parcels!ActiveRows(t), 2 \in Parcels!ActiveRows(t),
                          w(1)["cert"] # Parcels!None
                   PROVE  w(1)["cert"] # w(2)["cert"]
        BY <2>1, <2>7
      <3>1. \A i \in {1, 2} : t[i]["cert"] \in {table[i]["cert"], Parcels!None, Parcels!File}
        BY <1>6 DEF SentTable, refusing, Parcels!Refuses
      <3>2. \A i \in {1, 2} : table[i]["cert"] \in 1..papers \cup {Parcels!None}
        BY DEF ParcelsInv, StoredRow
      <3>3. table[1]["cert"] = Parcels!None \/ table[1]["cert"] # table[2]["cert"]
        BY DEF ParcelsInv
      <3>4. /\ w(1)["cert"] = IF t[1]["cert"] = Parcels!File THEN papers + 1 ELSE t[1]["cert"]
            /\ w(2)["cert"] = IF t[2]["cert"] = Parcels!File
                              THEN papers + Parcels!Uploads(t, 1) + 1 ELSE t[2]["cert"]
        BY <2>3, <2>4
      <3> QED
        BY <1>3, <1>4, <3>1, <3>2, <3>3, <3>4
    <2> QED
      BY <1>4, <2>1, <2>8, <2>9, <2>10 DEF ParcelsInv
  <1> QED
    BY <1>5, <1>6

LEMMA ParcelsStart == Parcels!Init => ParcelsInv
  <1> SUFFICES ASSUME Parcels!Init PROVE ParcelsInv
    OBVIOUS
  <1> USE ParcelConstants
  <1>1. DOMAIN table = {1, 2} /\ papers = 0 /\ \A i \in {1, 2} : table[i] = Parcels!NoRow
    BY DEF Parcels!Init
  <1>2. \A i \in {1, 2} : StoredRow(table[i], papers) /\ table[i]["id"] = Parcels!None
                          /\ table[i]["cert"] = Parcels!None
    BY <1>1, NoRowStored
  <1>3. ~Parcels!Duplicated(table)
    BY <1>1, <1>2 DEF Parcels!Duplicated, Parcels!ActiveRows
  <1> QED
    BY <1>1, <1>2, <1>3 DEF ParcelsInv

LEMMA ParcelsStep ==
    ASSUME ParcelsInv, Parcels!Next \/ UNCHANGED parcels
    PROVE  ParcelsInv'
  <1> USE ParcelConstants
  <1>0. /\ DOMAIN table = {1, 2}
        /\ \A i \in {1, 2} : SentRow(table[i]) /\ DOMAIN table[i] = Fields
    BY DEF ParcelsInv, StoredRow, SentRow
  <1>1. \A s \in Parcels!Numbers : s \in Entries
    BY PartsAssumption DEF Parcels!Numbers, Entries
  \* A row with other values in some of its fields.
  <1>2. ASSUME NEW i \in {1, 2}, NEW w, SentRow(w),
               w["cert"] \in {table[i]["cert"], Parcels!None, Parcels!File, Parcels!Broken},
               Parcels!ValidateAndSave([table EXCEPT ![i] = w])
        PROVE  ParcelsInv'
    <2> DEFINE t == [table EXCEPT ![i] = w]
    <2>1. DOMAIN t = {1, 2} /\ t[i] = w /\ \A j \in {1, 2} : j # i => t[j] = table[j]
      BY <1>0
    <2> HIDE DEF t
    <2>2. SentTable(t)
      BY <1>0, <1>2, <2>1 DEF SentTable
    <2>3. Parcels!ValidateAndSave(t)
      BY <1>2 DEF t
    <2> QED
      BY <2>2, <2>3, TableKept
  <1>3. ASSUME NEW i \in {1, 2}, NEW id \in LandIds, NEW s \in Parcels!Numbers,
               NEW u \in DOMAIN ParcelUnits, Parcels!Import(i, id, s, u)
        PROVE  ParcelsInv'
    <2> DEFINE w == [table[i] EXCEPT !.id = id, !.size = s, !.unit = u]
    <2>1. Parcels!ValidateAndSave([table EXCEPT ![i] = w])
      BY <1>3 DEF Parcels!Import
    <2>2. SentRow(w) /\ w["cert"] = table[i]["cert"]
      BY <1>0, <1>1 DEF SentRow, Fields
    <2> HIDE DEF w
    <2> QED
      BY <1>2, <2>1, <2>2
  <1>4. ASSUME NEW i \in {1, 2}, NEW id \in LandIds \cup {Parcels!None}, NEW a \in Parcels!Numbers,
               NEW c \in {table[i]["cert"], Parcels!None, Parcels!File, Parcels!Broken},
               Parcels!Edit(i, id, a, c)
        PROVE  ParcelsInv'
    <2> DEFINE w == [table[i] EXCEPT !.id = id, !.area = a, !.cert = c]
    <2>1. Parcels!ValidateAndSave([table EXCEPT ![i] = w])
      BY <1>4 DEF Parcels!Edit
    <2>2. SentRow(w) /\ w["cert"] = c
      BY <1>0, <1>1 DEF SentRow, Fields
    <2> HIDE DEF w
    <2> QED
      BY <1>2, <2>1, <2>2
  <1>5. ASSUME NEW i \in {1, 2}, NEW s \in Parcels!Numbers, NEW u \in DOMAIN ParcelUnits,
               Parcels!Resize(i, s, u)
        PROVE  ParcelsInv'
    <2> DEFINE w == [table[i] EXCEPT !.size = s, !.unit = u]
    <2>1. Parcels!ValidateAndSave([table EXCEPT ![i] = w])
      BY <1>5 DEF Parcels!Resize
    <2>2. SentRow(w) /\ w["cert"] = table[i]["cert"]
      BY <1>0, <1>1 DEF SentRow, Fields
    <2> HIDE DEF w
    <2> QED
      BY <1>2, <2>1, <2>2
  <1>6. ASSUME NEW i \in {1, 2},
               NEW y \in {Parcels!None, Parcels!Today, Parcels!Today + 1, Parcels!Wrong},
               Parcels!Acquire(i, y)
        PROVE  ParcelsInv'
    <2> DEFINE w == [table[i] EXCEPT !.year = y]
    <2>1. Parcels!ValidateAndSave([table EXCEPT ![i] = w])
      BY <1>6 DEF Parcels!Acquire
    <2>2. SentRow(w) /\ w["cert"] = table[i]["cert"]
      BY <1>0 DEF SentRow, Fields
    <2> HIDE DEF w
    <2> QED
      BY <1>2, <2>1, <2>2
  <1>7. ASSUME NEW i \in {1, 2}, NEW c \in {Parcels!None, Parcels!File}, Parcels!Remove(i, c)
        PROVE  ParcelsInv'
    <2> DEFINE w(j) == IF j = i THEN [table[j] EXCEPT !.action = "DELETE"]
                       ELSE IF table[j] = Parcels!NoRow \/ c = Parcels!None THEN table[j]
                       ELSE [table[j] EXCEPT !.cert = c]
               t == [j \in Parcels!Rows |-> w(j)]
    <2>1. Parcels!ValidateAndSave(t)
      BY <1>7 DEF Parcels!Remove
    <2>2. ASSUME NEW j \in {1, 2}
          PROVE  SentRow(w(j)) /\ w(j)["cert"] \in {table[j]["cert"], c}
      BY <1>0, <2>2 DEF SentRow, Fields
    <2>3. DOMAIN t = {1, 2} /\ \A j \in {1, 2} : t[j] = w(j)
      OBVIOUS
    <2> HIDE DEF w, t
    <2>4. SentTable(t)
      BY <2>2, <2>3 DEF SentTable
    <2> QED
      BY <2>1, <2>4, TableKept
  <1>8. ASSUME UNCHANGED parcels PROVE ParcelsInv'
    <2>1. table' = table /\ papers' = papers
      BY <1>8 DEF parcels
    <2>2. \A i \in {1, 2} : StoredRow(table'[i], papers')
      BY <2>1 DEF ParcelsInv
    <2>3. ~Parcels!Duplicated(table')
      BY <2>1 DEF ParcelsInv
    <2> QED
      BY <2>1, <2>2, <2>3 DEF ParcelsInv
  <1> QED
    BY <1>3, <1>4, <1>5, <1>6, <1>7, <1>8 DEF Parcels!Next

LEMMA ParcelsHold ==
    ASSUME ParcelsInv
    PROVE  Parcels!TypeOK /\ Parcels!AreasAgree /\ Parcels!CertificatesExist
  <1> USE ParcelConstants
  <1>1. \A i \in {1, 2} : StoredRow(table[i], papers) /\ SentRow(table[i])
                          /\ Agreeing(table[i])
    BY DEF ParcelsInv, StoredRow
  <1>2. papers \in 0..MaxDocs /\ papers \in Nat /\ papers <= MaxDocs
    BY DEF ParcelsInv
  <1>3. Parcels!TypeOK
    <2> SUFFICES ASSUME NEW i \in {1, 2}
                 PROVE  /\ table[i]["id"] \in LandIds \cup {Parcels!None}
                        /\ table[i]["unit"] \in DOMAIN ParcelUnits
                        /\ {table[i]["size"], table[i]["area"], table[i]["year"]}
                               \subseteq Int \ {Parcels!Wrong}
                        /\ table[i]["cert"] \in 1..MaxDocs \cup {Parcels!None}
      BY <1>2 DEF Parcels!TypeOK
    <2>1. table[i]["cert"] \in 1..MaxDocs \cup {Parcels!None}
      BY <1>1, <1>2 DEF StoredRow
    <2>2. table[i]["size"] \in Int \ {Parcels!Wrong} /\ table[i]["area"] \in Int \ {Parcels!Wrong}
      BY <1>1 DEF Agreeing
    <2>3. table[i]["year"] \in Int \ {Parcels!Wrong}
      BY <1>1 DEF StoredRow, SentRow
    <2> QED
      BY <1>1, <2>1, <2>2, <2>3 DEF SentRow
  <1>4. Parcels!AreasAgree
    <2> SUFFICES ASSUME NEW i \in {1, 2}
                 PROVE  /\ (table[i]["size"] = Parcels!None) = (table[i]["area"] = Parcels!None)
                        /\ table[i]["size"] # Parcels!None =>
                              table[i]["size"] > 0 /\ Parcels!Hectares(table[i]) = table[i]["area"]
                        /\ ~Parcels!Refuses(table[i])
                        /\ Parcels!Validated(table, i)["area"] = table[i]["area"]
      BY DEF Parcels!AreasAgree
    <2>1. papers + Parcels!Uploads(table, i - 1) \in Nat
      <3>1. i = 1 \/ i = 2
        OBVIOUS
      <3>2. Parcels!Uploads(table, i - 1) \in Nat
        BY <3>1, Counted
      <3> QED
        BY <1>2, <3>2
    <2>2. ~Parcels!Refuses(table[i]) /\ Parcels!Validated(table, i)["area"] = table[i]["area"]
      BY <1>1, <1>2, <2>1, StoredIsTaken DEF Parcels!Validated
    <2>3. (table[i]["size"] = Parcels!None) = (table[i]["area"] = Parcels!None)
      BY <1>1 DEF Agreeing
    <2>4. table[i]["size"] # Parcels!None =>
              table[i]["size"] > 0 /\ Parcels!Hectares(table[i]) = table[i]["area"]
      BY <1>1 DEF Agreeing, Parcels!Hectares
    <2> QED
      BY <2>2, <2>3, <2>4
  <1>5. Parcels!CertificatesExist
    BY <1>1 DEF ParcelsInv, StoredRow, Parcels!CertificatesExist
  <1> QED
    BY <1>3, <1>4, <1>5

-----------------------------------------------------------------------------
(* The intake form in the browser (IntakeScreen).                           *)

\* Two days that differ wait for a rule.
DatesPending ==
    /\ DOMAIN box = {"gc", "ec"} /\ timers \in Seq({"gc", "ec"})
    /\ timers = <<>> /\ box.gc > 0 /\ box.ec > 0 => box.gc = box.ec

\* What the cells read is what they read when the page was drawn.
Picks == {"a", "b", Screen!NoName}
RowTypes ==
    /\ rows \in Seq(Picks) /\ names \in Seq(Picks) /\ shown \in Seq(Picks)
    /\ last \in Picks /\ removed \in BOOLEAN /\ Len(names) = Len(rows)
    /\ dialog \in [row : Nat, pick : Picks] /\ pending \in [row : Nat, name : Picks]
    /\ dialog.row <= Len(rows) + 1 /\ pending.row <= Len(rows)
    /\ dialog = Screen!Closed \/ (dialog.row > 0 /\ pending = Screen!Named)
    /\ pending = Screen!Named \/ pending.row > 0

\* A row has the name of its file, or that name waits for the row to be drawn.
NamesPending ==
    removed \/ /\ Len(shown) <= Len(rows)
               /\ \A i \in DOMAIN rows :
                     rows[i] = IF pending.row = i THEN pending.name ELSE names[i]
               /\ \A i \in DOMAIN shown : i # pending.row => shown[i] \in {rows[i], Screen!NoName}

ScreenInv ==
    /\ part = "dates" => DatesPending
    /\ part = "rows" => RowTypes /\ NamesPending

LEMMA ScreenSuffices == ScreenInv => Screen!PairAgrees /\ (part = "rows" => Screen!OwnName)
  <1> SUFFICES ASSUME ScreenInv PROVE Screen!PairAgrees /\ (part = "rows" => Screen!OwnName)
    OBVIOUS
  <1>1. Screen!PairAgrees
    BY DEF ScreenInv, DatesPending, Screen!PairAgrees
  <1>2. ASSUME part = "rows" PROVE Screen!OwnName
    <2> SUFFICES ASSUME ~removed, pending = Screen!Named, Len(shown) = Len(rows),
                        NEW i \in DOMAIN rows
                 PROVE  shown[i] \in {rows[i], Screen!NoName}
      BY DEF Screen!OwnName
    <2>1. RowTypes /\ NamesPending
      BY <1>2 DEF ScreenInv
    <2>2. i \in DOMAIN shown /\ i # 0
      BY <2>1 DEF RowTypes
    <2>3. pending.row = 0
      BY DEF Screen!Named
    <2>4. QED
      BY <2>1, <2>2, <2>3 DEF NamesPending
  <1>3. QED
    BY <1>1, <1>2

LEMMA ScreenStart == Screen!Init => ScreenInv
  <1> SUFFICES ASSUME Screen!Init PROVE ScreenInv
    OBVIOUS
  <1>1. ASSUME part = "dates" PROVE DatesPending
    <2>1. box = [f \in {"gc", "ec"} |-> -9] /\ timers = <<>>
      BY <1>1 DEF Screen!Init, Screen!Empty
    <2>2. box.gc = -9
      BY <2>1
    <2>3. QED
      BY <2>1, <2>2 DEF DatesPending
  <1>2. ASSUME part = "rows" PROVE RowTypes /\ NamesPending
    <2>1. /\ rows = <<>> /\ names = <<>> /\ shown = <<>> /\ last = Screen!NoName /\ removed = FALSE
          /\ dialog = Screen!Closed /\ pending = Screen!Named
      BY DEF Screen!Init
    <2>2. RowTypes
      <3>1. Screen!NoName \in Picks
        BY DEF Picks
      <3>2. /\ dialog \in [row : Nat, pick : Picks] /\ pending \in [row : Nat, name : Picks]
            /\ dialog.row = 0 /\ pending.row = 0
        BY <2>1, <3>1 DEF Screen!Closed, Screen!Named
      <3>3. <<>> \in Seq(Picks) /\ Len(<<>>) = 0
        OBVIOUS
      <3>4. /\ rows \in Seq(Picks) /\ names \in Seq(Picks) /\ shown \in Seq(Picks)
            /\ Len(rows) = 0 /\ Len(names) = 0
        BY <2>1, <3>3, Zenon
      <3>5. /\ last \in Picks /\ removed \in BOOLEAN
            /\ dialog = Screen!Closed /\ pending = Screen!Named
        BY <2>1, <3>1
      <3>6. QED
        BY <3>2, <3>4, <3>5 DEF RowTypes
    <2>3. NamesPending
      BY <2>1 DEF NamesPending
    <2>4. QED
      BY <2>2, <2>3
  <1>3. QED
    BY <1>1, <1>2 DEF ScreenInv

\* A rule that finds nothing to write finds the two dates equal.
LEMMA PairStep ==
    ASSUME DatesPending, Screen!DateStep
    PROVE  DatesPending'
  <1> USE DEF DatesPending
  <1>1. ASSUME NEW f \in {"gc", "ec"}, NEW v, Screen!Type(f, v)
        PROVE  DatesPending'
    <2>1. /\ box' = [box EXCEPT ![f] = v] /\ timers' = Append(timers, f)
      BY <1>1 DEF Screen!Type
    <2>2. timers' \in Seq({"gc", "ec"}) /\ timers' # <<>>
      BY <2>1
    <2>3. QED
      BY <2>1, <2>2
  <1>2. ASSUME Screen!SyncPair
        PROVE  DatesPending'
    <2>1. PICK c, o \in {"gc", "ec"} :
              c = Head(timers) /\ o = (IF c = "gc" THEN "ec" ELSE "gc") /\ timers # <<>>
      BY <1>2 DEF Screen!SyncPair
    <2>2. Tail(timers) \in Seq({"gc", "ec"})
      BY <2>1
    <2>3. ASSUME NEW v, box' = [box EXCEPT ![o] = v], timers' = Append(Tail(timers), o)
          PROVE  DatesPending'
      <3>1. timers' \in Seq({"gc", "ec"}) /\ timers' # <<>>
        BY <2>2, <2>3
      <3>2. QED
        BY <2>3, <3>1
    <2>4. ASSUME UNCHANGED box, timers' = Tail(timers), ~(box[c] > 0 /\ box[o] # box[c])
          PROVE  DatesPending'
      <3>1. box.gc > 0 /\ box.ec > 0 => box.gc = box.ec
        BY <2>1, <2>4
      <3>2. QED
        BY <2>2, <2>4, <3>1
    <2>5. QED
      BY <1>2, <2>1, <2>3, <2>4 DEF Screen!SyncPair, Screen!Fill
  <1>3. QED
    BY <1>1, <1>2 DEF Screen!DateStep, Screen!TypeDate

LEMMA TableStep ==
    ASSUME RowTypes, NamesPending, Screen!RowStep
    PROVE  RowTypes' /\ NamesPending'
  <1>a. Screen!NoName \in Picks /\ "a" \in Picks /\ "b" \in Picks
    BY DEF Picks, Screen!NoName
  <1>0. /\ rows \in Seq(Picks) /\ names \in Seq(Picks) /\ shown \in Seq(Picks)
        /\ last \in Picks /\ removed \in BOOLEAN /\ Len(names) = Len(rows) /\ Len(rows) \in Nat
        /\ dialog.row \in Nat /\ dialog.pick \in Picks
        /\ pending.row \in Nat /\ pending.name \in Picks
        /\ DOMAIN rows = 1 .. Len(rows) /\ DOMAIN names = 1 .. Len(rows)
        /\ DOMAIN shown = 1 .. Len(shown)
    <2>1. /\ rows \in Seq(Picks) /\ names \in Seq(Picks) /\ shown \in Seq(Picks)
          /\ last \in Picks /\ removed \in BOOLEAN /\ Len(names) = Len(rows)
          /\ dialog \in [row : Nat, pick : Picks] /\ pending \in [row : Nat, name : Picks]
      BY DEF RowTypes
    <2>2. QED
      BY <2>1
  <1>1. CASE Screen!OpenDialog
    <2>1. PICK r \in 1 .. (Len(rows) + 1) : dialog' = [row |-> r, pick |-> Screen!NoName]
      BY <1>1 DEF Screen!OpenDialog
    <2>2. dialog'.row = r /\ dialog' \in [row : Nat, pick : Picks]
      BY <1>a, <2>1
    <2>3. UNCHANGED <<rows, names, pending, last, shown, removed>> /\ pending = Screen!Named
      BY <1>1 DEF Screen!OpenDialog
    <2>4. QED
      BY <1>0, <2>2, <2>3 DEF RowTypes, NamesPending
  <1>2. CASE Screen!Choose
    <2>1. PICK f \in {"a", "b"} : dialog' = [dialog EXCEPT !.pick = f] /\ last' = f
      BY <1>2 DEF Screen!Choose
    <2>2. dialog' \in [row : Nat, pick : Picks] /\ dialog'.row = dialog.row
      BY <1>a, <2>1 DEF RowTypes
    <2>3. UNCHANGED <<rows, names, pending, shown, removed>> /\ dialog # Screen!Closed
      BY <1>2 DEF Screen!Choose
    <2>4. QED
      BY <1>0, <2>1, <2>2, <2>3 DEF RowTypes, NamesPending
  <1>3. CASE Screen!CancelDialog
    <2>1. UNCHANGED <<rows, names, pending, last, shown, removed>> /\ dialog' = Screen!Closed
      BY <1>3 DEF Screen!CancelDialog
    <2>2. dialog' \in [row : Nat, pick : Picks] /\ dialog'.row = 0
      BY <1>a, <2>1 DEF Screen!Closed
    <2>3. QED
      BY <1>0, <2>1, <2>2 DEF RowTypes, NamesPending
  <1>4. CASE Screen!SaveDialog
    <2>1. PICK r \in Nat, k \in Picks : r = dialog.row /\ k = dialog.pick
      BY <1>0
    <2>2. /\ r > 0 /\ r <= Len(rows) + 1 /\ pending = Screen!Named
      BY <1>4, <2>1 DEF RowTypes, Screen!SaveDialog
    <2>3. /\ dialog' = Screen!Closed /\ UNCHANGED <<last, shown, removed>>
          /\ rows' = IF r > Len(rows) THEN Append(rows, k)
                     ELSE IF k # Screen!NoName THEN [rows EXCEPT ![r] = k] ELSE rows
          /\ names' = IF r > Len(rows) THEN Append(names, Screen!NoName) ELSE names
          /\ pending' = IF k = Screen!NoName THEN pending ELSE [row |-> r, name |-> k]
      BY <1>4, <2>1 DEF Screen!SaveDialog
    <2>4. dialog' \in [row : Nat, pick : Picks] /\ dialog'.row = 0
      BY <1>a, <2>3 DEF Screen!Closed
    <2>5. pending.row = 0 /\ pending.name = Screen!NoName
      BY <2>2 DEF Screen!Named
    <2>6. /\ pending' \in [row : Nat, name : Picks]
          /\ pending'.row = (IF k = Screen!NoName THEN 0 ELSE r) /\ pending'.name = k
          /\ pending' = Screen!Named \/ pending'.row > 0
      <3>1. CASE k = Screen!NoName
        BY <2>2, <2>3, <2>5, <3>1 DEF RowTypes
      <3>2. CASE k # Screen!NoName
        BY <2>2, <2>3, <3>2
      <3>3. QED
        BY <3>1, <3>2
    <2>7. /\ rows' \in Seq(Picks) /\ names' \in Seq(Picks) /\ Len(names') = Len(rows')
          /\ Len(rows') >= Len(rows) /\ r <= Len(rows') /\ Len(rows') \in Nat
          /\ \A i \in DOMAIN rows' :
                /\ rows'[i] = IF i = r /\ (k # Screen!NoName \/ r > Len(rows)) THEN k ELSE rows[i]
                /\ names'[i] = IF i > Len(rows) THEN Screen!NoName ELSE names[i]
                /\ i \in DOMAIN rows \/ i = r
      <3>1. CASE r > Len(rows)
        <4>1. r = Len(rows) + 1
          BY <1>0, <2>2, <3>1
        <4>2. QED
          BY <1>0, <1>a, <2>1, <2>3, <4>1
      <3>2. CASE ~(r > Len(rows))
        BY <1>0, <2>1, <2>2, <2>3, <3>2, ExceptSeq
      <3>3. QED
        BY <3>1, <3>2
    <2>8. RowTypes'
      BY <1>0, <2>3, <2>4, <2>6, <2>7 DEF RowTypes
    <2>9. NamesPending'
      <3> SUFFICES ASSUME ~removed PROVE NamesPending'
        BY <2>3 DEF NamesPending
      <3>1. /\ Len(shown) <= Len(rows)
            /\ \A i \in DOMAIN rows : rows[i] = names[i]
            /\ \A i \in DOMAIN shown : shown[i] \in {rows[i], Screen!NoName}
        BY <1>0, <2>5 DEF NamesPending
      <3>2. \A i \in DOMAIN rows' :
                rows'[i] = IF pending'.row = i THEN pending'.name ELSE names'[i]
        BY <1>0, <2>2, <2>6, <2>7, <3>1
      <3>3. \A i \in DOMAIN shown : i # pending'.row => shown[i] \in {rows'[i], Screen!NoName}
        BY <1>0, <2>6, <2>7, <3>1
      <3>4. QED
        BY <1>0, <2>3, <2>7, <3>1, <3>2, <3>3 DEF NamesPending
    <2>10. QED
      BY <2>8, <2>9
  <1>5. CASE Screen!Remove
    <2>1. PICK r \in DOMAIN rows :
              rows' = SubSeq(rows, 1, r - 1) \o SubSeq(rows, r + 1, Len(rows))
      BY <1>5 DEF Screen!Remove
    <2>2. /\ names' = [i \in 1 .. Len(rows') |-> Screen!NoName] /\ removed' = TRUE
          /\ UNCHANGED <<dialog, pending, last, shown>>
          /\ dialog = Screen!Closed /\ pending = Screen!Named
      BY <1>5 DEF Screen!Remove
    <2>3. SubSeq(rows, 1, r - 1) \in Seq(Picks) /\ SubSeq(rows, r + 1, Len(rows)) \in Seq(Picks)
      <3>1. r \in 1 .. Len(rows)
        BY <1>0
      <3>2. /\ r - 1 \in Int /\ \A i \in 1 .. (r - 1) : rows[i] \in Picks
            /\ r + 1 \in Int /\ \A i \in (r + 1) .. Len(rows) : rows[i] \in Picks
        BY <1>0, <3>1
      <3>3. SubSeq(rows, 1, r - 1) \in Seq(Picks)
        BY <3>2, SubSeqProperties
      <3>4. QED
        BY <1>0, <3>2, <3>3, SubSeqProperties
    <2>4. rows' \in Seq(Picks) /\ Len(rows') \in Nat
      BY <2>1, <2>3, ConcatProperties, LenProperties
    <2>5. names' \in Seq(Picks) /\ Len(names') = Len(rows')
      BY <1>a, <2>2, <2>4
    <2>6. dialog.row = 0 /\ pending.row = 0
      BY <2>2 DEF Screen!Closed, Screen!Named
    <2>7. QED
      BY <1>0, <2>2, <2>4, <2>5, <2>6 DEF RowTypes, NamesPending
  <1>6. CASE Screen!FileCellNames
    <2>1. /\ names' = IF pending.row \in DOMAIN names
                      THEN [names EXCEPT ![pending.row] = pending.name] ELSE names
          /\ pending' = IF pending.row \in DOMAIN names THEN Screen!Named ELSE pending
          /\ shown' = [i \in DOMAIN rows |->
                          IF rows[i] = Screen!NoName THEN Screen!NoName
                          ELSE IF names'[i] # Screen!NoName THEN names'[i] ELSE last]
          /\ UNCHANGED <<rows, dialog, last, removed>>
      BY <1>6 DEF Screen!FileCellNames
    <2>2. names' \in Seq(Picks) /\ Len(names') = Len(rows)
      BY <1>0, <2>1, ExceptSeq
    <2>3. pending' = Screen!Named
      BY <1>0, <2>1 DEF RowTypes
    <2>4. pending' \in [row : Nat, name : Picks] /\ pending'.row = 0
      BY <1>a, <2>3 DEF Screen!Named
    <2>5. shown' \in Seq(Picks) /\ Len(shown') = Len(rows)
      <3>1. \A i \in 1 .. Len(rows) : names'[i] \in Picks
        BY <1>0, <2>2
      <3>2. shown' \in [1 .. Len(rows) -> Picks]
        BY <1>0, <1>a, <2>1, <3>1
      <3>3. QED
        BY <1>0, <3>2
    <2>6. RowTypes'
      BY <1>0, <2>1, <2>2, <2>3, <2>4, <2>5 DEF RowTypes
    <2>7. ASSUME ~removed, NEW i \in DOMAIN rows
          PROVE  rows[i] = names'[i] /\ shown'[i] \in {rows[i], Screen!NoName}
      <3>1. rows[i] = names'[i]
        BY <1>0, <2>1, <2>7 DEF NamesPending
      <3>2. QED
        BY <2>1, <3>1
    <2>8. NamesPending'
      <3>1. DOMAIN shown' = 1 .. Len(rows) /\ pending'.row = 0
        BY <1>0, <2>1, <2>4
      <3>2. QED
        BY <1>0, <2>1, <2>5, <2>7, <3>1 DEF NamesPending
    <2>9. QED
      BY <2>6, <2>8
  <1>7. QED
    BY <1>1, <1>2, <1>3, <1>4, <1>5, <1>6 DEF Screen!RowStep

LEMMA ScreenStep == ScreenInv /\ Screen!Next => ScreenInv'
  <1> SUFFICES ASSUME ScreenInv, Screen!Next PROVE ScreenInv'
    OBVIOUS
  <1>1. CASE part = "dates" /\ Screen!DateStep
    BY <1>1, PairStep DEF Screen!Next, ScreenInv
  <1>2. CASE part = "rows" /\ Screen!RowStep
    BY <1>2, TableStep DEF Screen!Next, ScreenInv
  <1>3. CASE part \in {"family", "photo"}
    BY <1>3 DEF Screen!Next, ScreenInv
  <1>4. QED
    BY <1>1, <1>2, <1>3 DEF Screen!Next

\* The kinds of what the four parts of the page hold.
Jobs == [file : {"broken", "small", "big"}, at : {"probe", "shrink"}]
DateValues == {Screen!Empty, Screen!Partial, Screen!Unreal, 1, 2}
CountValues == {Screen!Empty} \cup -1..2
SizeValues == {Screen!Empty} \cup -2..4

FieldTypes ==
    /\ part = "dates" =>
          /\ DOMAIN box = {"gc", "ec"} /\ \A f \in {"gc", "ec"} : box[f] \in DateValues
          /\ timers \in Seq({"gc", "ec"})
    /\ part # "dates" =>
          /\ timers \in Seq(Screen!Counts)
          /\ DOMAIN box = Screen!Counts /\ box["size"] \in SizeValues
          /\ \A f \in {"male", "female", "children"} : box[f] \in CountValues

\* The messages are those of the counts once the rules of all edits have run.
FlagsCurrent == part = "family" /\ timers = <<>> => flagged = Screen!Problems(box)

ScreenTyped ==
    /\ FieldTypes /\ FlagsCurrent
    /\ Len(timers) <= MaxTimers
    /\ flagged \subseteq {"size", "children"}
    /\ jobs \subseteq Jobs
    /\ DOMAIN photo = {"input", "widget"} /\ photo["widget"] \in Screen!Photos \cup {"none"}
    /\ Len(rows) <= MaxRows /\ dialog["row"] <= MaxRows
    /\ part # "rows" => Len(rows) = 0 /\ Len(names) = 0 /\ rows \in Seq(Picks)

LEMMA ScreenBounds == MaxTimers \in Nat /\ MaxJobs \in Nat /\ MaxRows \in Nat
  BY PartsAssumption

LEMMA TypedStart == Screen!Init => ScreenTyped
  <1> SUFFICES ASSUME Screen!Init PROVE ScreenTyped
    OBVIOUS
  <1>1. timers \in Seq({"gc", "ec"}) /\ timers \in Seq(Screen!Counts) /\ Len(timers) <= MaxTimers
    BY ScreenBounds DEF Screen!Init
  <1>2. FieldTypes
    BY <1>1 DEF Screen!Init, FieldTypes, Screen!Counts, DateValues, CountValues, SizeValues
  <1>3. rows \in Seq(Picks) /\ Len(rows) = 0 /\ Len(names) = 0
    BY DEF Screen!Init
  <1>4. /\ flagged = {} /\ jobs = {} /\ photo = [input |-> "none", widget |-> "none"]
        /\ dialog = [row |-> 0, pick |-> Screen!NoName]
    BY DEF Screen!Init, Screen!Closed
  <1>5. dialog["row"] = 0 /\ DOMAIN photo = {"input", "widget"} /\ photo["widget"] = "none"
    BY <1>4
  <1>6. FlagsCurrent
    <2> SUFFICES ASSUME part = "family" PROVE flagged = Screen!Problems(box)
      BY DEF FlagsCurrent
    <2>1. box = [f \in Screen!Counts |-> Screen!Empty]
      BY DEF Screen!Init
    <2>2. \A f \in {"size", "children"} : box[f] = Screen!Empty
      BY <2>1 DEF Screen!Counts
    <2>3. Screen!Problems(box) = {}
      BY <2>2 DEF Screen!Problems
    <2> QED
      BY <1>4, <2>3
  <1> QED
    BY <1>1, <1>2, <1>3, <1>4, <1>5, <1>6, ScreenBounds DEF ScreenTyped

\* An edit of a field, and the queue behind it.
LEMMA QueueKeeps ==
    ASSUME NEW K, timers \in Seq(K), Len(timers) <= MaxTimers
    PROVE  /\ \A f \in K : Len(timers) < MaxTimers =>
                 Append(timers, f) \in Seq(K) /\ Len(Append(timers, f)) <= MaxTimers
           /\ timers # <<>> =>
                 /\ Head(timers) \in K
                 /\ Tail(timers) \in Seq(K) /\ Len(Tail(timers)) <= MaxTimers
                 /\ \A f \in K : Append(Tail(timers), f) \in Seq(K)
                                 /\ Len(Append(Tail(timers), f)) <= MaxTimers
  <1> USE ScreenBounds
  <1>1. \A f \in K : Len(timers) < MaxTimers =>
                 Append(timers, f) \in Seq(K) /\ Len(Append(timers, f)) <= MaxTimers
    OBVIOUS
  <1>2. ASSUME timers # <<>>
        PROVE  /\ Head(timers) \in K
               /\ Tail(timers) \in Seq(K) /\ Len(Tail(timers)) = Len(timers) - 1
    BY <1>2, HeadTailProperties
  <1>3. ASSUME timers # <<>>, NEW f \in K
        PROVE  Append(Tail(timers), f) \in Seq(K) /\ Len(Append(Tail(timers), f)) <= MaxTimers
    <2>1. Len(Append(Tail(timers), f)) = Len(Tail(timers)) + 1
      BY <1>2, <1>3
    <2> QED
      BY <1>2, <1>3, <2>1
  <1> QED
    BY <1>1, <1>2, <1>3

LEMMA DatesTyped ==
    ASSUME ScreenTyped, part = "dates", Screen!DateStep
    PROVE  /\ timers' \in Seq({"gc", "ec"}) /\ Len(timers') <= MaxTimers /\ flagged' = flagged
           /\ DOMAIN box' = {"gc", "ec"} /\ \A f \in {"gc", "ec"} : box'[f] \in DateValues
  <1>0. /\ DOMAIN box = {"gc", "ec"} /\ \A f \in {"gc", "ec"} : box[f] \in DateValues
        /\ timers \in Seq({"gc", "ec"}) /\ Len(timers) <= MaxTimers
    BY DEF ScreenTyped, FieldTypes
  <1>1. ASSUME NEW f \in {"gc", "ec"}, NEW v \in DateValues, box' = [box EXCEPT ![f] = v]
        PROVE  DOMAIN box' = {"gc", "ec"} /\ \A g \in {"gc", "ec"} : box'[g] \in DateValues
    BY <1>0, <1>1
  <1>2. ASSUME NEW f \in {"gc", "ec"}, NEW v \in DateValues, Screen!Type(f, v)
        PROVE  /\ timers' \in Seq({"gc", "ec"}) /\ Len(timers') <= MaxTimers /\ flagged' = flagged
               /\ box' = [box EXCEPT ![f] = v]
    <2>1. /\ Len(timers) < MaxTimers /\ timers' = Append(timers, f) /\ flagged' = flagged
          /\ box' = [box EXCEPT ![f] = v]
      BY <1>2 DEF Screen!Type
    <2> QED
      BY <1>0, <2>1, QueueKeeps
  <1>3. ASSUME Screen!SyncPair
        PROVE  /\ timers' \in Seq({"gc", "ec"}) /\ Len(timers') <= MaxTimers /\ flagged' = flagged
               /\ \/ UNCHANGED box
                  \/ \E f \in {"gc", "ec"}, v \in DateValues : box' = [box EXCEPT ![f] = v]
    <2>1. PICK c, o \in {"gc", "ec"} :
              c = Head(timers) /\ o = (IF c = "gc" THEN "ec" ELSE "gc") /\ timers # <<>>
      BY <1>0, <1>3, QueueKeeps DEF Screen!SyncPair
    <2>2. /\ Tail(timers) \in Seq({"gc", "ec"}) /\ Len(Tail(timers)) <= MaxTimers
          /\ Append(Tail(timers), o) \in Seq({"gc", "ec"})
          /\ Len(Append(Tail(timers), o)) <= MaxTimers
      BY <1>0, <2>1, QueueKeeps
    <2>3. /\ flagged' = flagged
          /\ \/ \E v \in {Screen!Empty, box[c]} : box' = [box EXCEPT ![o] = v]
                                                  /\ timers' = Append(Tail(timers), o)
             \/ timers' = Tail(timers) /\ UNCHANGED box
      BY <1>3, <2>1 DEF Screen!SyncPair, Screen!Fill
    <2>4. Screen!Empty \in DateValues /\ box[c] \in DateValues
      BY <1>0 DEF DateValues
    <2> QED
      BY <2>2, <2>3, <2>4
  <1> QED
    BY <1>0, <1>1, <1>2, <1>3 DEF Screen!DateStep, Screen!TypeDate, DateValues

LEMMA FamilyTyped ==
    ASSUME ScreenTyped, part # "dates", Screen!FamilyStep
    PROVE  /\ timers' \in Seq(Screen!Counts) /\ Len(timers') <= MaxTimers
           /\ flagged' \subseteq {"size", "children"}
           /\ timers' = <<>> => flagged' = Screen!Problems(box')
           /\ DOMAIN box' = Screen!Counts /\ box'["size"] \in SizeValues
           /\ \A f \in {"male", "female", "children"} : box'[f] \in CountValues
  <1>0. /\ timers \in Seq(Screen!Counts) /\ Len(timers) <= MaxTimers
        /\ flagged \subseteq {"size", "children"}
        /\ DOMAIN box = Screen!Counts /\ box["size"] \in SizeValues
        /\ \A f \in {"male", "female", "children"} : box[f] \in CountValues
    BY DEF ScreenTyped, FieldTypes
  <1>1. ASSUME NEW f \in Screen!Counts, NEW v \in {Screen!Empty, -1, 0, 1}, Screen!Type(f, v)
        PROVE  /\ timers' \in Seq(Screen!Counts) /\ Len(timers') <= MaxTimers /\ flagged' = flagged
               /\ timers' # <<>> /\ box' = [box EXCEPT ![f] = v]
    <2>1. /\ Len(timers) < MaxTimers /\ timers' = Append(timers, f) /\ flagged' = flagged
          /\ box' = [box EXCEPT ![f] = v]
      BY <1>1 DEF Screen!Type
    <2> QED
      BY <1>0, <2>1, QueueKeeps
  <1>2. ASSUME NEW f \in Screen!Counts, NEW v \in {Screen!Empty, -1, 0, 1}, box' = [box EXCEPT ![f] = v]
        PROVE  /\ DOMAIN box' = Screen!Counts /\ box'["size"] \in SizeValues
               /\ \A g \in {"male", "female", "children"} : box'[g] \in CountValues
    <2>1. v \in SizeValues /\ v \in CountValues
      BY DEF SizeValues, CountValues
    <2> QED
      BY <1>0, <1>2, <2>1 DEF Screen!Counts
  <1>3. ASSUME Screen!FamilySizeRule
        PROVE  /\ timers' \in Seq(Screen!Counts) /\ Len(timers') <= MaxTimers
               /\ flagged' \subseteq {"size", "children"} /\ flagged' = Screen!Problems(box')
               /\ \/ UNCHANGED box
                  \/ \E v \in SizeValues : box' = [box EXCEPT !["size"] = v]
    <2> DEFINE sum == Screen!Or0(box["male"]) + Screen!Or0(box["female"])
    <2>1. sum \in SizeValues
      <3>1. box["male"] \in CountValues /\ box["female"] \in CountValues
        BY <1>0
      <3>2. \A n \in CountValues : Screen!Or0(n) \in -1..2
        BY DEF CountValues, Screen!Or0
      <3> QED
        BY <3>1, <3>2 DEF SizeValues
    <2>2. timers # <<>> /\ "size" \in Screen!Counts
      BY <1>3 DEF Screen!FamilySizeRule, Screen!Counts
    <2>3. timers' \in {Tail(timers), Append(Tail(timers), "size")}
      BY <1>3 DEF Screen!FamilySizeRule
    <2>4. timers' \in Seq(Screen!Counts) /\ Len(timers') <= MaxTimers
      BY <1>0, <2>2, <2>3, QueueKeeps
    <2>5. UNCHANGED box \/ box' = [box EXCEPT !["size"] = sum]
      BY <1>3 DEF Screen!FamilySizeRule
    <2>6. flagged' = Screen!Problems(box')
      BY <1>3 DEF Screen!FamilySizeRule
    <2>7. flagged' \subseteq {"size", "children"}
      BY <2>6 DEF Screen!Problems
    <2> HIDE DEF sum
    <2> QED
      BY <2>1, <2>4, <2>5, <2>6, <2>7
  <1>4. ASSUME NEW v \in SizeValues, box' = [box EXCEPT !["size"] = v]
        PROVE  /\ DOMAIN box' = Screen!Counts /\ box'["size"] \in SizeValues
               /\ \A g \in {"male", "female", "children"} : box'[g] \in CountValues
    BY <1>0, <1>4 DEF Screen!Counts
  <1>5. ASSUME Screen!OpenRecord
        PROVE  /\ timers' = timers /\ flagged' = {} /\ Screen!Problems(box') = {}
               /\ DOMAIN box' = Screen!Counts /\ box'["size"] \in SizeValues
               /\ \A f \in {"male", "female", "children"} : box'[f] \in CountValues
    <2>1. {Screen!Empty, 2} \subseteq SizeValues /\ {Screen!Empty, 2} \subseteq CountValues
      BY DEF SizeValues, CountValues
    <2>2. PICK b \in [Screen!Counts -> {Screen!Empty, 2}] :
              Screen!HouseholdSize(b, FALSE, FALSE) /\ box' = b
      BY <1>5 DEF Screen!OpenRecord
    <2>3. \A f \in Screen!Counts : b[f] \in {Screen!Empty, 2}
      BY <2>2
    <2>4. Screen!Problems(b) = {}
      <3>1. /\ ~(Screen!Empty \notin {b.size, b.male, b.female} /\ b.size # b.male + b.female)
            /\ Screen!Empty \in {b.size, b.children} \/ b.children <= b.size
        BY <2>2 DEF Screen!HouseholdSize
      <3>2. ~(Screen!Empty \notin {b.size, b.children} /\ b.children > b.size)
        BY <2>3, <3>1 DEF Screen!Counts, Screen!Empty
      <3> QED
        BY <3>1, <3>2, Zenon DEF Screen!Problems
    <2> QED
      BY <1>5, <2>1, <2>2, <2>3, <2>4 DEF Screen!OpenRecord, Screen!Counts
  <1>6. CASE Screen!TypeCount
    <2>1. PICK f \in Screen!Counts, v \in {Screen!Empty, -1, 0, 1} : Screen!Type(f, v)
      BY <1>6 DEF Screen!TypeCount
    <2>2. /\ timers' \in Seq(Screen!Counts) /\ Len(timers') <= MaxTimers /\ flagged' = flagged
          /\ timers' # <<>> /\ box' = [box EXCEPT ![f] = v]
      BY <1>1, <2>1
    <2>3. /\ DOMAIN box' = Screen!Counts /\ box'["size"] \in SizeValues
          /\ \A g \in {"male", "female", "children"} : box'[g] \in CountValues
      BY <1>2, <2>2
    <2> QED
      BY <1>0, <2>2, <2>3
  <1>7. CASE Screen!FamilySizeRule
    <2>1. CASE UNCHANGED box
      BY <1>0, <1>3, <1>7, <2>1
    <2>2. CASE \E v \in SizeValues : box' = [box EXCEPT !["size"] = v]
      BY <1>3, <1>4, <1>7, <2>2
    <2> QED
      BY <1>3, <1>7, <2>1, <2>2
  <1>8. CASE Screen!OpenRecord
    BY <1>0, <1>5, <1>8
  <1> QED
    BY <1>6, <1>7, <1>8 DEF Screen!FamilyStep

LEMMA PhotoTyped ==
    ASSUME jobs \subseteq Jobs, DOMAIN photo = {"input", "widget"},
           photo["widget"] \in Screen!Photos \cup {"none"}, Screen!PhotoStep
    PROVE  /\ jobs' \subseteq Jobs /\ DOMAIN photo' = {"input", "widget"}
           /\ photo'["widget"] \in Screen!Photos \cup {"none"}
  <1>1. ASSUME NEW f, photo' = [photo EXCEPT !.input = f]
        PROVE  DOMAIN photo' = {"input", "widget"} /\ photo'["widget"] = photo["widget"]
    BY <1>1
  <1>2. ASSUME NEW f \in Screen!Photos, Screen!ReplaceFiles(f)
        PROVE  DOMAIN photo' = {"input", "widget"} /\ photo'["widget"] \in Screen!Photos
    BY <1>2 DEF Screen!ReplaceFiles
  <1>3. CASE Screen!PickPhoto
    <2>1. PICK f \in Screen!Files :
              IF f = "document"
              THEN photo' = [photo EXCEPT !.input = "none"] /\ UNCHANGED jobs
              ELSE /\ jobs' = jobs \cup {[file |-> f, at |-> "probe"]}
                   /\ photo' = [photo EXCEPT !.input = f]
      BY <1>3 DEF Screen!PickPhoto
    <2>2. f # "document" => [file |-> f, at |-> "probe"] \in Jobs
      BY DEF Screen!Files, Jobs
    <2> QED
      BY <1>1, <2>1, <2>2
  <1>4. ASSUME NEW j \in jobs, Screen!Probed(j)
        PROVE  /\ jobs' \subseteq Jobs /\ DOMAIN photo' = {"input", "widget"}
               /\ photo'["widget"] \in Screen!Photos \cup {"none"}
    <2>1. j \in Jobs /\ j.file \in {"broken", "small", "big"}
      BY DEF Jobs
    <2>2. [j EXCEPT !.at = "shrink"] \in Jobs
      BY <2>1 DEF Jobs
    <2>3. "small" \in Screen!Photos
      BY DEF Screen!Photos
    <2> QED
      BY <1>1, <1>2, <1>4, <2>1, <2>2, <2>3 DEF Screen!Probed
  <1>5. ASSUME NEW j \in jobs, Screen!Shrunk(j)
        PROVE  /\ jobs' \subseteq Jobs /\ DOMAIN photo' = {"input", "widget"}
               /\ photo'["widget"] \in Screen!Photos \cup {"none"}
    <2>1. "shrunk" \in Screen!Photos
      BY DEF Screen!Photos
    <2> QED
      BY <1>1, <1>2, <1>5, <2>1 DEF Screen!Shrunk
  <1> QED
    BY <1>3, <1>4, <1>5 DEF Screen!PhotoStep, Screen!ReadImage

LEMMA TableTyped ==
    ASSUME RowTypes, Len(rows) <= MaxRows, dialog["row"] <= MaxRows, Screen!RowStep
    PROVE  Len(rows') <= MaxRows /\ dialog'["row"] <= MaxRows
  <1>0. /\ rows \in Seq(Picks) /\ Len(rows) \in Nat /\ dialog["row"] \in Nat
        /\ DOMAIN dialog = {"row", "pick"} /\ dialog["row"] <= Len(rows) + 1
    BY DEF RowTypes
  <1>1. Screen!Closed["row"] = 0
    BY DEF Screen!Closed
  <1> USE ScreenBounds
  <1>2. CASE Screen!OpenDialog
    BY <1>0, <1>2 DEF Screen!OpenDialog
  <1>3. CASE Screen!Choose
    BY <1>0, <1>3 DEF Screen!Choose
  <1>4. CASE Screen!CancelDialog
    BY <1>0, <1>1, <1>4 DEF Screen!CancelDialog
  <1>5. CASE Screen!SaveDialog
    <2>1. dialog' = Screen!Closed
      BY <1>5 DEF Screen!SaveDialog
    <2>2. rows' = IF dialog["row"] > Len(rows) THEN Append(rows, dialog["pick"])
                  ELSE IF dialog["pick"] # Screen!NoName
                  THEN [rows EXCEPT ![dialog["row"]] = dialog["pick"]] ELSE rows
      BY <1>5 DEF Screen!SaveDialog
    <2>3. dialog["pick"] \in Picks
      BY DEF RowTypes
    <2>4. CASE dialog["row"] > Len(rows)
      <3>1. Len(rows') = Len(rows) + 1
        BY <1>0, <2>2, <2>3, <2>4
      <3> QED
        BY <1>0, <1>1, <2>1, <2>4, <3>1
    <2>5. CASE ~(dialog["row"] > Len(rows))
      <3>1. Len(rows') = Len(rows)
        BY <1>0, <2>2, <2>3, <2>5
      <3> QED
        BY <1>1, <2>1, <3>1
    <2> QED
      BY <2>4, <2>5
  <1>6. CASE Screen!Remove
    <2>1. PICK r \in DOMAIN rows :
              rows' = SubSeq(rows, 1, r - 1) \o SubSeq(rows, r + 1, Len(rows))
      BY <1>6 DEF Screen!Remove
    <2>2. r \in 1..Len(rows)
      BY <1>0
    <2>3. /\ SubSeq(rows, 1, r - 1) \in Seq(Picks) /\ Len(SubSeq(rows, 1, r - 1)) = r - 1
          /\ SubSeq(rows, r + 1, Len(rows)) \in Seq(Picks)
          /\ Len(SubSeq(rows, r + 1, Len(rows))) = Len(rows) - r
      BY <1>0, <2>2
    <2>4. Len(rows') = Len(rows) - 1
      <3> DEFINE front == SubSeq(rows, 1, r - 1)
                 back == SubSeq(rows, r + 1, Len(rows))
      <3>1. front \in Seq(Picks) /\ back \in Seq(Picks) /\ rows' = front \o back
            /\ Len(front) = r - 1 /\ Len(back) = Len(rows) - r
        BY <2>1, <2>3
      <3> HIDE DEF front, back
      <3>2. Len(rows') = Len(front) + Len(back)
        BY <3>1
      <3> QED
        BY <1>0, <2>2, <3>1, <3>2
    <2> QED
      BY <1>0, <1>6, <2>4 DEF Screen!Remove
  <1>7. CASE Screen!FileCellNames
    BY <1>7 DEF Screen!FileCellNames
  <1> QED
    BY <1>2, <1>3, <1>4, <1>5, <1>6, <1>7 DEF Screen!RowStep

LEMMA TypedStep ==
    ASSUME ScreenInv, ScreenTyped, Screen!Next
    PROVE  ScreenTyped'
  <1>1. CASE part = "dates" /\ Screen!DateStep /\ UNCHANGED <<part, jobs, photo, Screen!files>>
    <2>1. /\ timers' \in Seq({"gc", "ec"}) /\ Len(timers') <= MaxTimers /\ flagged' = flagged
          /\ DOMAIN box' = {"gc", "ec"} /\ \A f \in {"gc", "ec"} : box'[f] \in DateValues
      BY <1>1, DatesTyped
    <2>2. FieldTypes' /\ FlagsCurrent'
      BY <1>1, <2>1 DEF FieldTypes, FlagsCurrent
    <2> QED
      BY <1>1, <2>1, <2>2 DEF ScreenTyped, Screen!files
  <1>2. CASE part = "family" /\ Screen!FamilyStep /\ UNCHANGED <<part, jobs, photo, Screen!files>>
    <2>1. /\ timers' \in Seq(Screen!Counts) /\ Len(timers') <= MaxTimers
          /\ flagged' \subseteq {"size", "children"}
          /\ timers' = <<>> => flagged' = Screen!Problems(box')
          /\ DOMAIN box' = Screen!Counts /\ box'["size"] \in SizeValues
          /\ \A f \in {"male", "female", "children"} : box'[f] \in CountValues
      BY <1>2, FamilyTyped
    <2>2. FieldTypes' /\ FlagsCurrent'
      BY <1>2, <2>1 DEF FieldTypes, FlagsCurrent
    <2> QED
      BY <1>2, <2>1, <2>2 DEF ScreenTyped, Screen!files
  <1>3. CASE part = "photo" /\ Screen!PhotoStep
             /\ UNCHANGED <<part, Screen!dates, flagged, Screen!files>>
    <2>1. /\ jobs' \subseteq Jobs /\ DOMAIN photo' = {"input", "widget"}
          /\ photo'["widget"] \in Screen!Photos \cup {"none"}
      BY <1>3, PhotoTyped DEF ScreenTyped
    <2>2. FieldTypes' /\ FlagsCurrent'
      BY <1>3 DEF FieldTypes, FlagsCurrent, ScreenTyped, Screen!dates
    <2> QED
      BY <1>3, <2>1, <2>2 DEF ScreenTyped, Screen!files, Screen!dates
  <1>4. CASE part = "rows" /\ Screen!RowStep
             /\ UNCHANGED <<part, Screen!dates, flagged, jobs, photo>>
    <2>1. Len(rows') <= MaxRows /\ dialog'["row"] <= MaxRows
      BY <1>4, TableTyped DEF ScreenInv, ScreenTyped
    <2>2. FieldTypes' /\ FlagsCurrent'
      BY <1>4 DEF FieldTypes, FlagsCurrent, ScreenTyped, Screen!dates
    <2> QED
      BY <1>4, <2>1, <2>2 DEF ScreenTyped, Screen!dates
  <1> QED
    BY <1>1, <1>2, <1>3, <1>4 DEF Screen!Next

LEMMA ScreenKeeps ==
    ASSUME ScreenInv, ScreenTyped, Screen!Next \/ UNCHANGED screen
    PROVE  ScreenInv' /\ ScreenTyped'
  <1>1. CASE UNCHANGED screen
    <2>1. Screen!Problems(box)' = Screen!Problems(box)
      BY <1>1 DEF screen, Screen!Problems
    <2> QED
      BY <1>1, <2>1
      DEF screen, ScreenInv, ScreenTyped, DatesPending, RowTypes, NamesPending, FieldTypes,
          FlagsCurrent
  <1> QED
    BY <1>1, ScreenStep, TypedStep

LEMMA ScreenSound ==
    ASSUME ScreenInv, ScreenTyped
    PROVE  Screen!TypeOK /\ Screen!PairAgrees /\ Screen!OwnName /\ Screen!FamilyFlagged
  <1>1. \A f \in DOMAIN box : box[f] \in -9..4
    <2>1. \A n \in DateValues \cup CountValues \cup SizeValues : n \in -9..4
      BY DEF DateValues, CountValues, SizeValues, Screen!Empty, Screen!Partial, Screen!Unreal
    <2> QED
      BY <2>1 DEF ScreenTyped, FieldTypes, Screen!Counts
  <1>2. Len(timers) <= 2 * MaxTimers
    <2>1. Len(timers) \in Nat
      BY DEF ScreenTyped, FieldTypes
    <2> QED
      BY <2>1, ScreenBounds DEF ScreenTyped
  <1>3. Len(names) = Len(rows)
    BY DEF ScreenInv, RowTypes, ScreenTyped
  <1>4. Screen!TypeOK
    BY <1>1, <1>2, <1>3 DEF ScreenTyped, Screen!TypeOK
  <1>5. Screen!OwnName
    <2>1. part # "rows" => DOMAIN rows = {}
      BY DEF ScreenTyped
    <2> QED
      BY <2>1, ScreenSuffices DEF Screen!OwnName
  <1>6. Screen!FamilyFlagged
    <2> SUFFICES ASSUME part = "family", timers = <<>>, flagged = {},
                        \A f \in Screen!Counts : box[f] = Screen!Empty \/ box[f] >= 0
                 PROVE  Screen!HouseholdSize(box, FALSE, FALSE)
      BY DEF Screen!FamilyFlagged
    <2>1. Screen!Problems(box) = {}
      BY DEF ScreenTyped, FlagsCurrent
    <2>2. /\ ~(Screen!Empty \notin {box.size, box.male, box.female} /\ box.size # box.male + box.female)
          /\ ~(Screen!Empty \notin {box.size, box.children} /\ box.children > box.size)
      BY <2>1, Zenon DEF Screen!Problems
    <2>3. box.size \in SizeValues /\ box.children \in CountValues
      BY DEF ScreenTyped, FieldTypes
    <2>4. Screen!Empty \in {box.size, box.children} \/ box.children <= box.size
      BY <2>2, <2>3 DEF SizeValues, CountValues, Screen!Empty
    <2> QED
      BY <2>2, <2>4 DEF Screen!HouseholdSize
  <1> QED
    BY <1>4, <1>5, <1>6, ScreenSuffices

=============================================================================
