------------------------------ MODULE Calendar ------------------------------
(* The two calendars of a date: ethiopian_calendar.py, and its twin in the *)
(* browser, farmer-intake-rules.js.  Both convert through the Julian day   *)
(* number.  A walk over the days of both calendars, written from what a    *)
(* calendar is and not from the arithmetic, is the reference.              *)
EXTENDS Integers, Sequences

CONSTANTS Anchors, \* pairs of dates known to name one day
          Span     \* the days the walk goes from each

VARIABLES greg, eth, walked

Date(y, m, d) == <<y, m, d>>

----------------------------------------------------------------------------
\* The arithmetic of the code; \div rounds down, like // and Math.floor.
GregorianToJdn(t) ==
    LET a == (14 - t[2]) \div 12
        y == t[1] + 4800 - a
        m == t[2] + 12 * a - 3
    IN t[3] + (153 * m + 2) \div 5 + 365 * y + y \div 4 - y \div 100 + y \div 400 - 32045

\* The centuries before a day, the days of its century, the years of the
\* century before it, and the days since the first of March.
Century(a) == (4 * a + 3) \div 146097
InCentury(a) == a - (146097 * Century(a)) \div 4
YearOf(c) == (4 * c + 3) \div 1461
InYear(c) == c - (1461 * YearOf(c)) \div 4

FromMarch(y, e) ==
    LET m == (5 * e + 2) \div 153
    IN Date(y - 4800 + m \div 10, m + 3 - 12 * (m \div 10), e - (153 * m + 2) \div 5 + 1)

JdnToGregorian(jdn) ==
    LET a == jdn + 32044  c == InCentury(a)
    IN FromMarch(100 * Century(a) + YearOf(c), InYear(c))

Epoch == 1723856

EthiopicToJdn(t) ==
    Epoch + 365 + 365 * (t[1] - 1) + t[1] \div 4 + 30 * t[2] + t[3] - 31

\* Mutant of JdnToEthiopic: the last day of the four years goes to the next.
JdnToNextYear(jdn) ==
    LET r == (jdn - Epoch) % 1461  n == r % 365
    IN Date(4 * ((jdn - Epoch) \div 1461) + r \div 365, n \div 30 + 1, (n % 30) + 1)

JdnToEthiopic(jdn) ==
    LET r == (jdn - Epoch) % 1461
        n == (r % 365) + 365 * (r \div 1460)
    IN Date(4 * ((jdn - Epoch) \div 1461) + r \div 365 - r \div 1460,
            n \div 30 + 1, (n % 30) + 1)

EthiopicMonthLength(y, m) == IF m < 13 THEN 30 ELSE IF y % 4 = 3 THEN 6 ELSE 5

ValidEthiopic(t) ==
    t[1] >= 1 /\ t[2] \in 1..13 /\ t[3] \in 1..EthiopicMonthLength(t[1], t[2])

GregorianMonthLength(y, m) ==
    IF m = 2
    THEN IF (y % 4 = 0 /\ y % 100 # 0) \/ y % 400 = 0 THEN 29 ELSE 28
    ELSE IF m \in {4, 6, 9, 11} THEN 30 ELSE 31

GregorianToEthiopic(t) == JdnToEthiopic(GregorianToJdn(t))

\* The day an Ethiopian date names, none when there is no such day.
EthiopicToGregorian(t) ==
    IF ValidEthiopic(t) THEN {JdnToGregorian(EthiopicToJdn(t))} ELSE {}

\* The browser's conversions refuse a day that is none in their own calendar.
ValidGregorian(t) ==
    t[1] >= 1 /\ t[2] \in 1..12 /\ t[3] \in 1..GregorianMonthLength(t[1], t[2])
GcToEc(t) == IF ValidGregorian(t) THEN {GregorianToEthiopic(t)} ELSE {}
EcToGc(t) == EthiopicToGregorian(t)

----------------------------------------------------------------------------
\* The next day, of a calendar with these months in a year of that length.
Following(t, months, length) ==
    IF t[3] < length THEN Date(t[1], t[2], t[3] + 1)
    ELSE IF t[2] < months THEN Date(t[1], t[2] + 1, 1)
    ELSE Date(t[1] + 1, 1, 1)

\* Every fourth Gregorian year is leap but for the centuries not divisible by
\* 400; the year before one that is leap under the Julian rule ends with six
\* days of Pagumen.
MonthDays == <<31, 28, 31, 30, 31, 30, 31, 31, 30, 31, 30, 31>>
Leap(y) == y % 4 = 0 /\ (y % 100 = 0 => y % 400 = 0)
NextGregorian(t) ==
    Following(t, 12, MonthDays[t[2]] + (IF t[2] = 2 /\ Leap(t[1]) THEN 1 ELSE 0))
NextEthiopic(t) ==
    Following(t, 13, IF t[2] <= 12 THEN 30 ELSE IF (t[1] + 1) % 4 = 0 THEN 6 ELSE 5)

\* A date of each calendar, of the same day.
AnyDate == Nat \X Nat \X Nat
OneDay(p) ==
    /\ p \in AnyDate \X AnyDate
    /\ ValidGregorian(p[1]) /\ ValidEthiopic(p[2])
    /\ GregorianToJdn(p[1]) = EthiopicToJdn(p[2])

Init == \E p \in Anchors : greg = p[1] /\ eth = p[2] /\ walked = 0

Tomorrow ==
    /\ walked < Span
    /\ greg' = NextGregorian(greg)
    /\ eth' = NextEthiopic(eth)
    /\ walked' = walked + 1

Next == Tomorrow

----------------------------------------------------------------------------
\* Every variable holds a value of its kind.
TypeOK ==
    /\ \A t \in {greg, eth} : t \in Seq(Nat) /\ Len(t) = 3
    /\ walked \in 0..Span

\* Whichever calendar a date is entered in, on the server or in the browser,
\* the other one shows the day the calendars themselves give it, across leap
\* days, Pagumen, new years of both and centuries.
CalendarsAgree ==
    /\ GregorianToEthiopic(greg) = eth /\ GcToEc(greg) = {eth}
    /\ EthiopicToGregorian(eth) = {greg} /\ EcToGc(eth) = {greg}
    /\ ValidEthiopic(eth)
    /\ ~ ValidEthiopic(Date(eth[1], eth[2], EthiopicMonthLength(eth[1], eth[2]) + 1))

=============================================================================
