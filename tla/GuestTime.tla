----------------------------- MODULE GuestTime -----------------------------
(***************************************************************************)
(* hell_runtime::native_time: days, times of day and UTC times of guest    *)
(* programs.  A UTC time is a modified Julian day and a time of day in     *)
(* picoseconds, which may be beyond the end of the day.                    *)
(*                                                                         *)
(* Years and days are integers of any size (BigInteger is a module of its  *)
(* own), a picosecond is a tick of which a second has PerSecond, a         *)
(* floating-point number is a sign, a mantissa and an exponent, and a text *)
(* is the numbers read from or written to it: how many digits they take is *)
(* left out, but for the four of a year.                                   *)
(***************************************************************************)
EXTENDS Integers, Sequences

CONSTANTS
  PerSecond,   \* ticks of a second, 10^12 in the code
  TickBits,    \* width of a signed count of ticks, 128 in the code
  Doubles,     \* bound: the floating-point numbers given
  Starts,      \* bound: the days and ticks begun with, and the operations
               \* performed from there
  Texts        \* bound: the texts read

ASSUME TimeAssumption ==
  /\ PerSecond \in Nat \ {0} /\ TickBits \in Nat \ {0}
  /\ Doubles \subseteq [negative : BOOLEAN, mantissa : Nat, exponent : Int]
  /\ Starts \subseteq [day : Int, ticks : Int, steps : Nat]

VARIABLES
  day,         \* the modified Julian day
  dayTime,     \* ticks since its beginning
  did,         \* the operation performed last, with its argument
  stepsLeft    \* operations still to be performed

timeVars == <<day, dayTime, did, stepsLeft>>

PerMinute == 60 * PerSecond
PerHour == 60 * PerMinute
PerDay == 86400 * PerSecond

None == <<>>
Least(a, b) == IF a < b THEN a ELSE b

----------------------------------------------------------------------------
(* The calendar.  A year begins in March, so that the leap day ends it.    *)

IsLeapYear(y) == y % 400 = 0 \/ ((y % 400) % 4 = 0 /\ (y % 400) % 100 # 0)

DaysInMonth(y, m) ==
  CASE m \in {1, 3, 5, 7, 8, 10, 12} -> 31
    [] m \in {4, 6, 9, 11}           -> 30
    [] m = 2                         -> IF IsLeapYear(y) THEN 29 ELSE 28

ShiftedMonth(m) == IF m > 2 THEN m - 3 ELSE m + 9
ShiftedYear(y, m) == IF m <= 2 THEN y - 1 ELSE y
DayOfYear(m, d) == (153 * ShiftedMonth(m) + 2) \div 5 + d - 1

(* Days before the year n of an era, from the beginning of that era.       *)
DaysBefore(n) == n * 365 + n \div 4 - n \div 100

GregorianToMjd(y, m, d) ==
  LET shifted == ShiftedYear(y, m)
  IN (shifted \div 400) * 146097
       + (DaysBefore(shifted % 400) + DayOfYear(m, d) - 678881)

(* Mutant of YearOfEra: the last day of an era begins another year.        *)
YearOfEraOverrun(n) == (n - n \div 1460 + n \div 36524) \div 365

(* The year that the day n of an era belongs to.                           *)
YearOfEra(n) == (n - n \div 1460 + n \div 36524 - n \div 146096) \div 365

MjdToGregorian(mjd) ==
  LET era == (mjd + 678881) \div 146097
      n == (mjd + 678881) % 146097
      year == YearOfEra(n)
      dayOfYear == n - DaysBefore(year)
      month == (5 * dayOfYear + 2) \div 153
      m == IF month < 10 THEN month + 3 ELSE month - 9
      y == era * 400 + year
  IN <<IF m <= 2 THEN y + 1 ELSE y, m, dayOfYear - (153 * month + 2) \div 5 + 1>>

FromGregorianValid(y, m, d) ==
  IF m \in 1..12 /\ d >= 1 /\ d <= DaysInMonth(y, m)
    THEN <<GregorianToMjd(y, m, d)>>
    ELSE None

(* 0 is Monday.                                                            *)
DayOfWeek(mjd) == ((mjd % 7) + 2) % 7

----------------------------------------------------------------------------
(* Ticks of a floating-point number of seconds, rounded down.              *)

(* Mutant of HasRemainder: a number that shifts away leaves nothing.       *)
HasRemainderUnlessTiny(x) ==
  /\ x.exponent < 0 /\ -x.exponent < TickBits
  /\ (x.mantissa * PerSecond) % 2 ^ (-x.exponent) # 0

HasRemainder(x) ==
  LET scaled == x.mantissa * PerSecond
  IN /\ x.exponent < 0
     /\ IF -x.exponent >= TickBits THEN scaled # 0 ELSE scaled % 2 ^ (-x.exponent) # 0

DoubleToTicks(x) ==
  LET scaled == x.mantissa * PerSecond
      largest == 2 ^ TickBits - 1
      shift == IF x.exponent < 0 THEN -x.exponent ELSE x.exponent
      quotient ==
        IF x.exponent >= 0 THEN scaled * 2 ^ shift
        ELSE IF shift >= TickBits THEN 0 ELSE scaled \div 2 ^ shift
      magnitude == IF x.negative /\ HasRemainder(x) THEN quotient + 1 ELSE quotient
      boundary == 2 ^ (TickBits - 1)
  IN IF x.mantissa = 0 THEN <<0>>
     ELSE IF x.exponent >= 0 /\ (shift >= TickBits \/ scaled > largest \div 2 ^ shift) THEN None
     ELSE IF x.negative THEN (IF magnitude > boundary THEN None ELSE <<-magnitude>>)
     ELSE IF magnitude >= boundary THEN None ELSE <<magnitude>>

(* Mutant of FromTicks: hours and minutes go on after the end of the day.  *)
FromTicksUnclipped(ticks) ==
  LET hour == ticks \div PerHour
      minute == (ticks - hour * PerHour) \div PerMinute
  IN [hour |-> hour, minute |-> minute,
      second |-> ticks - hour * PerHour - minute * PerMinute]

(* The time of day: what is beyond the last minute are seconds of it.      *)
FromTicks(ticks) ==
  LET hour == Least(ticks \div PerHour, 23)
      minute == Least((ticks - hour * PerHour) \div PerMinute, 59)
  IN [hour |-> hour, minute |-> minute,
      second |-> ticks - hour * PerHour - minute * PerMinute]

(* What is shown of a time, and what can be read from a text.              *)
Show(mjd, ticks) ==
  LET date == MjdToGregorian(mjd)
      time == FromTicks(ticks)
  IN [year |-> date[1], month |-> date[2], day |-> date[3],
      hour |-> time.hour, minute |-> time.minute,
      second |-> time.second \div PerSecond, fraction |-> time.second % PerSecond]

ParseIso(text) ==
  LET mjd == IF text.year \in -9999..9999
               THEN FromGregorianValid(text.year, text.month, text.day) ELSE None
  IN IF mjd = None \/ text.minute \notin 0..59 THEN None
     ELSE IF text.hour = 24
       THEN IF text.minute = 0 /\ text.second = 0 /\ text.fraction = 0
              THEN <<mjd[1] + 1, 0>> ELSE None
     ELSE IF text.hour \notin 0..23 \/ text.second \notin 0..60 THEN None
     ELSE <<mjd[1], text.hour * PerHour + text.minute * PerMinute
                      + text.second * PerSecond + text.fraction>>

----------------------------------------------------------------------------

UnixEpochMjd == 40587

(* UtcTime::from_system_time.                                              *)
TimeInit ==
  \E s \in Starts :
    /\ day = UnixEpochMjd + s.day + s.ticks \div PerDay
    /\ dayTime = s.ticks % PerDay
    /\ did = <<"now", 0>> /\ stepsLeft = s.steps

Does(op, arg) ==
  /\ stepsLeft' = stepsLeft - 1
  /\ did' = <<op, arg>>

(* UtcTime::new keeps the day and takes any number of seconds that fits.   *)
NewTime(x) ==
  /\ Does("new", x)
  /\ DoubleToTicks(x) # None
  /\ dayTime' = DoubleToTicks(x)[1]
  /\ UNCHANGED day

Refused(x) ==
  /\ Does("refused", x)
  /\ DoubleToTicks(x) = None
  /\ UNCHANGED <<day, dayTime>>

AddDays(n) ==
  /\ Does("days", n)
  /\ day' = day + n
  /\ UNCHANGED dayTime

(* Mutant of Sum: what is beyond the end of the day is added too.          *)
SumUnclipped(mjd, ticks, x) ==
  LET total == ticks + DoubleToTicks(x)[1]
  IN IF DoubleToTicks(x) = None THEN None
     ELSE <<mjd + total \div PerDay, total % PerDay>>

(* A leap second counts as the end of its day; a sum that does not fit is  *)
(* refused, and nothing changes.                                           *)
Sum(mjd, ticks, x) ==
  LET total == Least(ticks, PerDay) + DoubleToTicks(x)[1]
  IN IF \/ DoubleToTicks(x) = None
        \/ total \notin (-(2 ^ (TickBits - 1)))..(2 ^ (TickBits - 1) - 1)
       THEN None
     ELSE <<mjd + total \div PerDay, total % PerDay>>

AddSeconds(x) ==
  LET sum == Sum(day, dayTime, x)
  IN /\ Does("seconds", x)
     /\ sum # None
     /\ day' = sum[1]
     /\ dayTime' = sum[2]

Read(text) ==
  LET read == ParseIso(text)
  IN /\ Does("read", text)
     /\ read # None
     /\ day' = read[1]
     /\ dayTime' = read[2]

TimeNext ==
  /\ stepsLeft > 0
  /\ \/ \E x \in Doubles : NewTime(x) \/ Refused(x) \/ AddSeconds(x)
     \/ \E n \in {-1, 1} : AddDays(n)
     \/ \E text \in Texts : Read(text)

TimeSpec == TimeInit /\ [][TimeNext]_timeVars

----------------------------------------------------------------------------

(* The day after a date.                                                   *)
DayAfter(date) ==
  LET y == date[1]
      m == date[2]
      d == date[3]
  IN IF d < DaysInMonth(y, m) THEN <<y, m, d + 1>>
     ELSE IF m < 12 THEN <<y, m + 1, 1>>
     ELSE <<y + 1, 1, 1>>

(* Day numbers count the days of the Gregorian calendar, whatever the      *)
(* year's sign and size: every day has a date that exists and leads back   *)
(* to it, and the next number is the day after, in the week as well.       *)
CalendarExact ==
  LET date == MjdToGregorian(day)
  IN /\ FromGregorianValid(date[1], date[2], date[3]) = <<day>>
     /\ MjdToGregorian(day + 1) = DayAfter(date)
     /\ DayOfWeek(day + 1) = (DayOfWeek(day) + 1) % 7

(* A time within its day or its leap second reads back as itself, as long  *)
(* as the year has four digits.                                            *)
ReadsBack ==
  LET shown == Show(day, dayTime)
  IN shown.year \in -9999..9999 /\ dayTime \in 0..(PerDay + PerSecond - 1) =>
       ParseIso(shown) = <<day, dayTime>>

(* A number of seconds in ticks, rounded down: the number itself, or       *)
(* nothing when it does not fit in a count of ticks.                       *)
Rounded(x) ==
  LET signed == IF x.negative THEN -(x.mantissa * PerSecond) ELSE x.mantissa * PerSecond
      ticks == IF x.exponent >= 0 THEN signed * 2 ^ x.exponent
               ELSE IF x.exponent < -TickBits THEN (IF signed < 0 THEN -1 ELSE 0)
               ELSE signed \div 2 ^ (-x.exponent)
      half == 2 ^ (TickBits - 1)
  IN IF signed = 0 THEN <<0>>
     ELSE IF x.exponent >= TickBits \/ ticks < -half \/ ticks >= half THEN None
     ELSE <<ticks>>

(* Every floating-point number of seconds is taken as the ticks it is,     *)
(* rounded down, to the least and the greatest that fit, and no other.     *)
TicksExact ==
  /\ did[1] = "new"     => <<dayTime>> = Rounded(did[2])
  /\ did[1] = "refused" => None = Rounded(did[2])

(* Adding seconds moves the instant by exactly that many ticks, from the   *)
(* instant or, in a leap second or beyond the end of the day, from the end *)
(* of the day; the result is within a day.                                 *)
AddsExactly ==
  \A x \in Doubles : LET sum == Sum(day, dayTime, x) IN
    sum # None =>
      /\ sum[2] \in 0..(PerDay - 1)
      /\ (sum[1] - day) * PerDay + sum[2] = Least(dayTime, PerDay) + Rounded(x)[1]

(* Days, texts, ticks and sums of times are what the calendar says         *)
(* (native_time.rs).                                                       *)
TimeExact == CalendarExact /\ ReadsBack /\ TicksExact /\ AddsExactly
=============================================================================
