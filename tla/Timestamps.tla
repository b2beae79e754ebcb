----------------------------- MODULE Timestamps -----------------------------
(***************************************************************************)
(* domain/timestamp.ts: the timestamps the service accepts, the UTC form   *)
(* it keeps, their order, and what a timestamptz column makes of them.     *)
(*                                                                         *)
(* A text is its components: year to second, the digits of the fraction    *)
(* (any number of them) and the zone, Z or an offset.  A text that the     *)
(* service or PostgreSQL writes is in UTC and given by its day number      *)
(* instead of a date.  A moment is a day and a second of that day, as      *)
(* wholeSecondMs is; days count from 0000-03-01 as number 0.               *)
(***************************************************************************)
EXTENDS Integers, Sequences

CONSTANT Garbage     \* any text outside the grammar

DaySeconds == 86400

\* The texts that TIMESTAMP_PATTERN lets through, and those in UTC.
FourDigits == 0 .. 9999
TwoDigits == 0 .. 99
Offset == [sign : {-1, 1}, hour : TwoDigits, minute : TwoDigits]
DateText ==
    [year : FourDigits, month : TwoDigits, day : TwoDigits, hour : TwoDigits,
     minute : TwoDigits, second : TwoDigits, fraction : Seq(0 .. 9), offset : Offset]
UtcText == [number : Int, second : 0 .. (DaySeconds - 1), fraction : Seq(0 .. 9)]

ASSUME GarbageAssumption == Garbage \notin DateText \cup UtcText

AnyText == DateText \cup UtcText \cup {Garbage}

IsLeapYear(y) == y % 4 = 0 /\ (y % 100 # 0 \/ y % 400 = 0)

DaysInMonth(y, m) ==
    CASE m = 2              -> IF IsLeapYear(y) THEN 29 ELSE 28
      [] m \in {4, 6, 9, 11} -> 30
      [] OTHER              -> 31

\* The day number of a date of the proleptic Gregorian calendar.
DayNumber(y, m, d) ==
    LET yy == IF m > 2 THEN y ELSE y - 1
        mm == (m + 9) % 12
    IN  365 * yy + (yy \div 4) - (yy \div 100) + (yy \div 400)
            + ((153 * mm + 2) \div 5) + d - 1

FirstDay == DayNumber(0, 1, 1)
LastDay  == DayNumber(9999, 12, 31)

\* Date components that exist, and offsets of at most fourteen hours.
ComponentsExist(t) ==
    /\ t.month \in 1 .. 12 /\ t.day \in 1 .. DaysInMonth(t.year, t.month)
    /\ t.hour \in 0 .. 23 /\ t.minute \in 0 .. 59 /\ t.second \in 0 .. 59
    /\ t.offset.minute <= 59
    /\ t.offset.hour * 60 + t.offset.minute <= 14 * 60

OffsetMinutes(offset) == offset.sign * (offset.hour * 60 + offset.minute)

\* The moment of a text, without its fraction.
WholeSecond(t) ==
    LET s == t.hour * 3600 + (t.minute - OffsetMinutes(t.offset)) * 60 + t.second
    IN  [day    |-> DayNumber(t.year, t.month, t.day) + (s \div DaySeconds),
         second |-> s % DaySeconds]

Digit(fraction, i) == IF i \in 1 .. Len(fraction) THEN fraction[i] ELSE 0

\* At least three digits, and no zeros behind the third.
CanonicalFraction(fraction) ==
    LET n == IF Len(fraction) < 3 THEN 3 ELSE Len(fraction)
        last == CHOOSE i \in 3 .. n :
                    /\ i = 3 \/ Digit(fraction, i) # 0
                    /\ \A j \in (i + 1) .. n : Digit(fraction, j) = 0
    IN  [i \in 1 .. last |-> Digit(fraction, i)]

IsUtcText(t) == "number" \in DOMAIN t

\* A four-digit year is all that TIMESTAMP_PATTERN and PostgreSQL's input
\* know; toISOString() writes more digits for a day outside of them.
HasFourDigitYear(day) == day \in FirstDay .. LastDay

\* parseCanonicalTimestamp: the moment, the digits as they were sent, and
\* the canonical text.  The two ways through it give the same for a text in
\* UTC with three digits.
ParseTimestamp(t) ==
    IF t = Garbage \/ (IsUtcText(t) /\ ~HasFourDigitYear(t.number))
    THEN [ok |-> FALSE, kind |-> "grammar"]
    ELSE IF ~IsUtcText(t) /\ ~ComponentsExist(t)
    THEN [ok |-> FALSE, kind |-> "components"]
    ELSE LET w == IF IsUtcText(t) THEN [day |-> t.number, second |-> t.second]
                  ELSE WholeSecond(t)
         IN  [ok |-> TRUE, day |-> w.day, second |-> w.second,
              fraction  |-> t.fraction,
              canonical |-> [number |-> w.day, second |-> w.second,
                             fraction |-> CanonicalFraction(t.fraction)]]

FractionBefore(left, right) ==
    \E i \in 1 .. (Len(left) + Len(right)) :
        /\ Digit(left, i) < Digit(right, i)
        /\ \A j \in 1 .. (i - 1) : Digit(left, j) = Digit(right, j)

SecondBefore(a, b) == a.day < b.day \/ (a.day = b.day /\ a.second < b.second)
SameSecond(a, b)   == a.day = b.day /\ a.second = b.second

ParsedBefore(a, b) ==
    \/ SecondBefore(a, b)
    \/ SameSecond(a, b) /\ FractionBefore(a.fraction, b.fraction)

\* A time of the clock, in whole milliseconds.
Milliseconds == 0 .. 999
Moment == [day : Int, second : 0 .. (DaySeconds - 1), ms : Milliseconds]

\* isParsedTimestampAfterEpochMilliseconds; a limit has whole milliseconds.
IsAfterMilliseconds(parsed, limit) ==
    IF ~SameSecond(parsed, limit)
    THEN SecondBefore(limit, parsed)
    ELSE FractionBefore(<<limit.ms \div 100, (limit.ms \div 10) % 10, limit.ms % 10>>,
                        parsed.fraction)

-----------------------------------------------------------------------------
(***************************************************************************)
(* PostgreSQL: timestamptz has microseconds; input with more digits is     *)
(* rounded to the nearest one (a tie to the even one), and a year outside  *)
(* 1 .. 9999 in the texts above is an error.                               *)
(***************************************************************************)
FirstStorableDay == DayNumber(1, 1, 1)
IsStorable(canonical) == canonical.number \in FirstStorableDay .. LastDay

Micro(fraction) ==
    Digit(fraction, 1) * 100000 + Digit(fraction, 2) * 10000 + Digit(fraction, 3) * 1000
        + Digit(fraction, 4) * 100 + Digit(fraction, 5) * 10 + Digit(fraction, 6)

RoundsUp(fraction) ==
    \/ Digit(fraction, 7) > 5
    \/ Digit(fraction, 7) = 5 /\ \/ \E i \in 8 .. Len(fraction) : fraction[i] # 0
                                 \/ Micro(fraction) % 2 = 1

ToTimestamptz(canonical) ==
    LET us == Micro(canonical.fraction) + (IF RoundsUp(canonical.fraction) THEN 1 ELSE 0)
        s  == canonical.second + (us \div 1000000)
    IN  <<canonical.number + (s \div DaySeconds), s % DaySeconds, us % 1000000>>

\* to_char(..., 'YYYY-MM-DD"T"HH24:MI:SS.US"Z"')
ToChar(at) ==
    [number |-> at[1], second |-> at[2],
     fraction |-> <<at[3] \div 100000, (at[3] \div 10000) % 10, (at[3] \div 1000) % 10,
                    (at[3] \div 100) % 10, (at[3] \div 10) % 10, at[3] % 10>>]

\* The order of timestamptz values.
AtBefore(a, b) ==
    \/ a[1] < b[1]
    \/ a[1] = b[1] /\ (a[2] < b[2] \/ (a[2] = b[2] /\ a[3] < b[3]))
=============================================================================
