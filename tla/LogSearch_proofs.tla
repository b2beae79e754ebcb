----------------------------- MODULE LogSearch_proofs -----------------------------
(***************************************************************************)
(* Proofs about LogSearch, for any requests to add, any queries, any       *)
(* number of rows and any interleaving of pages with rows that are stored  *)
(* and that expire.                                                        *)
(*                                                                         *)
(* The invariant says what a listing is between two pages: its cursor      *)
(* leads back to the last row that was shown, all others that were shown   *)
(* lie above, and a row that was shown is in the table or has expired.     *)
(* Most of the lemmas are about operators: that a timestamp survives the   *)
(* way from the table through the text of a response and the cursor back   *)
(* to the same microsecond, that canonical texts are equal exactly for     *)
(* equal moments, and that rounding takes no accepted entry past the       *)
(* horizon.                                                                *)
(***************************************************************************)
EXTENDS LogSearch, FiniteSetTheorems, WellFoundedInduction, TLAPS

\* The values of a timestamptz column.
Micros == {us \in Nat : us < 1000000}
At == {at \in Int \X (0 .. (DaySeconds - 1)) \X Micros : at[1] \in FirstDay .. LastDay}

\* The ids in the table, and those that a request was given.
RowIds == {row.id : row \in rows}
IdsOf(p) == {record.id : record \in posts[p].records}

\* The records that validated entries make, whatever their ids.
RecordsOf(p, horizon) ==
    UNION {{RecordOf(Body[p][i], id) : id \in Id} : i \in Accepted(Body[p], horizon)}
AnyRecord == UNION {UNION {RecordsOf(p, horizon) : horizon \in Horizon} : p \in Post}
States == {"new", "inserting", "answered"}
Statuses == {0, 200, 400, 500, 503}
PostRecord == [state : States, records : SUBSET AnyRecord, rejected : SUBSET Nat,
               stored : BOOLEAN, status : Statuses]

\* What is known of a row, from the entry it was made of.
IsRow(row) ==
    /\ row.id \in Id
    /\ row.at \in At
    /\ \A pair \in row.search : pair = <<pair[1], pair[2]>>
    /\ \E horizon \in Horizon :
         ~AtBefore(<<horizon.day, horizon.second, horizon.ms * 1000>>, row.at)

\* How far a request has come and what it may be told.
Progress(p) == LET post == posts[p] IN
    /\ post.state = "new" => post = NewPost
    /\ post.state = "answered" <=> post.status # 0
    /\ post.status = 200 => post.stored
    /\ post.status = 400 => post.records = {}
    /\ post.status = 500 => ~post.stored
    /\ IsFiniteSet(post.records)
    /\ post.state # "new" =>
         /\ IsFiniteSet(IdsOf(p))
         /\ Cardinality(IdsOf(p)) + Cardinality(post.rejected) = Len(Body[p])

\* An id belongs to one record, which is in the table or has expired once it
\* was stored.
Ids ==
    /\ \A p, q \in Post : \A r \in posts[p].records, s \in posts[q].records :
         r.id = s.id => p = q /\ r = s
    /\ \A p \in Post : posts[p].stored => IdsOf(p) \subseteq RowIds \cup expired
    /\ \A id \in RowIds \cup expired :
         \E p \in Post : posts[p].stored /\ id \in IdsOf(p)
    /\ \A r, s \in rows : r.id = s.id => r = s
    /\ \A row \in rows : row.id \notin expired

Rows ==
    /\ IsFiniteSet(rows)
    /\ \A row \in rows : IsRow(row)
    /\ expired \subseteq Id

\* The cursor stands at the last row of the pages so far, and a row that was
\* shown is in the table or has expired.
Shown == listing.seen \cup listing.page \cup listing.before
Listing ==
    /\ listing.state \in {"none", "open", "done"}
    /\ listing.state = "none" => listing = NoListing
    /\ listing.state # "none" => listing.query \in Valid
    /\ listing.state # "open" => listing.cursor = NoCursor
    /\ \A row \in Shown : IsRow(row) /\ (row \in rows \/ row.id \in expired)
    /\ listing.state = "open" =>
         /\ listing.cursor \in Cursor
         /\ CursorAccepted(listing.cursor, listing.query)
         /\ Position(listing.cursor).at \in At
         /\ \A row \in Listed :
              \/ row.at = Position(listing.cursor).at /\ row.id = listing.cursor.id
              \/ Below(Position(listing.cursor), row)

Posts == posts \in [Post -> PostRecord] /\ \A p \in Post : Progress(p)

IInv == Posts /\ Ids /\ Rows /\ Listing /\ OnceInOrder /\ NothingSkipped

-----------------------------------------------------------------------------
(***************************************************************************)
(* Timestamps: the digits of fractions, whose order is read digit by digit. *)
(***************************************************************************)
\* A set of natural numbers has a least element.
LEMMA LeastNat ==
    ASSUME NEW A \in SUBSET Nat, A # {}
    PROVE  \E m \in A : \A k \in A : m <= k
<1>1. PICK n \in A : TRUE
  OBVIOUS
<1> DEFINE S == 0 .. n
           B == {0 .. k : k \in A \cap S}
           R == StrictSubsetOrdering(S)
<1>2. B \subseteq FiniteSubsetsOf(S) /\ B # {}
  <2>1. IsFiniteSet(S)
    BY FS_Interval
  <2>2. \A k \in A \cap S : 0 .. k \in SUBSET S
    BY <1>1
  <2>3. n \in A \cap S
    BY <1>1
  <2>4. QED  BY <2>1, <2>2, <2>3, FS_FiniteSubsetsOfFinite
<1>3. PICK T \in B : \A U \in B : ~ (<<U, T>> \in R)
  <2> HIDE DEF B, R, S
  <2>1. IsWellFoundedOn(R, FiniteSubsetsOf(S))
    BY FS_StrictSubsetOrderingWellFounded DEF R
  <2>2. QED  BY <1>2, <2>1, WFMin
<1>4. PICK m \in A \cap S : T = 0 .. m
  BY <1>3
<1>5. ASSUME NEW k \in A, k < m PROVE FALSE
  <2>1. 0 .. k \in B
    BY <1>4, <1>5
  <2>2. 0 .. k \in SUBSET S /\ 0 .. m \in SUBSET S /\ 0 .. k \subseteq 0 .. m /\ 0 .. k # 0 .. m
    BY <1>4, <1>5
  <2>3. <<0 .. k, 0 .. m>> \in R
    BY <2>2 DEF StrictSubsetOrdering
  <2>4. QED  BY <1>3, <1>4, <2>1, <2>3
<1>6. QED  BY <1>4, <1>5

\* Digits.
LEMMA DigitType ==
    ASSUME NEW f \in Seq(0 .. 9)
    PROVE  /\ \A i \in Int : Digit(f, i) \in 0 .. 9
           /\ \A i \in Int : i > Len(f) => Digit(f, i) = 0
           /\ Len(f) \in Nat
BY DEF Digit

\* m is the last digit that the canonical fraction keeps.
IsLast(f, m) ==
    /\ m >= 3
    /\ m = 3 \/ Digit(f, m) # 0
    /\ \A j \in Nat : j > m => Digit(f, j) = 0

\* There is a last digit to keep, and only one, and the canonical fraction
\* ends with it.
LEMMA LastExists ==
    ASSUME NEW f \in Seq(0 .. 9)
    PROVE  \E m \in Nat : IsLast(f, m)
<1> DEFINE A == {i \in Nat : i >= 3 /\ \A j \in Nat : j > i => Digit(f, j) = 0}
<1>1. A # {}
  <2> DEFINE n == IF Len(f) < 3 THEN 3 ELSE Len(f)
  <2>1. n \in Nat /\ n >= 3 /\ \A j \in Nat : j > n => j > Len(f)
    BY DigitType
  <2>2. n \in A
    BY <2>1, DigitType
  <2>3. QED  BY <2>2
<1>2. PICK m \in A : \A k \in A : m <= k
  <2> HIDE DEF A
  <2>1. A \in SUBSET Nat
    BY DEF A
  <2>2. QED  BY <1>1, <2>1, LeastNat
<1>3. m = 3 \/ Digit(f, m) # 0
  <2> SUFFICES ASSUME m # 3, Digit(f, m) = 0 PROVE FALSE
    OBVIOUS
  <2>1. m - 1 \in Nat /\ m - 1 >= 3 /\ \A j \in Nat : j > m - 1 => j = m \/ j > m
    BY <1>2
  <2>2. m - 1 \in A
    BY <1>2, <2>1
  <2>3. QED  BY <1>2, <2>2
<1>4. QED  BY <1>2, <1>3 DEF IsLast

LEMMA LastUnique ==
    ASSUME NEW f \in Seq(0 .. 9), NEW m \in Nat, NEW k \in Nat, IsLast(f, m), IsLast(f, k)
    PROVE  m = k
BY DEF IsLast

LEMMA CanonicalForm ==
    ASSUME NEW f \in Seq(0 .. 9), NEW m \in Nat, IsLast(f, m)
    PROVE  CanonicalFraction(f) = [i \in 1 .. m |-> Digit(f, i)]
<1> DEFINE n == IF Len(f) < 3 THEN 3 ELSE Len(f)
           P(i) == /\ i = 3 \/ Digit(f, i) # 0
                   /\ \A j \in (i + 1) .. n : Digit(f, j) = 0
           last == CHOOSE i \in 3 .. n : P(i)
<1>1. n \in Nat /\ n >= 3 /\ (n = 3 \/ n = Len(f))
  BY DigitType
<1>2. m \in 3 .. n
  BY <1>1, DigitType DEF IsLast
<1>3. P(m)
  BY <1>1, <1>2 DEF IsLast
<1>4. ASSUME NEW i \in 3 .. n, P(i) PROVE i = m
  <2>1. \A j \in Nat : j > i => Digit(f, j) = 0
    BY <1>1, <1>4, DigitType
  <2>2. IsLast(f, i)
    BY <1>1, <1>4, <2>1 DEF IsLast
  <2>3. QED  BY <2>2, LastUnique
<1>5. last = m
  <2> HIDE DEF P
  <2>1. last \in 3 .. n /\ P(last)
    BY <1>2, <1>3
  <2>2. QED  BY <1>4, <2>1
<1>6. CanonicalFraction(f) = [i \in 1 .. last |-> Digit(f, i)]
  BY DEF CanonicalFraction
<1> HIDE DEF last
<1>7. QED  BY <1>5, <1>6

\* The canonical fraction has the digits of the one it was made of.
LEMMA CanonicalDigits ==
    ASSUME NEW f \in Seq(0 .. 9)
    PROVE  /\ CanonicalFraction(f) \in Seq(0 .. 9)
           /\ Len(CanonicalFraction(f)) >= 3
           /\ \A i \in Nat \ {0} : Digit(CanonicalFraction(f), i) = Digit(f, i)
<1>1. PICK m \in Nat : IsLast(f, m)
  BY LastExists
<1> DEFINE c == [i \in 1 .. m |-> Digit(f, i)]
<1>2. CanonicalFraction(f) = c
  BY <1>1, CanonicalForm
<1>3. \A i \in 1 .. m : Digit(f, i) \in 0 .. 9
  BY DigitType
<1>4. c \in Seq(0 .. 9) /\ Len(c) = m
  <2>1. c \in [1 .. m -> 0 .. 9]
    BY <1>3
  <2>2. QED  BY <2>1
<1>5. ASSUME NEW i \in Nat \ {0} PROVE Digit(c, i) = Digit(f, i)
  <2>1. CASE i \in 1 .. m
    <3>1. c[i] = Digit(f, i)
      BY <2>1
    <3> HIDE DEF c
    <3>2. QED  BY <1>4, <2>1, <3>1 DEF Digit
  <2>2. CASE i > m
    <3>1. Digit(f, i) = 0
      BY <1>1, <2>2 DEF IsLast
    <3> HIDE DEF c
    <3>2. QED  BY <1>4, <2>2, <3>1 DEF Digit
  <2>3. QED  BY <2>1, <2>2
<1> HIDE DEF c
<1>6. QED  BY <1>1, <1>2, <1>4, <1>5 DEF IsLast

\* Fractions of the same digits have one canonical form, which is its own.
LEMMA CanonicalEqual ==
    ASSUME NEW f \in Seq(0 .. 9), NEW g \in Seq(0 .. 9),
           \A i \in Nat \ {0} : Digit(f, i) = Digit(g, i)
    PROVE  CanonicalFraction(f) = CanonicalFraction(g)
<1>1. PICK m \in Nat : IsLast(f, m)
  BY LastExists
<1>2. IsLast(g, m)
  BY <1>1 DEF IsLast
<1>3. [i \in 1 .. m |-> Digit(f, i)] = [i \in 1 .. m |-> Digit(g, i)]
  OBVIOUS
<1>4. QED  BY <1>1, <1>2, <1>3, CanonicalForm

LEMMA CanonicalIdempotent ==
    ASSUME NEW f \in Seq(0 .. 9)
    PROVE  CanonicalFraction(CanonicalFraction(f)) = CanonicalFraction(f)
BY CanonicalDigits, CanonicalEqual

\* Fractions neither of which is before the other have the same digits.
LEMMA FractionsTie ==
    ASSUME NEW f \in Seq(0 .. 9), NEW g \in Seq(0 .. 9),
           ~ FractionBefore(f, g), ~ FractionBefore(g, f)
    PROVE  \A i \in Nat \ {0} : Digit(f, i) = Digit(g, i)
<1> DEFINE A == {i \in Nat \ {0} : Digit(f, i) # Digit(g, i)}
<1> SUFFICES ASSUME A # {} PROVE FALSE
  OBVIOUS
<1>1. PICK m \in A : \A k \in A : m <= k
  <2> HIDE DEF A
  <2>1. A \in SUBSET Nat
    BY DEF A
  <2>2. QED  BY <2>1, LeastNat
<1>2. \A j \in 1 .. (m - 1) : Digit(f, j) = Digit(g, j)
  BY <1>1
<1>3. m \in 1 .. (Len(f) + Len(g))
  BY <1>1, DigitType
<1>4. m \in 1 .. (Len(g) + Len(f))
  BY <1>3, DigitType
<1>5. Digit(f, m) < Digit(g, m) \/ Digit(g, m) < Digit(f, m)
  BY <1>1, DigitType
<1>6. QED  BY <1>2, <1>3, <1>4, <1>5 DEF FractionBefore

-----------------------------------------------------------------------------
(***************************************************************************)
(* Timestamps: days, seconds and microseconds, what PostgreSQL rounds them *)
(* to, and the way back through the text of a response.                    *)
(***************************************************************************)
\* The calendar's numbers are integers, in order.
LEMMA DayNumberInt ==
    ASSUME NEW y \in Int, NEW m \in Int, NEW d \in Int
    PROVE  DayNumber(y, m, d) \in Int
<1> DEFINE yy == IF m > 2 THEN y ELSE y - 1
           mm == (m + 9) % 12
<1>1. yy \in Int /\ mm \in Int
  OBVIOUS
<1>2. DayNumber(y, m, d) = 365 * yy + (yy \div 4) - (yy \div 100) + (yy \div 400)
            + ((153 * mm + 2) \div 5) + d - 1
  BY DEF DayNumber
<1> HIDE DEF yy, mm
<1>3. /\ yy \div 4 \in Int /\ yy \div 100 \in Int /\ yy \div 400 \in Int
      /\ (153 * mm + 2) \div 5 \in Int
  BY <1>1
<1>4. QED  BY <1>1, <1>2, <1>3

LEMMA DaysOrder ==
    /\ FirstDay \in Int /\ LastDay \in Int /\ FirstStorableDay \in Int
    /\ FirstDay <= FirstStorableDay
BY DEF FirstDay, LastDay, FirstStorableDay, DayNumber

\* The length of a day, and what is left of a number of seconds.
LEMMA DayLength == DaySeconds = 86400
BY DEF DaySeconds

LEMMA SecondBound == \A s \in 0 .. (DaySeconds - 1) : s \in Int /\ 0 <= s /\ s < 86400
<1> DEFINE Seconds == 0 .. (DaySeconds - 1)
<1>1. DaySeconds = 86400
  BY DayLength
<1>2. DaySeconds \in Int
  BY <1>1
<1>3. \A s \in Seconds : s \in Int /\ 0 <= s /\ s < DaySeconds
  BY <1>2
<1> HIDE DEF Seconds
<1>4. \A s \in Seconds : s \in Int /\ 0 <= s /\ s < 86400
  BY <1>1, <1>3
<1>5. QED
  BY <1>4 DEF Seconds

LEMMA SecondOfDay ==
    \A s \in Int : s % DaySeconds \in 0 .. (DaySeconds - 1) /\ s \div DaySeconds \in Int
<1>1. \A s \in Int : /\ s % 86400 \in Int /\ 0 <= s % 86400 /\ s % 86400 < 86400
                     /\ s \div 86400 \in Int
  OBVIOUS
<1>2. /\ DaySeconds \in Int
      /\ \A s \in Int : /\ s % DaySeconds \in Int /\ 0 <= s % DaySeconds
                         /\ s % DaySeconds < DaySeconds
                         /\ s \div DaySeconds \in Int
  BY <1>1, DayLength
<1>3. QED  BY <1>2

\* The components of a date as it was sent.
LEMMA DateTextFields ==
    ASSUME NEW t \in DateText
    PROVE  /\ t.year \in Int /\ t.month \in Int /\ t.day \in Int
           /\ t.hour \in Int /\ t.minute \in Int /\ t.second \in Int
           /\ t.fraction \in Seq(0 .. 9)
           /\ t.offset \in Offset
           /\ ~ IsUtcText(t)
<1>1. TwoDigits \subseteq Int /\ FourDigits \subseteq Int
  BY DEF TwoDigits, FourDigits
<1>2. /\ t.year \in FourDigits /\ t.month \in TwoDigits /\ t.day \in TwoDigits
      /\ t.hour \in TwoDigits /\ t.minute \in TwoDigits /\ t.second \in TwoDigits
      /\ t.fraction \in Seq(0 .. 9) /\ t.offset \in Offset
      /\ "number" \notin DOMAIN t
  BY DEF DateText
<1>3. QED  BY <1>1, <1>2 DEF IsUtcText

\* What a parsed timestamp is.
LEMMA ParsedType ==
    ASSUME NEW t \in AnyText, ParseTimestamp(t).ok
    PROVE  LET p == ParseTimestamp(t) IN
           /\ p.day \in Int /\ p.second \in 0 .. (DaySeconds - 1)
           /\ p.fraction \in Seq(0 .. 9)
           /\ p.canonical = [number |-> p.day, second |-> p.second,
                             fraction |-> CanonicalFraction(p.fraction)]
           /\ p.canonical \in UtcText
<1>1. t # Garbage /\ ~ (IsUtcText(t) /\ ~ HasFourDigitYear(t.number))
      /\ (IsUtcText(t) \/ ComponentsExist(t))
  BY DEF ParseTimestamp
<1> DEFINE w == IF IsUtcText(t) THEN [day |-> t.number, second |-> t.second] ELSE WholeSecond(t)
<1>2. ParseTimestamp(t) = [ok |-> TRUE, day |-> w.day, second |-> w.second,
              fraction  |-> t.fraction,
              canonical |-> [number |-> w.day, second |-> w.second,
                             fraction |-> CanonicalFraction(t.fraction)]]
  BY <1>1 DEF ParseTimestamp
<1>3. t.fraction \in Seq(0 .. 9)
  BY <1>1 DEF DateText, UtcText, AnyText
<1>4. w.day \in Int /\ w.second \in 0 .. (DaySeconds - 1)
  <2>1. CASE t \in UtcText
    BY <2>1 DEF UtcText, IsUtcText
  <2>2. CASE t \in DateText
    <3>1. ~ IsUtcText(t)
      BY <2>2, DateTextFields
    <3> DEFINE s == t.hour * 3600 + (t.minute - OffsetMinutes(t.offset)) * 60 + t.second
    <3>a. /\ t.year \in Int /\ t.month \in Int /\ t.day \in Int
          /\ t.hour \in Int /\ t.minute \in Int /\ t.second \in Int
      BY <2>2, DateTextFields
    <3>2. OffsetMinutes(t.offset) \in Int
      <4>a. t.offset.sign \in {-1, 1} /\ t.offset.hour \in Int /\ t.offset.minute \in Int
        <5>1. t.offset \in Offset
          BY <2>2, DateTextFields
        <5>2. TwoDigits \subseteq Int
          BY DEF TwoDigits
        <5>3. QED  BY <5>1, <5>2 DEF Offset
      <4> DEFINE minutes == t.offset.hour * 60 + t.offset.minute
      <4>1. minutes \in Int
        BY <4>a
      <4>2. OffsetMinutes(t.offset) = t.offset.sign * minutes
        BY DEF OffsetMinutes
      <4> HIDE DEF minutes
      <4>3. QED  BY <4>a, <4>1, <4>2
    <3>3. s \in Int
      BY <3>a, <3>2
    <3>4. DayNumber(t.year, t.month, t.day) \in Int
      BY <3>a, DayNumberInt
    <3>5. w = [day |-> DayNumber(t.year, t.month, t.day) + (s \div DaySeconds),
               second |-> s % DaySeconds]
      BY <3>1 DEF WholeSecond
    <3> HIDE DEF s, w
    <3>6. QED  BY <3>3, <3>4, <3>5, SecondOfDay
  <2>3. QED  BY <1>1, <2>1, <2>2 DEF AnyText
<1> HIDE DEF w
<1>5. QED  BY <1>2, <1>3, <1>4, CanonicalDigits DEF UtcText

\* The six digits that to_char writes.
Digits(us) == <<us \div 100000, (us \div 10000) % 10, (us \div 1000) % 10,
                (us \div 100) % 10, (us \div 10) % 10, us % 10>>

\* The six digits that to_char writes spell the microseconds.
LEMMA SixTuple ==
    ASSUME NEW S, NEW a \in S, NEW b \in S, NEW c \in S, NEW d \in S, NEW e \in S, NEW u \in S,
           NEW f, f = <<a, b, c, d, e, u>>
    PROVE  /\ f \in Seq(S) /\ Len(f) = 6
           /\ f[1] = a /\ f[2] = b /\ f[3] = c /\ f[4] = d /\ f[5] = e /\ f[6] = u
OBVIOUS

LEMMA SixDigits ==
    ASSUME NEW us \in Micros, NEW f, f = Digits(us)
    PROVE  f \in Seq(0 .. 9) /\ Len(f) = 6 /\ Micro(f) = us
<1> DEFINE b == us \div 10000
           a == us \div 100000
           D == 0 .. 9
           c == us \div 1000
           d == us \div 100
           e == us \div 10
           b1 == b % 10
           c1 == c % 10
           d1 == d % 10
           e1 == e % 10
           u1 == us % 10
<1>1. /\ us = e * 10 + u1 /\ e = d * 10 + e1 /\ d = c * 10 + d1
      /\ c = b * 10 + c1 /\ b = a * 10 + b1
      /\ a \in 0 .. 9 /\ b1 \in 0 .. 9 /\ c1 \in 0 .. 9 /\ d1 \in 0 .. 9
      /\ e1 \in 0 .. 9 /\ u1 \in 0 .. 9
      /\ b \in Int /\ c \in Int /\ d \in Int /\ e \in Int
  BY DEF Micros
<1>2. /\ a \in D /\ b1 \in D /\ c1 \in D /\ d1 \in D /\ e1 \in D /\ u1 \in D
  BY <1>1
<1>a. f = <<a, b1, c1, d1, e1, u1>>
  BY DEF Digits
<1> HIDE DEF a, b, c, d, e, b1, c1, d1, e1, u1, D
<1>3. /\ f \in Seq(D) /\ Len(f) = 6
      /\ f[1] = a /\ f[2] = b1 /\ f[3] = c1 /\ f[4] = d1 /\ f[5] = e1 /\ f[6] = u1
  BY <1>2, <1>a, SixTuple
<1>4. /\ Digit(f, 1) = a /\ Digit(f, 2) = b1 /\ Digit(f, 3) = c1
      /\ Digit(f, 4) = d1 /\ Digit(f, 5) = e1 /\ Digit(f, 6) = u1
  BY <1>3 DEF Digit
<1>5. Micro(f) = us
  BY <1>1, <1>4 DEF Micro
<1>6. QED  BY <1>3, <1>5 DEF D

\* Ordering of timestamptz values.
LEMMA AtOrder ==
    /\ \A a \in At, b \in At, c \in At : AtBefore(a, b) /\ AtBefore(b, c) => AtBefore(a, c)
    /\ \A a \in At : ~ AtBefore(a, a)
    /\ \A a \in At, b \in At : a = b \/ AtBefore(a, b) \/ AtBefore(b, a)
<1>1. \A a \in At : /\ a[1] \in Int /\ a[2] \in Int /\ a[3] \in Int
                    /\ a = <<a[1], a[2], a[3]>>
  BY DEF At, Micros
<1>2. QED  BY <1>1 DEF AtBefore

\* A row's timestamp comes back from the text that a listing shows of it.
LEMMA RoundTrip ==
    ASSUME NEW at \in At
    PROVE  /\ ParseTimestamp(ToChar(at)).ok
           /\ ParseTimestamp(ToChar(at)).canonical \in UtcText
           /\ ToTimestamptz(ParseTimestamp(ToChar(at)).canonical) = at
<1>1. /\ at[1] \in Int /\ at[2] \in 0 .. (DaySeconds - 1) /\ at[3] \in Micros
      /\ at[1] \in FirstDay .. LastDay /\ at = <<at[1], at[2], at[3]>>
  BY DEF At
<1> DEFINE f == Digits(at[3])
           t == ToChar(at)
           p == ParseTimestamp(t)
           cf == CanonicalFraction(f)
<1>2. f \in Seq(0 .. 9) /\ Len(f) = 6 /\ Micro(f) = at[3]
  BY <1>1, SixDigits
<1>3. t = [number |-> at[1], second |-> at[2], fraction |-> f]
  BY DEF ToChar, Digits
<1> HIDE DEF f, t
<1>4. t \in UtcText /\ IsUtcText(t) /\ t.number = at[1] /\ t.second = at[2] /\ t.fraction = f
  BY <1>1, <1>2, <1>3 DEF UtcText, IsUtcText
<1>5. t # Garbage /\ HasFourDigitYear(t.number)
  BY <1>1, <1>4, GarbageAssumption DEF HasFourDigitYear
<1>6. /\ p.ok
      /\ p.canonical = [number |-> at[1], second |-> at[2], fraction |-> cf]
  BY <1>4, <1>5 DEF ParseTimestamp
<1>7. p.canonical \in UtcText
  BY <1>4, <1>6, ParsedType DEF AnyText
<1>8. /\ cf \in Seq(0 .. 9)
      /\ \A i \in Nat \ {0} : Digit(cf, i) = Digit(f, i)
  BY <1>2, CanonicalDigits
<1> HIDE DEF cf, p
<1>9. Micro(cf) = at[3]
  BY <1>2, <1>8 DEF Micro
<1>10. ~ RoundsUp(cf)
  <2>1. Digit(cf, 7) = 0
    <3>1. 7 \in Nat \ {0} /\ 7 \in Int /\ 7 > Len(f)
      BY <1>2
    <3>2. Digit(cf, 7) = Digit(f, 7) /\ Digit(f, 7) = 0
      BY <1>2, <1>8, <3>1, DigitType
    <3>3. QED  BY <3>2
  <2>2. QED  BY <2>1 DEF RoundsUp
<1>11. /\ at[3] \div 1000000 = 0 /\ at[3] % 1000000 = at[3] /\ at[3] \in Int
       /\ at[2] \div DaySeconds = 0 /\ at[2] % DaySeconds = at[2] /\ at[2] \in Int
  <2>a. at[2] \in Int /\ 0 <= at[2] /\ at[2] < 86400
    BY <1>1, SecondBound
  <2>1. DaySeconds = 86400 /\ at[2] \in Int /\ 0 <= at[2] /\ at[2] < 86400
    BY <2>a, DayLength
  <2>2. at[3] \in Nat /\ at[3] < 1000000
    BY <1>1 DEF Micros
  <2>3. \A n \in Int : 0 <= n /\ n < 86400 => n \div 86400 = 0 /\ n % 86400 = n
    OBVIOUS
  <2>4. at[2] \div 86400 = 0 /\ at[2] % 86400 = at[2]
    BY <2>1, <2>3
  <2>5. at[3] \div 1000000 = 0 /\ at[3] % 1000000 = at[3] /\ at[3] \in Int
    BY <2>2
  <2>6. QED  BY <2>1, <2>4, <2>5
<1>12. ToTimestamptz(p.canonical) = at
  <2> DEFINE us == Micro(p.canonical.fraction) + (IF RoundsUp(p.canonical.fraction) THEN 1 ELSE 0)
             s == p.canonical.second + (us \div 1000000)
  <2>1. p.canonical.fraction = cf /\ p.canonical.second = at[2] /\ p.canonical.number = at[1]
    BY <1>6
  <2>2. us = at[3]
    BY <1>9, <1>10, <1>11, <2>1
  <2> HIDE DEF us
  <2>3. s = at[2]
    BY <1>11, <2>1, <2>2
  <2>4. ToTimestamptz(p.canonical) =
           <<p.canonical.number + (s \div DaySeconds), s % DaySeconds, us % 1000000>>
    BY DEF ToTimestamptz, us
  <2> HIDE DEF s
  <2>5. p.canonical.number + (s \div DaySeconds) = at[1]
    BY <1>1, <1>11, <2>1, <2>3
  <2>6. QED  BY <1>1, <1>11, <2>2, <2>3, <2>4, <2>5
<1>13. QED  BY <1>1, <1>6, <1>7, <1>12 DEF p, t

\* The timestamp that a listing shows is canonical.
LEMMA ItemIsCanonical ==
    ASSUME NEW at \in At, NEW item, item = ParseTimestamp(ToChar(at)).canonical
    PROVE  ParseTimestamp(item).ok /\ ParseTimestamp(item).canonical = item
<1> DEFINE t == ToChar(at)
           p == ParseTimestamp(t)
<1>1. /\ at[1] \in Int /\ at[2] \in 0 .. (DaySeconds - 1) /\ at[3] \in Micros
      /\ at[1] \in FirstDay .. LastDay
  BY DEF At
<1> DEFINE f == Digits(at[3])
<1>2. f \in Seq(0 .. 9)
  BY <1>1, SixDigits
<1>3. t = [number |-> at[1], second |-> at[2], fraction |-> f]
  BY DEF ToChar, Digits
<1> HIDE DEF f, t
<1>4. t \in UtcText /\ IsUtcText(t) /\ t.number = at[1] /\ t.second = at[2] /\ t.fraction = f
  BY <1>1, <1>2, <1>3 DEF UtcText, IsUtcText
<1>5. t # Garbage /\ HasFourDigitYear(at[1])
  BY <1>1, <1>4, GarbageAssumption DEF HasFourDigitYear
<1>6. item = [number |-> at[1], second |-> at[2], fraction |-> CanonicalFraction(f)]
  BY <1>4, <1>5 DEF ParseTimestamp, t
<1>7. CanonicalFraction(f) \in Seq(0 .. 9)
  BY <1>2, CanonicalDigits
<1>8. /\ item \in UtcText /\ IsUtcText(item) /\ item.number = at[1] /\ item.second = at[2]
      /\ item.fraction = CanonicalFraction(f)
  BY <1>1, <1>6, <1>7 DEF UtcText, IsUtcText
<1>9. item # Garbage
  BY <1>8, GarbageAssumption
<1>10. CanonicalFraction(item.fraction) = item.fraction
  BY <1>2, <1>8, CanonicalIdempotent
<1>11. QED  BY <1>5, <1>6, <1>8, <1>9, <1>10 DEF ParseTimestamp

\* The microseconds of a fraction, without the digits behind the sixth.
LEMMA MicroType ==
    ASSUME NEW f \in Seq(0 .. 9)
    PROVE  Micro(f) \in Nat /\ Micro(f) < 1000000
<1> DEFINE a == Digit(f, 1)
           b == Digit(f, 2)
           c == Digit(f, 3)
           d == Digit(f, 4)
           e == Digit(f, 5)
           u == Digit(f, 6)
<1>1. \A i \in Int : Digit(f, i) \in Nat /\ Digit(f, i) <= 9
  BY DigitType
<1>2. /\ a \in Nat /\ b \in Nat /\ c \in Nat /\ d \in Nat /\ e \in Nat /\ u \in Nat
      /\ a <= 9 /\ b <= 9 /\ c <= 9 /\ d <= 9 /\ e <= 9 /\ u <= 9
  BY <1>1
<1>3. Micro(f) = a * 100000 + b * 10000 + c * 1000 + d * 100 + e * 10 + u
  BY DEF Micro
<1> HIDE DEF a, b, c, d, e, u
<1>4. QED  BY <1>2, <1>3

\* What a column makes of a text: its microseconds, or the second after.
LEMMA Rounding ==
    ASSUME NEW c \in UtcText, NEW us,
           us = Micro(c.fraction) + (IF RoundsUp(c.fraction) THEN 1 ELSE 0)
    PROVE  /\ us \in Nat /\ us <= 1000000
           /\ us < 1000000 => ToTimestamptz(c) = <<c.number, c.second, us>>
           /\ us = 1000000 /\ c.second + 1 < 86400
                => ToTimestamptz(c) = <<c.number, c.second + 1, 0>>
           /\ us = 1000000 /\ c.second + 1 >= 86400
                => ToTimestamptz(c) = <<c.number + 1, 0, 0>>
<1>1. c.number \in Int /\ c.second \in 0 .. (DaySeconds - 1) /\ c.fraction \in Seq(0 .. 9)
  BY DEF UtcText
<1>2. Micro(c.fraction) \in Nat /\ Micro(c.fraction) < 1000000
  BY <1>1, MicroType
<1>3. us \in Nat /\ us <= 1000000
  BY <1>2
<1>4. c.second \in Int /\ 0 <= c.second /\ c.second < 86400
  BY <1>1, SecondBound
<1> DEFINE s == c.second + (us \div 1000000)
           day == c.number + (s \div 86400)
<1>5. ToTimestamptz(c) = <<day, s % 86400, us % 1000000>>
  BY DayLength DEF ToTimestamptz
<1>6. CASE us < 1000000
  <2>1. us \div 1000000 = 0 /\ us % 1000000 = us
    BY <1>3, <1>6
  <2>2. s = c.second
    BY <1>4, <2>1
  <2> HIDE DEF s
  <2>3. day = c.number /\ s % 86400 = c.second
    BY <1>1, <1>4, <2>2
  <2>4. ToTimestamptz(c) = <<c.number, c.second, us>>
    BY <1>5, <2>1, <2>3
  <2>5. QED  BY <1>3, <1>6, <2>4
<1>7. CASE us = 1000000
  <2>1. us \div 1000000 = 1 /\ us % 1000000 = 0
    BY <1>7
  <2>2. s = c.second + 1
    BY <1>4, <2>1
  <2> HIDE DEF s
  <2>3. CASE c.second + 1 < 86400
    <3>1. day = c.number /\ s % 86400 = c.second + 1
      BY <1>1, <1>4, <2>2, <2>3
    <3>2. ToTimestamptz(c) = <<c.number, c.second + 1, 0>>
      BY <1>5, <2>1, <3>1
    <3>3. c.second + 1 \in Int /\ ~ (c.second + 1 >= 86400)
      BY <1>4, <2>3
    <3>4. QED  BY <1>3, <1>7, <3>2, <3>3
  <2>4. CASE c.second + 1 >= 86400
    <3>1. s = 86400
      BY <1>4, <2>2, <2>4
    <3>2. day = c.number + 1 /\ s % 86400 = 0
      BY <1>1, <3>1
    <3>3. ToTimestamptz(c) = <<c.number + 1, 0, 0>>
      BY <1>5, <2>1, <3>2
    <3>4. c.second + 1 \in Int /\ ~ (c.second + 1 < 86400)
      BY <1>4, <2>4
    <3>5. QED  BY <1>3, <1>7, <3>3, <3>4
  <2>5. QED  BY <1>4, <2>3, <2>4
<1>8. QED  BY <1>3, <1>6, <1>7

\* A fraction that is not past a number of milliseconds is not past it when
\* it has been rounded to microseconds either.
LEMMA FractionInTime ==
    ASSUME NEW f \in Seq(0 .. 9), NEW ms \in Milliseconds,
           ~ FractionBefore(<<ms \div 100, (ms \div 10) % 10, ms % 10>>, f)
    PROVE  LET c == CanonicalFraction(f) IN
           Micro(c) + (IF RoundsUp(c) THEN 1 ELSE 0) <= ms * 1000
<1> DEFINE c == CanonicalFraction(f)
           d1 == ms \div 100
           d2 == (ms \div 10) % 10
           d3 == ms % 10
           l == <<d1, d2, d3>>
           x(i) == Digit(f, i)
<1>1. /\ d1 \in 0 .. 9 /\ d2 \in 0 .. 9 /\ d3 \in 0 .. 9
      /\ ms = d1 * 100 + d2 * 10 + d3
  BY DEF Milliseconds
<1>2. /\ l \in Seq(0 .. 9) /\ Len(l) = 3 /\ Digit(l, 1) = d1 /\ Digit(l, 2) = d2 /\ Digit(l, 3) = d3
  <2> HIDE DEF d1, d2, d3
  <2>1. QED  BY <1>1 DEF Digit
<1>3. ~ FractionBefore(l, f)
  OBVIOUS
<1> HIDE DEF d1, d2, d3, l, c
<1>4. \A i \in Nat \ {0} : x(i) \in 0 .. 9 /\ (i > 3 => Digit(l, i) = 0)
  <2> SUFFICES ASSUME NEW i \in Nat \ {0} PROVE x(i) \in 0 .. 9 /\ (i > 3 => Digit(l, i) = 0)
    OBVIOUS
  <2>1. i \in Int
    OBVIOUS
  <2>2. x(i) \in 0 .. 9
    BY <2>1, DigitType
  <2>3. i > 3 => Digit(l, i) = 0
    BY <1>2, <2>1, DigitType
  <2>4. QED  BY <2>2, <2>3
<1>5. c \in Seq(0 .. 9) /\ \A i \in Nat \ {0} : Digit(c, i) = x(i)
  BY CanonicalDigits DEF c
<1>6. Len(f) \in Nat
  OBVIOUS
<1>7. /\ x(1) <= d1
      /\ x(1) = d1 => x(2) <= d2
      /\ x(1) = d1 /\ x(2) = d2 => x(3) <= d3
  <2>1. \A i \in 1 .. 3 : ~ (/\ Digit(l, i) < x(i) /\ \A j \in 1 .. (i - 1) : Digit(l, j) = x(j))
    BY <1>2, <1>3, <1>6 DEF FractionBefore
  <2>2. 1 .. (1 - 1) = {} /\ 1 .. (2 - 1) = {1} /\ 1 .. (3 - 1) = {1, 2}
    OBVIOUS
  <2>3. /\ ~ (d1 < x(1))
        /\ ~ (d2 < x(2) /\ d1 = x(1))
        /\ ~ (d3 < x(3) /\ d1 = x(1) /\ d2 = x(2))
    BY <1>2, <2>1, <2>2
  <2> DEFINE x1 == x(1)
             x2 == x(2)
             x3 == x(3)
  <2>4. x1 \in Int /\ x2 \in Int /\ x3 \in Int
    BY <1>4
  <2>5. d1 \in Int /\ d2 \in Int /\ d3 \in Int
    BY <1>1
  <2>6. ~ (d1 < x1) /\ ~ (d2 < x2 /\ d1 = x1) /\ ~ (d3 < x3 /\ d1 = x1 /\ d2 = x2)
    BY <2>3
  <2> HIDE DEF x1, x2, x3
  <2>7. x1 <= d1 /\ (x1 = d1 => x2 <= d2) /\ (x1 = d1 /\ x2 = d2 => x3 <= d3)
    BY <2>4, <2>5, <2>6
  <2>8. QED  BY <2>7 DEF x1, x2, x3
<1>8. CASE x(1) = d1 /\ x(2) = d2 /\ x(3) = d3
  <2> DEFINE A == {i \in Nat : i > 3 /\ x(i) # 0}
  <2>1. A = {}
    <3> SUFFICES ASSUME A # {} PROVE FALSE
      OBVIOUS
    <3>1. PICK m \in A : \A k \in A : m <= k
      <4> HIDE DEF A
      <4>1. A \in SUBSET Nat
        BY DEF A
      <4>2. QED  BY <4>1, LeastNat
    <3>2. \A j \in 1 .. (m - 1) : Digit(l, j) = x(j)
      <4> SUFFICES ASSUME NEW j \in 1 .. (m - 1) PROVE Digit(l, j) = x(j)
        OBVIOUS
      <4>1. j \in Nat \ {0} /\ j < m
        BY <3>1
      <4>2. CASE j > 3
        BY <1>4, <3>1, <4>1, <4>2
      <4>3. CASE j \in {1, 2, 3}
        BY <1>2, <1>8, <4>3
      <4>4. QED  BY <4>1, <4>2, <4>3
    <3>3. Digit(l, m) < x(m)
      BY <1>4, <3>1
    <3>4. m \in 1 .. (Len(l) + Len(f))
      BY <1>2, <1>6, <3>1, DigitType
    <3>5. QED  BY <1>3, <3>2, <3>3, <3>4 DEF FractionBefore
  <2>2. x(4) = 0 /\ x(5) = 0 /\ x(6) = 0 /\ x(7) = 0
    BY <2>1
  <2>3. /\ Digit(c, 1) = d1 /\ Digit(c, 2) = d2 /\ Digit(c, 3) = d3
        /\ Digit(c, 4) = 0 /\ Digit(c, 5) = 0 /\ Digit(c, 6) = 0 /\ Digit(c, 7) = 0
    BY <1>5, <1>8, <2>2
  <2>4. Micro(c) = ms * 1000
    <3>1. Micro(c) = d1 * 100000 + d2 * 10000 + d3 * 1000 + 0 * 100 + 0 * 10 + 0
      BY <2>3 DEF Micro
    <3>2. d1 \in Int /\ d2 \in Int /\ d3 \in Int
      BY <1>1
    <3>3. QED  BY <1>1, <3>1, <3>2
  <2>5. ~ RoundsUp(c)
    BY <2>3 DEF RoundsUp
  <2>6. ms * 1000 \in Int
    BY DEF Milliseconds
  <2>7. QED  BY <2>4, <2>5, <2>6 DEF c
<1>9. CASE ~ (x(1) = d1 /\ x(2) = d2 /\ x(3) = d3)
  <2> DEFINE x1 == x(1)
             x2 == x(2)
             x3 == x(3)
             x4 == x(4)
             x5 == x(5)
             x6 == x(6)
  <2>1. /\ x1 \in Nat /\ x2 \in Nat /\ x3 \in Nat /\ x4 \in Nat /\ x5 \in Nat /\ x6 \in Nat
        /\ x1 <= 9 /\ x2 <= 9 /\ x3 <= 9 /\ x4 <= 9 /\ x5 <= 9 /\ x6 <= 9
    <3>1. \A i \in Nat \ {0} : x(i) \in Nat /\ x(i) <= 9
      BY <1>4
    <3>2. QED  BY <3>1
  <2>2. Micro(c) = x1 * 100000 + x2 * 10000 + x3 * 1000 + x4 * 100 + x5 * 10 + x6
    BY <1>5 DEF Micro
  <2>3. /\ x1 <= d1
        /\ x1 = d1 => x2 <= d2
        /\ x1 = d1 /\ x2 = d2 => x3 <= d3
        /\ ~ (x1 = d1 /\ x2 = d2 /\ x3 = d3)
    BY <1>7, <1>9
  <2>a. d1 \in Nat /\ d2 \in Nat /\ d3 \in Nat /\ d1 <= 9 /\ d2 <= 9 /\ d3 <= 9
    BY <1>1
  <2> HIDE DEF x1, x2, x3, x4, x5, x6
  <2>b. x1 * 100 + x2 * 10 + x3 + 1 <= ms
    <3>1. CASE x1 < d1
      BY <1>1, <2>1, <2>a, <3>1
    <3>2. CASE x1 = d1 /\ x2 < d2
      BY <1>1, <2>1, <2>a, <3>2
    <3>3. CASE x1 = d1 /\ x2 = d2 /\ x3 < d3
      BY <1>1, <2>1, <2>a, <3>3
    <3>4. QED  BY <2>1, <2>3, <2>a, <3>1, <3>2, <3>3
  <2>4. Micro(c) + 1 <= ms * 1000
    <3>1. ms \in Int
      BY DEF Milliseconds
    <3>2. QED  BY <2>1, <2>2, <2>b, <3>1
  <2>5. Micro(c) \in Nat
    BY <1>5, MicroType
  <2>6. QED  BY <1>1, <2>4, <2>5 DEF c
<1>10. QED  BY <1>8, <1>9

\* What was not past a limit of milliseconds when it was accepted is not past
\* it as it is stored.
LEMMA InTime ==
    ASSUME NEW t \in AnyText, ParseTimestamp(t).ok,
           NEW limit \in Moment, limit.day < LastDay,
           ~ IsAfterMilliseconds(ParseTimestamp(t), limit),
           NEW c, c = ParseTimestamp(t).canonical, IsStorable(c)
    PROVE  /\ ToTimestamptz(c) \in At
           /\ ~ AtBefore(<<limit.day, limit.second, limit.ms * 1000>>, ToTimestamptz(c))
<1> DEFINE p == ParseTimestamp(t)
           at == ToTimestamptz(c)
           us == Micro(c.fraction) + (IF RoundsUp(c.fraction) THEN 1 ELSE 0)
<1>a. limit.day \in Int /\ limit.second \in 0 .. (DaySeconds - 1) /\ limit.ms \in Milliseconds
  BY DEF Moment
<1>b. limit.day \in Int /\ limit.ms \in Int /\ 0 <= limit.ms /\ limit.ms <= 999
  BY DEF Moment, Milliseconds
<1>1. /\ p.day \in Int /\ p.second \in 0 .. (DaySeconds - 1) /\ p.fraction \in Seq(0 .. 9)
      /\ c = [number |-> p.day, second |-> p.second, fraction |-> CanonicalFraction(p.fraction)]
      /\ c \in UtcText
  BY ParsedType
<1>2. ~ IsAfterMilliseconds(p, limit)
  OBVIOUS
<1> HIDE DEF p
<1>3. /\ c.number = p.day /\ c.second = p.second /\ c.fraction = CanonicalFraction(p.fraction)
  BY <1>1
<1>4. /\ us \in Nat /\ us <= 1000000
      /\ us < 1000000 => at = <<p.day, p.second, us>>
      /\ us = 1000000 /\ p.second + 1 < 86400 => at = <<p.day, p.second + 1, 0>>
      /\ us = 1000000 /\ p.second + 1 >= 86400 => at = <<p.day + 1, 0, 0>>
  BY <1>1, <1>3, Rounding
<1> HIDE DEF at, us
<1>5. /\ p.second \in Int /\ 0 <= p.second /\ p.second < 86400
      /\ limit.second \in Int /\ 0 <= limit.second /\ limit.second < 86400
  BY <1>1, <1>a, SecondBound
<1>i. /\ p.day \in Int /\ limit.day \in Int
      /\ limit.ms \in Int /\ 0 <= limit.ms * 1000 /\ limit.ms * 1000 < 1000000
  BY <1>1, <1>b
<1>6. /\ p.day <= limit.day
      /\ p.day = limit.day => p.second <= limit.second
      /\ p.day = limit.day /\ p.second = limit.second => us <= limit.ms * 1000
  <2>1. CASE SameSecond(p, limit)
    <3>1. ~ FractionBefore(<<limit.ms \div 100, (limit.ms \div 10) % 10, limit.ms % 10>>, p.fraction)
      BY <1>2, <2>1 DEF IsAfterMilliseconds
    <3>2. us <= limit.ms * 1000
      BY <1>1, <1>3, <1>a, <3>1, FractionInTime DEF us
    <3>3. p.day = limit.day /\ p.second = limit.second
      BY <2>1 DEF SameSecond
    <3>4. QED  BY <1>i, <1>5, <3>2, <3>3
  <2>2. CASE ~ SameSecond(p, limit)
    <3>1. ~ SecondBefore(limit, p)
      BY <1>2, <2>2 DEF IsAfterMilliseconds
    <3>2. QED  BY <1>i, <1>5, <2>2, <3>1 DEF SecondBefore, SameSecond
  <2>3. QED  BY <2>1, <2>2
<1>7. /\ p.day \in FirstStorableDay .. LastDay
      /\ FirstDay <= FirstStorableDay /\ FirstDay \in Int /\ LastDay \in Int
      /\ FirstStorableDay \in Int
  BY <1>3, DaysOrder DEF IsStorable
<1>8. /\ 0 \in 0 .. (DaySeconds - 1)
      /\ p.second + 1 < 86400 => p.second + 1 \in 0 .. (DaySeconds - 1)
  <2>1. DaySeconds \in Int /\ \A n \in Int : n < 86400 => n <= DaySeconds - 1
    BY DayLength
  <2>2. \A n \in Int : 0 <= n /\ n < 86400 => n \in 0 .. (DaySeconds - 1)
    BY <2>1
  <2>3. 0 < 86400 /\ p.second + 1 \in Int /\ 0 <= p.second + 1
    BY <1>5
  <2>4. QED  BY <2>2, <2>3
<1>9. /\ 0 \in Micros
      /\ us < 1000000 => us \in Micros
  BY <1>4 DEF Micros
<1>11. CASE us < 1000000
  <2>1. at = <<p.day, p.second, us>>
    BY <1>4, <1>11
  <2>2. at \in At
    BY <1>1, <1>7, <1>9, <1>11, <2>1 DEF At
  <2>3. ~ AtBefore(<<limit.day, limit.second, limit.ms * 1000>>, at)
    BY <1>i, <1>4, <1>5, <1>6, <2>1 DEF AtBefore
  <2>4. QED  BY <2>2, <2>3 DEF at
<1>12. CASE us = 1000000 /\ p.second + 1 < 86400
  <2>1. at = <<p.day, p.second + 1, 0>>
    BY <1>4, <1>12
  <2>2. at \in At
    BY <1>1, <1>7, <1>8, <1>9, <1>12, <2>1 DEF At
  <2>3. p.day = limit.day => p.second + 1 <= limit.second
    <3>2. QED  BY <1>i, <1>5, <1>6, <1>12
  <2>4. ~ AtBefore(<<limit.day, limit.second, limit.ms * 1000>>, at)
    BY <1>i, <1>5, <1>6, <2>1, <2>3 DEF AtBefore
  <2>5. QED  BY <2>2, <2>4 DEF at
<1>13. CASE us = 1000000 /\ p.second + 1 >= 86400
  <2>1. at = <<p.day + 1, 0, 0>>
    BY <1>4, <1>13
  <2>2. p.day + 1 \in FirstDay .. LastDay
    BY <1>i, <1>6, <1>7
  <2>3. at \in At
    BY <1>1, <1>8, <1>9, <2>1, <2>2 DEF At
  <2>4. p.day + 1 <= limit.day
    <3>2. p.second = 86399
      BY <1>5, <1>13
    <3>3. QED  BY <1>i, <1>5, <1>6, <1>13, <3>2
  <2>5. ~ AtBefore(<<limit.day, limit.second, limit.ms * 1000>>, at)
    BY <1>i, <1>5, <2>1, <2>4 DEF AtBefore
  <2>6. QED  BY <2>3, <2>5 DEF at
<1>14. QED  BY <1>4, <1>5, <1>11, <1>12, <1>13

-----------------------------------------------------------------------------
(***************************************************************************)
(* Parameters: what is known once no error was found, and what the filters *)
(* make of them.                                                           *)
(***************************************************************************)
\* No error is found exactly if no check fails.
LEMMA FirstErrorNone ==
    ASSUME NEW checks, DOMAIN checks \in SUBSET Nat,
           \A i \in DOMAIN checks : checks[i][1] => checks[i][2] # NoError,
           FirstError(checks) = NoError
    PROVE  \A i \in DOMAIN checks : ~ checks[i][1]
<1> DEFINE failed == {i \in DOMAIN checks : checks[i][1]}
<1> SUFFICES ASSUME failed # {} PROVE FALSE
  OBVIOUS
<1> DEFINE first == CHOOSE i \in failed : \A j \in failed : i <= j
<1>1. first \in failed
  <2>1. failed \in SUBSET Nat
    OBVIOUS
  <2> HIDE DEF failed
  <2>2. \E m \in failed : \A k \in failed : m <= k
    BY <2>1, LeastNat
  <2>3. QED  BY <2>2
<1>2. FirstError(checks) = checks[first][2]
  BY DEF FirstError
<1> HIDE DEF first
<1>3. QED  BY <1>1, <1>2

LEMMA NoneFails ==
    ASSUME NEW checks, \A i \in DOMAIN checks : ~ checks[i][1]
    PROVE  FirstError(checks) = NoError
BY DEF FirstError

\* What validateLogEntry has made sure of in an entry that it accepts.
LEMMA EntryAccepted ==
    ASSUME NEW entry, NEW horizon, EntryError(entry, horizon) = NoError
    PROVE  /\ entry.type = "object" /\ IsText(entry, "timestamp")
           /\ TimestampOf(entry).ok
           /\ ~ IsAfterMilliseconds(TimestampOf(entry), horizon)
<1> DEFINE checks == <<
        <<IsAfterMilliseconds(TimestampOf(entry), horizon), "timestampFuture">>,
        Missing(entry, "level", "levelRequired"),
        NotText(entry, "level", "levelString"),
        <<IsText(entry, "level") /\ ~TextIn(entry, "level", LogLevels), "levelValue">>,
        Missing(entry, "service", "serviceRequired"),
        NotText(entry, "service", "serviceString"),
        <<TextIn(entry, "service", {""}), "serviceEmpty">>,
        <<TextIn(entry, "service", NulText), "serviceNul">>,
        Missing(entry, "message", "messageRequired"),
        NotText(entry, "message", "messageString"),
        <<TextIn(entry, "message", {""}), "messageEmpty">>,
        <<TextIn(entry, "message", NulText), "messageNul">>,
        <<AttributesError(AttributesOf(entry)) # NoError,
          AttributesError(AttributesOf(entry))>> >>
<1>1. /\ entry.type = "object" /\ Has(entry, "timestamp") /\ IsText(entry, "timestamp")
      /\ TimestampOf(entry).ok /\ FirstError(checks) = NoError
  BY DEF EntryError, NoError
<1>2. DOMAIN checks = 1 .. 13
  OBVIOUS
<1>3. \A i \in DOMAIN checks : checks[i][1] => checks[i][2] # NoError
  <2>1. /\ \A error : Missing(entry, "level", error)[2] = error
        /\ \A error : Missing(entry, "service", error)[2] = error
        /\ \A error : Missing(entry, "message", error)[2] = error
        /\ \A error : NotText(entry, "level", error)[2] = error
        /\ \A error : NotText(entry, "service", error)[2] = error
        /\ \A error : NotText(entry, "message", error)[2] = error
    BY DEF Missing, NotText
  <2>2. /\ checks[1][2] = "timestampFuture" /\ checks[2][2] = "levelRequired"
        /\ checks[3][2] = "levelString" /\ checks[4][2] = "levelValue"
        /\ checks[5][2] = "serviceRequired" /\ checks[6][2] = "serviceString"
        /\ checks[7][2] = "serviceEmpty" /\ checks[8][2] = "serviceNul"
        /\ checks[9][2] = "messageRequired" /\ checks[10][2] = "messageString"
        /\ checks[11][2] = "messageEmpty" /\ checks[12][2] = "messageNul"
    BY <2>1
  <2>3. checks[13][1] => checks[13][2] # NoError
    OBVIOUS
  <2> HIDE DEF checks
  <2>4. \A i \in 1 .. 13 : i = 13 \/ checks[i][2] # NoError
    BY <2>2 DEF NoError
  <2>5. QED  BY <1>2, <2>3, <2>4
<1>4. checks[1][1] = IsAfterMilliseconds(TimestampOf(entry), horizon)
  OBVIOUS
<1> HIDE DEF checks
<1>5. ~ checks[1][1]
  <2>1. DOMAIN checks \in SUBSET Nat /\ 1 \in DOMAIN checks
    BY <1>2
  <2>2. QED  BY <1>1, <1>3, <2>1, FirstErrorNone
<1>6. QED  BY <1>1, <1>4, <1>5

\* A valid query gives each attribute once.
LEMMA AttributesValid ==
    ASSUME NEW s, IsQueryString(s), AttributeError(s) = NoError
    PROVE  \A key \in DOMAIN s.attr : ~ (Len(s.attr[key]) > 1)
<1> SUFFICES ASSUME NEW key \in DOMAIN s.attr PROVE ~ (Len(s.attr[key]) > 1)
  OBVIOUS
<1> DEFINE checks == [i \in DOMAIN KeyOrder |->
        IF KeyOrder[i] \in DOMAIN s.attr
        THEN <<KeyError(s, KeyOrder[i]) # NoError, KeyError(s, KeyOrder[i])>>
        ELSE <<FALSE, NoError>>]
<1>1. PICK i \in DOMAIN KeyOrder : KeyOrder[i] = key
  BY DEF IsQueryString
<1>2. FirstError(checks) = NoError
  BY DEF AttributeError
<1>3. DOMAIN checks \in SUBSET Nat /\ i \in DOMAIN checks
  BY <1>1, KeyOrderAssumption
<1>4. \A j \in DOMAIN checks : checks[j][1] => checks[j][2] # NoError
  OBVIOUS
<1>5. checks[i][1] = (KeyError(s, key) # NoError)
  BY <1>1
<1> HIDE DEF checks
<1>6. KeyError(s, key) = NoError
  BY <1>2, <1>3, <1>4, <1>5, FirstErrorNone
<1> DEFINE inner == << <<key = "", "attributeKey">>,
                  <<key \in NulText, "attributeKeyNul">>,
                  <<Len(s.attr[key]) > 1, "attributeDuplicate">>,
                  <<s.attr[key][1] \in NulText, "attributeValueNul">> >>
<1>7. FirstError(inner) = NoError
  BY <1>6 DEF KeyError
<1>8. DOMAIN inner = 1 .. 4 /\ \A j \in 1 .. 4 : inner[j][2] # NoError
  BY DEF NoError
<1>9. inner[3][1] = (Len(s.attr[key]) > 1)
  OBVIOUS
<1> HIDE DEF inner
<1>10. ~ inner[3][1]
  <2>1. DOMAIN inner \in SUBSET Nat /\ 3 \in DOMAIN inner
    BY <1>8
  <2>2. QED  BY <1>7, <1>8, <2>1, FirstErrorNone
<1>11. QED  BY <1>9, <1>10

Parameters == {"service", "level", "since", "until", "q", "limit"}

\* What the parser has made sure of, once it finds no error.
LEMMA QueryValid ==
    ASSUME NEW query \in Valid, NEW s, s = QueryString[query]
    PROVE  /\ IsQueryString(s)
           /\ \A name \in Parameters : ~ Duplicate(s, name)
           /\ \A name \in {"since", "until"} : ~ BadBound(s, name)
           /\ \A key \in DOMAIN s.attr : ~ (Len(s.attr[key]) > 1)
           /\ ~ ValueOutside(s, "limit", MinimumLimit .. MaximumLimit)
<1>1. IsQueryString(s) /\ query \in Query /\ ListError(s) = NoError
  BY QueryStringAssumption DEF Valid, ErrorOf
<1> DEFINE outer == <<
        <<FilterError(s) # NoError, FilterError(s)>>,
        <<Duplicate(s, "limit"), "limitDuplicate">>,
        <<ValueOutside(s, "limit", MinimumLimit .. MaximumLimit), "limitValue">> >>
<1>2. FilterError(s) = NoError /\ ~ Duplicate(s, "limit")
      /\ ~ ValueOutside(s, "limit", MinimumLimit .. MaximumLimit)
  <2>1. FirstError(outer) = NoError
    BY <1>1 DEF ListError
  <2>2. DOMAIN outer = 1 .. 3
    OBVIOUS
  <2>3. outer[1][1] = (FilterError(s) # NoError) /\ outer[1][2] = FilterError(s)
    OBVIOUS
  <2>4. outer[2][1] = Duplicate(s, "limit") /\ outer[2][2] = "limitDuplicate"
    OBVIOUS
  <2>5. /\ outer[3][1] = ValueOutside(s, "limit", MinimumLimit .. MaximumLimit)
        /\ outer[3][2] = "limitValue"
    OBVIOUS
  <2> HIDE DEF outer
  <2>6. \A i \in 1 .. 3 : outer[i][1] => outer[i][2] # NoError
    <3>1. outer[2][2] # NoError /\ outer[3][2] # NoError
      BY <2>4, <2>5 DEF NoError
    <3>2. outer[1][1] => outer[1][2] # NoError
      BY <2>3
    <3>3. QED  BY <3>1, <3>2
  <2>7. \A i \in 1 .. 3 : ~ outer[i][1]
    <3>1. DOMAIN outer \in SUBSET Nat
      BY <2>2
    <3>2. QED  BY <2>1, <2>2, <2>6, <3>1, FirstErrorNone
  <2>8. ~ outer[1][1] /\ ~ outer[2][1] /\ ~ outer[3][1]
    BY <2>7
  <2>9. QED  BY <2>3, <2>4, <2>5, <2>8
<1> DEFINE range == /\ Single(s, "since") /\ Single(s, "until")
                    /\ ~BadBound(s, "since") /\ ~BadBound(s, "until")
                    /\ ParsedBefore(Bound(s, "until"), Bound(s, "since"))
           checks == <<
        <<Duplicate(s, "service"), "serviceDuplicate">>,
        <<ValueIn(s, "service", NulText), "serviceNul">>,
        <<Duplicate(s, "level"), "levelDuplicate">>,
        <<ValueOutside(s, "level", LogLevels), "levelValue">>,
        <<Duplicate(s, "since"), "sinceDuplicate">>,
        <<BadBound(s, "since"), "sinceTimestamp">>,
        <<Duplicate(s, "until"), "untilDuplicate">>,
        <<BadBound(s, "until"), "untilTimestamp">>,
        <<range, "range">>,
        <<AttributeError(s) # NoError, AttributeError(s)>>,
        <<Duplicate(s, "q"), "qDuplicate">>,
        <<ValueIn(s, "q", NulText), "qNul">> >>
<1>3. FirstError(checks) = NoError
  BY <1>2 DEF FilterError
<1>4. DOMAIN checks = 1 .. 12
  OBVIOUS
<1>5. /\ checks[1][1] = Duplicate(s, "service") /\ checks[3][1] = Duplicate(s, "level")
      /\ checks[5][1] = Duplicate(s, "since") /\ checks[6][1] = BadBound(s, "since")
      /\ checks[7][1] = Duplicate(s, "until") /\ checks[8][1] = BadBound(s, "until")
      /\ checks[10][1] = (AttributeError(s) # NoError) /\ checks[11][1] = Duplicate(s, "q")
  OBVIOUS
<1>6. /\ checks[1][2] = "serviceDuplicate" /\ checks[2][2] = "serviceNul"
      /\ checks[3][2] = "levelDuplicate" /\ checks[4][2] = "levelValue"
      /\ checks[5][2] = "sinceDuplicate" /\ checks[6][2] = "sinceTimestamp"
      /\ checks[7][2] = "untilDuplicate" /\ checks[8][2] = "untilTimestamp"
      /\ checks[9][2] = "range" /\ checks[10][2] = AttributeError(s)
      /\ checks[11][2] = "qDuplicate" /\ checks[12][2] = "qNul"
  OBVIOUS
<1> HIDE DEF checks, range
<1>7. \A i \in 1 .. 12 : checks[i][1] => checks[i][2] # NoError
  <2>1. \A i \in 1 .. 12 : i = 10 \/ checks[i][2] # NoError
    BY <1>6 DEF NoError
  <2>2. checks[10][1] => checks[10][2] # NoError
    BY <1>5, <1>6
  <2>3. QED  BY <2>1, <2>2
<1>8. \A i \in 1 .. 12 : ~ checks[i][1]
  <2>1. DOMAIN checks \in SUBSET Nat
    BY <1>4
  <2>2. QED  BY <1>3, <1>4, <1>7, <2>1, FirstErrorNone
<1>9. /\ ~ checks[1][1] /\ ~ checks[3][1] /\ ~ checks[5][1] /\ ~ checks[6][1]
      /\ ~ checks[7][1] /\ ~ checks[8][1] /\ ~ checks[10][1] /\ ~ checks[11][1]
  BY <1>8
<1>10. AttributeError(s) = NoError
  BY <1>5, <1>9
<1>11. QED  BY <1>1, <1>2, <1>5, <1>9, <1>10, AttributesValid DEF Parameters

\* A valid query asks for one row at least.
LEMMA LimitType ==
    ASSUME NEW query \in Valid
    PROVE  Limit(query) \in Nat \ {0}
<1> DEFINE s == QueryString[query]
<1>1. \A n \in MinimumLimit .. MaximumLimit : n \in Nat \ {0}
  BY DEF MinimumLimit, MaximumLimit
<1>2. IsQueryString(s) /\ ~ Duplicate(s, "limit")
      /\ ~ ValueOutside(s, "limit", MinimumLimit .. MaximumLimit)
  BY QueryValid DEF Parameters
<1>3. CASE Given(s, "limit")
  <2>1. Len(s.scalar["limit"]) \in Nat /\ Len(s.scalar["limit"]) > 0
    BY <1>2, <1>3 DEF IsQueryString, IsSequence, Given
  <2>2. Single(s, "limit")
    <3> DEFINE n == Len(s.scalar["limit"])
    <3>1. ~ (n > 1)
      BY <1>2, <1>3 DEF Duplicate
    <3>2. n \in Nat /\ n > 0
      BY <2>1
    <3> HIDE DEF n
    <3>3. n = 1
      BY <3>1, <3>2
    <3>4. QED  BY <1>3, <3>3 DEF Single, n
  <2>3. Value(s, "limit") \in MinimumLimit .. MaximumLimit
    BY <1>2, <2>2 DEF ValueOutside
  <2>4. Value(s, "limit") \in Nat \ {0}
    BY <1>1, <2>3
  <2>5. QED  BY <1>3, <2>4 DEF Limit, LimitOf
<1>4. CASE ~ Given(s, "limit")
  BY <1>4 DEF Limit, LimitOf, DefaultLimit
<1>5. QED  BY <1>3, <1>4

\* A parameter that was given has one value, and that is what it asks for.
LEMMA ParameterValue ==
    ASSUME NEW query \in Valid, NEW name \in Parameters, NEW s, s = QueryString[query]
    PROVE  /\ Given(s, name) =>
                /\ Single(s, name) /\ s.scalar[name] = <<Value(s, name)>>
                /\ Value(s, name) # NoFilter /\ Asked(query, name) = Value(s, name)
           /\ name # "q" => (Asks(query, name) <=> Given(s, name))
           /\ Asks(query, "q") <=> Given(s, "q") /\ Value(s, "q") # ""
<1>1. IsQueryString(s) /\ \A n \in Parameters : ~ Duplicate(s, n)
  BY QueryValid
<1>2. ASSUME NEW n \in Parameters, Given(s, n)
      PROVE  Single(s, n) /\ s.scalar[n] = <<Value(s, n)>> /\ Value(s, n) # NoFilter
  <2>1. /\ Len(s.scalar[n]) \in Nat /\ Len(s.scalar[n]) > 0
        /\ s.scalar[n] = [i \in 1 .. Len(s.scalar[n]) |-> s.scalar[n][i]]
        /\ s.scalar[n][1] # NoFilter
    BY <1>1, <1>2 DEF IsQueryString, IsSequence, Given
  <2>2. Len(s.scalar[n]) = 1
    <3> DEFINE length == Len(s.scalar[n])
    <3>1. ~ (length > 1)
      BY <1>1, <1>2 DEF Duplicate
    <3>2. length \in Nat /\ length > 0
      BY <2>1
    <3> HIDE DEF length
    <3>3. length = 1
      BY <3>1, <3>2
    <3>4. QED  BY <3>3 DEF length
  <2>3. s.scalar[n] = <<s.scalar[n][1]>>
    BY <2>1, <2>2
  <2>4. QED  BY <1>2, <2>1, <2>2, <2>3 DEF Single, Value
<1>3. \A n : Asked(query, n) = Value(s, n)
  BY DEF Asked, Value
<1>4. name # "q" => (Asks(query, name) <=> Given(s, name))
  BY DEF Asks, Given
<1>5. Asks(query, "q") <=> Given(s, "q") /\ s.scalar["q"] # <<"">>
  BY DEF Asks, Given
<1>6. Given(s, "q") => (s.scalar["q"] # <<"">> <=> Value(s, "q") # "")
  <2> SUFFICES ASSUME Given(s, "q") PROVE s.scalar["q"] # <<"">> <=> Value(s, "q") # ""
    OBVIOUS
  <2>1. s.scalar["q"] = <<Value(s, "q")>>
    BY <1>2 DEF Parameters
  <2>2. QED  BY <2>1
<1>7. QED  BY <1>2, <1>3, <1>4, <1>5, <1>6

\* The filters of a query string, parameter by parameter.
LEMMA FilterFields ==
    ASSUME NEW query \in Valid, NEW s, s = QueryString[query], NEW f, f = FilterOf[query]
    PROVE  f = [service |-> OrNone(s, "service"), level |-> OrNone(s, "level"),
                since |-> CanonicalBound(s, "since"), until |-> CanonicalBound(s, "until"),
                attributes |-> [key \in DOMAIN s.attr |-> s.attr[key][1]],
                q |-> IF Asks(query, "q") THEN Asked(query, "q") ELSE NoFilter]
<1>1. f = Filters(s)
  BY DEF FilterOf
<1>2. Given(s, "q") => Single(s, "q") /\ Asked(query, "q") = Value(s, "q")
  BY ParameterValue DEF Parameters
<1>3. Asks(query, "q") <=> Given(s, "q") /\ Value(s, "q") # ""
  BY ParameterValue DEF Parameters
<1>4. Single(s, "q") => Given(s, "q")
  BY DEF Single
<1>5. (IF ValueIn(s, "q", {""}) THEN NoFilter ELSE OrNone(s, "q"))
        = IF Asks(query, "q") THEN Asked(query, "q") ELSE NoFilter
  <2>1. CASE Asks(query, "q")
    <3>1. ~ ValueIn(s, "q", {""})
      BY <1>3, <2>1, Zenon DEF ValueIn
    <3>2. OrNone(s, "q") = Asked(query, "q")
      BY <1>2, <1>3, <2>1 DEF OrNone
    <3>3. QED  BY <2>1, <3>1, <3>2, Zenon
  <2>2. CASE ~ Asks(query, "q") /\ Given(s, "q")
    <3>1. ValueIn(s, "q", {""})
      BY <1>2, <1>3, <2>2, Zenon DEF ValueIn
    <3>2. QED  BY <2>2, <3>1, Zenon
  <2>3. CASE ~ Asks(query, "q") /\ ~ Given(s, "q")
    <3>1. ~ ValueIn(s, "q", {""}) /\ OrNone(s, "q") = NoFilter
      BY <1>4, <2>3, Zenon DEF ValueIn, OrNone
    <3>2. QED  BY <2>3, <3>1, Zenon
  <2>4. QED  BY <2>1, <2>2, <2>3
<1> DEFINE phrase == IF ValueIn(s, "q", {""}) THEN NoFilter ELSE OrNone(s, "q")
<1>6. f = [service |-> OrNone(s, "service"), level |-> OrNone(s, "level"),
           since |-> CanonicalBound(s, "since"), until |-> CanonicalBound(s, "until"),
           attributes |-> [key \in DOMAIN s.attr |-> s.attr[key][1]], q |-> phrase]
  BY <1>1, Zenon DEF Filters
<1>7. phrase = IF Asks(query, "q") THEN Asked(query, "q") ELSE NoFilter
  BY <1>5, Zenon
<1> HIDE DEF phrase
<1>8. QED  BY <1>6, <1>7

\* A bound that was given is a text whose canonical form is its filter.
LEMMA BoundValue ==
    ASSUME NEW query \in Valid, NEW name \in {"since", "until"}, NEW s, s = QueryString[query]
    PROVE  /\ Asks(query, name) <=> Given(s, name)
           /\ Given(s, name) =>
                /\ Asked(query, name) \in AnyText /\ ParseTimestamp(Asked(query, name)).ok
                /\ CanonicalBound(s, name) = ParseTimestamp(Asked(query, name)).canonical
                /\ CanonicalBound(s, name) # NoFilter
                /\ AskedBound[query][name] = ToTimestamptz(CanonicalBound(s, name))
           /\ ~ Given(s, name) => CanonicalBound(s, name) = NoFilter
<1>1. name \in Parameters /\ name # "q"
  BY DEF Parameters
<1>2. Asks(query, name) <=> Given(s, name)
  BY <1>1, ParameterValue
<1>3. ASSUME Given(s, name)
      PROVE  /\ Asked(query, name) \in AnyText /\ ParseTimestamp(Asked(query, name)).ok
             /\ CanonicalBound(s, name) = ParseTimestamp(Asked(query, name)).canonical
             /\ CanonicalBound(s, name) # NoFilter
             /\ AskedBound[query][name] = ToTimestamptz(CanonicalBound(s, name))
  <2>1. Single(s, name) /\ Asked(query, name) = Value(s, name)
    BY <1>1, <1>3, ParameterValue
  <2>2. Value(s, name) \in AnyText
    BY <1>3, QueryValid DEF IsQueryString, Given, Value
  <2>3. ParseTimestamp(Value(s, name)).ok
    <3>1. ~ BadBound(s, name)
      BY QueryValid
    <3>2. QED  BY <2>1, <3>1 DEF BadBound, Bound
  <2>4. CanonicalBound(s, name) = ParseTimestamp(Value(s, name)).canonical
    BY <1>3 DEF CanonicalBound, Bound
  <2>5. CanonicalBound(s, name) \in UtcText
    BY <2>2, <2>3, <2>4, ParsedType
  <2>6. AskedBound[query][name] = ToTimestamptz(CanonicalBound(s, name))
    <3>1. query \in Query
      BY DEF Valid
    <3>2. QED  BY <1>2, <1>3, <2>1, <2>3, <2>4, <3>1 DEF AskedBound
  <2>7. QED  BY <2>1, <2>2, <2>3, <2>4, <2>5, <2>6, NoFilterAssumption
<1>4. ~ Given(s, name) => CanonicalBound(s, name) = NoFilter
  BY DEF CanonicalBound
<1>5. QED  BY <1>2, <1>3, <1>4

\* What the statement selects is what the query string asks for.
LEMMA WantedMatches ==
    ASSUME NEW query \in Valid, NEW row, \A pair \in row.search : pair = <<pair[1], pair[2]>>
    PROVE  Wanted(query, row) <=> Matches(row, FilterOf[query])
<1> DEFINE s == QueryString[query]
           f == FilterOf[query]
<1>1. /\ f.service = OrNone(s, "service") /\ f.level = OrNone(s, "level")
      /\ f.since = CanonicalBound(s, "since") /\ f.until = CanonicalBound(s, "until")
      /\ f.attributes = [key \in DOMAIN s.attr |-> s.attr[key][1]]
      /\ f.q = IF Asks(query, "q") THEN Asked(query, "q") ELSE NoFilter
  BY FilterFields
<1> HIDE DEF s, f
<1>2. (\A name \in {"service", "level"} : Asks(query, name) => row[name] = Asked(query, name))
        <=> /\ f.service # NoFilter => row.service = f.service
            /\ f.level # NoFilter => row.level = f.level
  <2>1. \A name \in {"service", "level"} :
             /\ Asks(query, name) <=> Given(s, name)
             /\ Given(s, name) => Value(s, name) # NoFilter /\ Asked(query, name) = Value(s, name)
    <3> SUFFICES ASSUME NEW name \in {"service", "level"}
                 PROVE  /\ Asks(query, name) <=> Given(s, name)
                        /\ Given(s, name) => /\ Value(s, name) # NoFilter
                                             /\ Asked(query, name) = Value(s, name)
      OBVIOUS
    <3>1. name \in Parameters /\ name # "q"
      BY DEF Parameters
    <3>2. QED  BY <3>1, ParameterValue DEF s
  <2>2. /\ Asks(query, "service") <=> f.service # NoFilter
        /\ Asks(query, "service") => f.service = Asked(query, "service")
    BY <1>1, <2>1 DEF OrNone
  <2>3. /\ Asks(query, "level") <=> f.level # NoFilter
        /\ Asks(query, "level") => f.level = Asked(query, "level")
    BY <1>1, <2>1 DEF OrNone
  <2>4. QED  BY <2>2, <2>3
<1>3. /\ Asks(query, "since") <=> f.since # NoFilter
      /\ Asks(query, "since") => AskedBound[query]["since"] = ToTimestamptz(f.since)
      /\ Asks(query, "until") <=> f.until # NoFilter
      /\ Asks(query, "until") => AskedBound[query]["until"] = ToTimestamptz(f.until)
  <2>1. \A name \in {"since", "until"} :
          /\ Asks(query, name) <=> CanonicalBound(s, name) # NoFilter
          /\ Asks(query, name) => AskedBound[query][name] = ToTimestamptz(CanonicalBound(s, name))
    BY BoundValue DEF s
  <2>2. QED  BY <1>1, <2>1
<1>4. (\A key \in DOMAIN s.attr : \E pair \in row.search : <<pair[2]>> = s.attr[key] /\ pair[1] = key)
        <=> \A key \in DOMAIN f.attributes : <<key, f.attributes[key]>> \in row.search
  <2> DEFINE Sought(key) == \E pair \in row.search : <<pair[2]>> = s.attr[key] /\ pair[1] = key
  <2>0. DOMAIN f.attributes = DOMAIN s.attr /\ \A key \in DOMAIN s.attr : f.attributes[key] = s.attr[key][1]
    BY <1>1
  <2> SUFFICES ASSUME NEW key \in DOMAIN s.attr
               PROVE  Sought(key) <=> <<key, s.attr[key][1]>> \in row.search
    <3> HIDE DEF Sought
    <3>1. \A key \in DOMAIN s.attr : Sought(key) <=> <<key, f.attributes[key]>> \in row.search
      BY <2>0
    <3>2. QED  BY <2>0, <3>1 DEF Sought
  <2> DEFINE values == s.attr[key]
  <2>1. values = <<values[1]>>
    <3>1. Len(values) \in Nat /\ Len(values) > 0 /\ values = [i \in 1 .. Len(values) |-> values[i]]
      BY QueryValid DEF s, IsQueryString, IsSequence
    <3>2. ~ (Len(values) > 1)
      BY QueryValid DEF s
    <3> HIDE DEF values
    <3>3. Len(values) = 1
      BY <3>1, <3>2
    <3>4. QED  BY <3>1, <3>3
  <2> HIDE DEF values
  <2>2. ASSUME NEW pair \in row.search, <<pair[2]>> = values, pair[1] = key
        PROVE  <<key, values[1]>> \in row.search
    <3>1. values[1] = pair[2]
      BY <2>2
    <3>2. QED  BY <2>2, <3>1
  <2>3. ASSUME <<key, values[1]>> \in row.search
        PROVE  \E pair \in row.search : <<pair[2]>> = values /\ pair[1] = key
    <3> DEFINE pair == <<key, values[1]>>
    <3>1. pair[1] = key /\ pair[2] = values[1]
      OBVIOUS
    <3> HIDE DEF pair
    <3>2. QED  BY <2>1, <2>3, <3>1 DEF pair
  <2>4. QED  BY <2>2, <2>3 DEF values
<1>5. (Asks(query, "q") => <<row.message, Asked(query, "q")>> \in Containing)
        <=> (f.q # NoFilter => IsLike(row.message, Pattern(f.q)))
  <2>1. Asks(query, "q") => Asked(query, "q") # NoFilter
    <3>1. Asks(query, "q") => Given(s, "q")
      BY ParameterValue DEF Parameters, s
    <3>2. QED  BY <3>1, ParameterValue DEF Parameters, s
  <2>2. \A text : IsLike(row.message, Pattern(text)) <=> <<row.message, text>> \in Containing
    BY DEF IsLike, Pattern
  <2>3. QED  BY <1>1, <2>1, <2>2
<1>6. QED  BY <1>2, <1>3, <1>4, <1>5 DEF Wanted, Matches, f, s

\* Two spellings of the same filters.
LEMMA SameFilters ==
    ASSUME NEW a \in Valid, NEW b \in Repeats[a]
    PROVE  b \in Valid /\ FilterOf[a] = FilterOf[b]
<1> DEFINE s == QueryString[a]
           t == QueryString[b]
<1>1. /\ b \in Valid
      /\ \A name \in {"service", "level", "q"} : SameParameter(a, b, name)
      /\ \A name \in {"since", "until"} : SameMoment(a, b, name)
      /\ s.attr = t.attr
  BY DEF Repeats
<1> HIDE DEF s, t
<1>2. ASSUME NEW name \in {"service", "level"} PROVE OrNone(s, name) = OrNone(t, name)
  <2>1. name \in Parameters /\ name # "q"
    BY DEF Parameters
  <2>2. /\ Asks(a, name) <=> Given(s, name)
        /\ Given(s, name) => Asked(a, name) = Value(s, name)
    BY <2>1, ParameterValue DEF s
  <2>3. /\ Asks(b, name) <=> Given(t, name)
        /\ Given(t, name) => Asked(b, name) = Value(t, name)
    BY <1>1, <2>1, ParameterValue DEF t
  <2>4. SameParameter(a, b, name)
    BY <1>1
  <2>5. QED  BY <2>2, <2>3, <2>4 DEF SameParameter, OrNone
<1>3. ASSUME NEW name \in {"since", "until"} PROVE CanonicalBound(s, name) = CanonicalBound(t, name)
  <2>1. /\ Asks(a, name) <=> Given(s, name)
        /\ Given(s, name) =>
             /\ Asked(a, name) \in AnyText /\ ParseTimestamp(Asked(a, name)).ok
             /\ CanonicalBound(s, name) = ParseTimestamp(Asked(a, name)).canonical
        /\ ~ Given(s, name) => CanonicalBound(s, name) = NoFilter
    BY BoundValue DEF s
  <2>2. /\ Asks(b, name) <=> Given(t, name)
        /\ Given(t, name) =>
             /\ Asked(b, name) \in AnyText /\ ParseTimestamp(Asked(b, name)).ok
             /\ CanonicalBound(t, name) = ParseTimestamp(Asked(b, name)).canonical
        /\ ~ Given(t, name) => CanonicalBound(t, name) = NoFilter
    BY <1>1, BoundValue DEF t
  <2> DEFINE left == ParseTimestamp(Asked(a, name))
             right == ParseTimestamp(Asked(b, name))
  <2>3. \/ ~Asks(a, name) /\ ~Asks(b, name)
        \/ /\ Asks(a, name) /\ Asks(b, name)
           /\ ~ParsedBefore(left, right) /\ ~ParsedBefore(right, left)
    BY <1>1 DEF SameMoment
  <2>4. CASE ~Asks(a, name) /\ ~Asks(b, name)
    BY <2>1, <2>2, <2>4
  <2>5. CASE Asks(a, name) /\ Asks(b, name) /\ ~ParsedBefore(left, right) /\ ~ParsedBefore(right, left)
    <3>1. /\ left.day \in Int /\ left.second \in 0 .. (DaySeconds - 1)
          /\ left.fraction \in Seq(0 .. 9)
          /\ left.canonical = [number |-> left.day, second |-> left.second,
                               fraction |-> CanonicalFraction(left.fraction)]
      BY <2>1, <2>5, ParsedType
    <3>2. /\ right.day \in Int /\ right.second \in 0 .. (DaySeconds - 1)
          /\ right.fraction \in Seq(0 .. 9)
          /\ right.canonical = [number |-> right.day, second |-> right.second,
                                fraction |-> CanonicalFraction(right.fraction)]
      BY <2>2, <2>5, ParsedType
    <3> HIDE DEF left, right
    <3>3. left.day \in Int /\ left.second \in Int /\ right.day \in Int /\ right.second \in Int
      BY <3>1, <3>2, SecondBound
    <3>4. ~ SecondBefore(left, right) /\ ~ SecondBefore(right, left)
      BY <2>5 DEF ParsedBefore
    <3>5. left.day = right.day /\ left.second = right.second
      BY <3>3, <3>4 DEF SecondBefore
    <3>6. ~ FractionBefore(left.fraction, right.fraction) /\ ~ FractionBefore(right.fraction, left.fraction)
      BY <2>5, <3>5 DEF ParsedBefore, SameSecond
    <3>7. \A i \in Nat \ {0} : Digit(left.fraction, i) = Digit(right.fraction, i)
      BY <3>1, <3>2, <3>6, FractionsTie
    <3>8. CanonicalFraction(left.fraction) = CanonicalFraction(right.fraction)
      BY <3>1, <3>2, <3>7, CanonicalEqual
    <3>9. left.canonical = right.canonical
      BY <3>1, <3>2, <3>5, <3>8
    <3>10. QED  BY <2>1, <2>2, <2>5, <3>9 DEF left, right
  <2>6. QED  BY <2>3, <2>4, <2>5
<1>4. (IF Asks(a, "q") THEN Asked(a, "q") ELSE NoFilter)
        = IF Asks(b, "q") THEN Asked(b, "q") ELSE NoFilter
  BY <1>1 DEF SameParameter
<1>5. /\ FilterOf[a] = [service |-> OrNone(s, "service"), level |-> OrNone(s, "level"),
                since |-> CanonicalBound(s, "since"), until |-> CanonicalBound(s, "until"),
                attributes |-> [key \in DOMAIN s.attr |-> s.attr[key][1]],
                q |-> IF Asks(a, "q") THEN Asked(a, "q") ELSE NoFilter]
  BY FilterFields DEF s
<1>6. /\ FilterOf[b] = [service |-> OrNone(t, "service"), level |-> OrNone(t, "level"),
                since |-> CanonicalBound(t, "since"), until |-> CanonicalBound(t, "until"),
                attributes |-> [key \in DOMAIN t.attr |-> t.attr[key][1]],
                q |-> IF Asks(b, "q") THEN Asked(b, "q") ELSE NoFilter]
  BY <1>1, FilterFields DEF t
<1>7. /\ OrNone(s, "service") = OrNone(t, "service") /\ OrNone(s, "level") = OrNone(t, "level")
      /\ CanonicalBound(s, "since") = CanonicalBound(t, "since")
      /\ CanonicalBound(s, "until") = CanonicalBound(t, "until")
  BY <1>2, <1>3
<1>8. QED  BY <1>1, <1>4, <1>5, <1>6, <1>7

-----------------------------------------------------------------------------
(***************************************************************************)
(* Rows, cursors and pages.                                                *)
(***************************************************************************)
\* What becomes of an accepted entry that PostgreSQL can hold.
LEMMA AcceptedRow ==
    ASSUME NEW p \in Post, NEW horizon \in Horizon, NEW i \in Accepted(Body[p], horizon),
           NEW id \in Id, NEW record, record = RecordOf(Body[p][i], id),
           IsStorable(record.timestamp)
    PROVE  IsRow(RowOf(record))
<1> DEFINE entry == Body[p][i]
           t == entry.value["timestamp"].value
           row == RowOf(record)
<1>1. /\ i \in DOMAIN Body[p] /\ entry.type = "object" /\ IsText(entry, "timestamp")
      /\ TimestampOf(entry).ok /\ ~ IsAfterMilliseconds(TimestampOf(entry), horizon)
  <2>1. i \in DOMAIN Body[p] /\ EntryError(entry, horizon) = NoError
    BY DEF Accepted
  <2>2. QED  BY <2>1, EntryAccepted
<1>2. t \in AnyText
  BY <1>1, BodyAssumption
<1>3. TimestampOf(entry) = ParseTimestamp(t)
  BY DEF TimestampOf
<1>4. /\ record.id = id /\ record.timestamp = ParseTimestamp(t).canonical
      /\ record.search = NormalizeAttributes(AttributesOf(entry))
  BY <1>3 DEF RecordOf
<1>5. row.id = id /\ row.at = ToTimestamptz(record.timestamp) /\ row.search = record.search
  BY <1>4 DEF RowOf
<1>6. horizon \in Moment /\ horizon.day < LastDay
  BY HorizonAssumption
<1> HIDE DEF row, t, entry
<1>7. /\ row.at \in At
      /\ ~ AtBefore(<<horizon.day, horizon.second, horizon.ms * 1000>>, row.at)
  BY <1>1, <1>2, <1>3, <1>4, <1>5, <1>6, InTime
<1>8. \A pair \in row.search : pair = <<pair[1], pair[2]>>
  <2>1. \A pair \in record.search : pair = <<pair[1], pair[2]>>
    BY <1>4 DEF NormalizeAttributes
  <2>2. QED  BY <1>5, <2>1
<1>9. QED  BY <1>5, <1>7, <1>8 DEF IsRow, row

\* The cursor made of a row is accepted, and leads back to that row.
LEMMA CursorOf ==
    ASSUME NEW query \in Valid, NEW row, row.at \in At, row.id \in Id,
           NEW cursor, cursor = EncodeCursor(row, query)
    PROVE  /\ cursor \in Cursor /\ CursorAccepted(cursor, query)
           /\ cursor.fingerprint = FilterOf[query]
           /\ Position(cursor).at = row.at /\ Position(cursor).id = row.id
           /\ cursor.id = row.id
<1> DEFINE item == ItemTimestamp(row)
<1>1. /\ ParseTimestamp(ToChar(row.at)).ok /\ item \in UtcText
      /\ ToTimestamptz(item) = row.at
  BY RoundTrip DEF ItemTimestamp
<1>2. /\ cursor.version = CursorVersion /\ cursor.timestamp = item /\ cursor.id = row.id
      /\ cursor.fingerprint = FilterOf[query]
      /\ cursor = [version |-> cursor.version, timestamp |-> cursor.timestamp, id |-> cursor.id,
                   fingerprint |-> cursor.fingerprint]
  BY DEF EncodeCursor, Fingerprint
<1>3. ParseTimestamp(item).ok /\ ParseTimestamp(item).canonical = item
  BY ItemIsCanonical DEF ItemTimestamp
<1> HIDE DEF item
<1>4. cursor \in Cursor
  BY <1>1, <1>2 DEF Cursor
<1>5. cursor # Garbage
  BY <1>4, CursorAssumption
<1>6. CursorAccepted(cursor, query)
  BY <1>2, <1>3, <1>5 DEF CursorAccepted, Fingerprint
<1>7. Position(cursor).at = row.at /\ Position(cursor).id = row.id
  BY <1>1, <1>2 DEF Position
<1>8. QED  BY <1>2, <1>4, <1>6, <1>7

\* The order of a listing is transitive.
LEMMA BelowTransitive ==
    ASSUME NEW a, NEW b, NEW c, a.at \in At, b.at \in At, c.at \in At,
           a.id \in Nat, b.id \in Nat, c.id \in Nat, Below(a, b), Below(b, c)
    PROVE  Below(a, c)
<1>1. /\ AtBefore(a.at, b.at) /\ AtBefore(b.at, c.at) => AtBefore(a.at, c.at)
  BY AtOrder
<1>2. QED  BY <1>1 DEF Below

\* Every record makes a row, if PostgreSQL can hold it.
LEMMA RecordType ==
    ASSUME NEW record \in AnyRecord
    PROVE  record.id \in Id /\ (IsStorable(record.timestamp) => IsRow(RowOf(record)))
<1>1. PICK p \in Post : \E h \in Horizon : record \in RecordsOf(p, h)
  BY DEF AnyRecord
<1>2. PICK horizon \in Horizon : record \in RecordsOf(p, horizon)
  BY <1>1
<1>3. PICK i \in Accepted(Body[p], horizon) : \E n \in Id : record = RecordOf(Body[p][i], n)
  BY <1>2 DEF RecordsOf
<1>4. PICK id \in Id : record = RecordOf(Body[p][i], id)
  BY <1>3
<1>5. record.id = id
  BY <1>4 DEF RecordOf
<1>6. QED  BY <1>4, <1>5, AcceptedRow

LEMMA IdType == Id \subseteq Nat /\ IsFiniteSet(Id)
BY IdAssumption, FS_Interval DEF Id

\* The entries of a body are counted from one.
LEMMA BodyType ==
    ASSUME NEW p \in Post
    PROVE  /\ Len(Body[p]) \in Nat /\ DOMAIN Body[p] \in SUBSET Nat
           /\ IsFiniteSet(DOMAIN Body[p]) /\ Cardinality(DOMAIN Body[p]) = Len(Body[p])
<1> DEFINE D == DOMAIN Body[p]
           n == Len(Body[p])
<1>1. n \in Nat /\ D = 1 .. n
  BY BodyAssumption DEF IsSequence
<1> HIDE DEF D, n
<1>2. IsFiniteSet(1 .. n) /\ Cardinality(1 .. n) = n
  BY <1>1, FS_Interval
<1>3. IsFiniteSet(D) /\ Cardinality(D) = n /\ D \in SUBSET Nat
  BY <1>1, <1>2
<1>4. QED  BY <1>1, <1>3 DEF D, n

\* Entries are stored or reported: the indexes of a body are shared out.
LEMMA IdsCounted ==
    ASSUME NEW p \in Post, NEW accepted \in SUBSET DOMAIN Body[p], NEW id \in [accepted -> Id],
           \A i, j \in accepted : i # j => id[i] # id[j]
    PROVE  LET ids == {record.id : record \in {RecordOf(Body[p][i], id[i]) : i \in accepted}} IN
           /\ IsFiniteSet(ids)
           /\ Cardinality(ids) + Cardinality(DOMAIN Body[p] \ accepted) = Len(Body[p])
<1> DEFINE ids == {record.id : record \in {RecordOf(Body[p][i], id[i]) : i \in accepted}}
           D == DOMAIN Body[p]
           n == Len(Body[p])
<1>1. n \in Nat
  BY BodyType
<1>2. IsFiniteSet(D) /\ Cardinality(D) = n
  BY BodyType
<1>3. IsFiniteSet(accepted) /\ Cardinality(accepted) \in Nat
  BY <1>2, FS_Subset, FS_CardinalityType
<1>4. Cardinality(D \ accepted) = Cardinality(D) - Cardinality(D \cap accepted)
  BY <1>2, FS_Difference
<1>5. D \cap accepted = accepted
  OBVIOUS
<1>6. ids = {id[i] : i \in accepted}
  <2>1. \A entry, x : RecordOf(entry, x).id = x
    BY DEF RecordOf
  <2> DEFINE made == {RecordOf(Body[p][i], id[i]) : i \in accepted}
  <2>2. \A i \in accepted : RecordOf(Body[p][i], id[i]) \in made
    OBVIOUS
  <2>3. \A record \in made : \E i \in accepted : record = RecordOf(Body[p][i], id[i])
    OBVIOUS
  <2>4. ids = {record.id : record \in made}
    OBVIOUS
  <2> HIDE DEF ids, made
  <2>5. \A record \in made : \E i \in accepted : record.id = id[i]
    BY <2>1, <2>3
  <2>6. \A i \in accepted : \E record \in made : record.id = id[i]
    BY <2>1, <2>2
  <2>7. QED  BY <2>4, <2>5, <2>6
<1> HIDE DEF ids, D, n
<1>7. ExistsBijection(accepted, ids)
  <2> DEFINE f == [i \in accepted |-> id[i]]
  <2>1. f \in Bijection(accepted, ids)
    BY <1>6 DEF Bijection, Injection, Surjection, IsInjective
  <2>2. QED  BY <2>1 DEF ExistsBijection
<1>8. IsFiniteSet(ids) /\ Cardinality(ids) = Cardinality(accepted)
  BY <1>3, <1>7, FS_Bijection
<1>9. Cardinality(ids) + Cardinality(D \ accepted) = n
  <2> DEFINE rest == Cardinality(D \ accepted)
             all == Cardinality(D)
             part == Cardinality(accepted)
  <2>1. rest = all - part /\ part \in Nat /\ all = n /\ n \in Nat /\ Cardinality(ids) = part
    BY <1>1, <1>2, <1>3, <1>4, <1>5, <1>8
  <2> HIDE DEF rest, all, part
  <2>2. part + rest = n
    BY <2>1
  <2>3. QED  BY <2>1, <2>2 DEF rest
<1>10. QED  BY <1>8, <1>9 DEF ids, D, n

\* A page is the wanted rows from the top down to its last one, or all.
LEMMA PageRows ==
    ASSUME NEW candidates, NEW n \in Nat,
           NEW fetched \in SUBSET candidates, IsTop(fetched, candidates, n + 1),
           NEW logs \in SUBSET fetched, IsTop(logs, fetched, n), IsFiniteSet(candidates)
    PROVE  /\ Cardinality(fetched) <= n => logs = candidates
           /\ \A last \in logs, row \in candidates \ logs : Below(row, last)
<1>1. Cardinality(fetched) \in Nat /\ Cardinality(candidates) \in Nat
  BY FS_Subset, FS_CardinalityType
<1>2. ASSUME Cardinality(fetched) <= n PROVE logs = candidates
  <2>1. fetched = candidates
    BY <1>1, <1>2 DEF IsTop
  <2>2. logs = fetched
    BY <1>2 DEF IsTop
  <2>3. QED  BY <2>1, <2>2
<1>3. ASSUME NEW last \in logs, NEW row \in candidates \ logs PROVE Below(row, last)
  <2>1. CASE row \in fetched
    BY <2>1 DEF IsTop
  <2>2. CASE row \notin fetched
    BY <2>2 DEF IsTop
  <2>3. QED  BY <2>1, <2>2
<1>4. QED  BY <1>2, <1>3

\* Of rows in the table, the statement selects those that are asked for.
LEMMA RowMatches ==
    ASSUME NEW query \in Valid, NEW row, IsRow(row)
    PROVE  Wanted(query, row) <=> Matches(row, FilterOf[query])
BY WantedMatches DEF IsRow

\* One page more.
LEMMA PageListing ==
    ASSUME Rows, NEW query \in Valid, NEW first \in Valid, FilterOf[query] = FilterOf[first],
           NEW cursor, NEW seen, NEW before, Page(query, cursor, first, seen, before),
           cursor # NoCursor =>
               /\ Position(cursor).at \in At /\ Position(cursor).id \in Id
               /\ \A row \in seen : \/ row.at = Position(cursor).at /\ row.id = Position(cursor).id
                                    \/ Below(Position(cursor), row),
           cursor = NoCursor => seen = {},
           \A row \in seen \cup before : IsRow(row) /\ (row \in rows \/ row.id \in expired),
           \A row \in seen : Wanted(first, row),
           \A row \in before \cap rows :
               Wanted(first, row) /\ cursor # NoCursor /\ ~ Below(row, Position(cursor))
                   => row \in seen
    PROVE  Listing' /\ OnceInOrder' /\ NothingSkipped'
<1> DEFINE C == Candidates(query, cursor)
           n == Limit(query)
<1>1. PICK fetched \in SUBSET C : /\ IsTop(fetched, C, n + 1)
      /\ \E logs \in SUBSET fetched :
           /\ IsTop(logs, fetched, n)
           /\ \/ /\ Cardinality(fetched) > n
                 /\ \E last \in logs :
                      /\ \A r \in logs \ {last} : Below(last, r)
                      /\ listing' = [state |-> "open", query |-> first,
                                     cursor |-> EncodeCursor(last, query),
                                     page |-> logs, seen |-> seen, before |-> before]
              \/ /\ Cardinality(fetched) <= n
                 /\ listing' = [state |-> "done", query |-> first, cursor |-> NoCursor,
                                page |-> logs, seen |-> seen, before |-> before]
  BY DEF Page
<1>2. PICK logs \in SUBSET fetched :
           /\ IsTop(logs, fetched, n)
           /\ \/ /\ Cardinality(fetched) > n
                 /\ \E last \in logs :
                      /\ \A r \in logs \ {last} : Below(last, r)
                      /\ listing' = [state |-> "open", query |-> first,
                                     cursor |-> EncodeCursor(last, query),
                                     page |-> logs, seen |-> seen, before |-> before]
              \/ /\ Cardinality(fetched) <= n
                 /\ listing' = [state |-> "done", query |-> first, cursor |-> NoCursor,
                                page |-> logs, seen |-> seen, before |-> before]
  BY <1>1
<1>3. rows' = rows /\ expired' = expired
  BY DEF Page
<1>4. /\ C \in SUBSET rows /\ \A row \in rows : row \in C <=>
             Matches(row, FilterOf[query]) /\ (cursor # NoCursor => Below(row, Position(cursor)))
  BY DEF Candidates
<1>5. \A row \in rows : IsRow(row) /\ (Wanted(first, row) <=> Matches(row, FilterOf[query]))
  BY RowMatches DEF Rows
<1>6. n \in Nat
  BY LimitType
<1> HIDE DEF C, n
<1>7. /\ Cardinality(fetched) <= n => logs = C
      /\ \A last \in logs, row \in C \ logs : Below(row, last)
  <2>1. IsFiniteSet(C)
    BY <1>4, FS_Subset DEF Rows
  <2>2. QED  BY <1>1, <1>2, <1>6, <2>1, PageRows
<1>8. logs \in SUBSET C
  OBVIOUS
<1>9. \A r \in logs : /\ r \in rows /\ IsRow(r) /\ Wanted(first, r)
                      /\ cursor # NoCursor => Below(r, Position(cursor))
  BY <1>4, <1>5, <1>8
<1>10. \A r \in logs, s \in seen : Below(r, s)
  <2> SUFFICES ASSUME NEW r \in logs, NEW s \in seen PROVE Below(r, s)
    OBVIOUS
  <2>1. cursor # NoCursor
    OBVIOUS
  <2> DEFINE P == Position(cursor)
  <2>2. /\ P.at \in At /\ P.id \in Nat /\ r.at \in At /\ r.id \in Nat /\ s.at \in At /\ s.id \in Nat
        /\ Below(r, P)
    BY <1>9, <2>1, IdType DEF IsRow
  <2>3. (s.at = P.at /\ s.id = P.id) \/ Below(P, s)
    BY <2>1
  <2> HIDE DEF P
  <2>4. CASE s.at = P.at /\ s.id = P.id
    BY <2>2, <2>4 DEF Below
  <2>5. CASE Below(P, s)
    BY <2>2, <2>5, BelowTransitive
  <2>6. QED  BY <2>3, <2>4, <2>5
<1>11. /\ listing'.query = first /\ listing'.page = logs /\ listing'.seen = seen
       /\ listing'.before = before
       /\ listing'.state \in {"open", "done"}
       /\ listing'.state # "open" => listing'.cursor = NoCursor
  BY <1>2
<1>12. OnceInOrder'
  BY <1>9, <1>10, <1>11 DEF OnceInOrder, Listed
<1>13. /\ listing'.state \in {"none", "open", "done"}
       /\ listing'.state = "none" => listing' = NoListing
       /\ listing'.state # "none" => listing'.query \in Valid
       /\ listing'.state # "open" => listing'.cursor = NoCursor
       /\ \A row \in Shown' : IsRow(row) /\ (row \in rows' \/ row.id \in expired')
  BY <1>3, <1>9, <1>11 DEF Shown
<1>14. CASE /\ Cardinality(fetched) <= n
            /\ listing' = [state |-> "done", query |-> first, cursor |-> NoCursor,
                           page |-> logs, seen |-> seen, before |-> before]
  <2>1. listing'.state = "done" /\ logs = C
    BY <1>7, <1>14
  <2>2. Listing'
    BY <1>13, <2>1 DEF Listing
  <2>3. NothingSkipped'
    <3> SUFFICES ASSUME NEW row \in before \cap rows, Wanted(first, row)
                 PROVE  row \in seen \cup logs
      BY <1>3, <1>11 DEF NothingSkipped, Listed
    <3>1. CASE cursor # NoCursor /\ ~ Below(row, Position(cursor))
      BY <3>1
    <3>2. CASE ~ (cursor # NoCursor /\ ~ Below(row, Position(cursor)))
      BY <1>4, <1>5, <2>1, <3>2
    <3>3. QED  BY <3>1, <3>2
  <2>4. QED  BY <1>12, <2>2, <2>3
<1>15. ASSUME NEW last \in logs, \A r \in logs \ {last} : Below(last, r),
              listing' = [state |-> "open", query |-> first,
                          cursor |-> EncodeCursor(last, query),
                          page |-> logs, seen |-> seen, before |-> before]
       PROVE  Listing' /\ NothingSkipped'
  <2> DEFINE c == EncodeCursor(last, query)
  <2>1. listing'.state = "open" /\ listing'.cursor = c
    BY <1>15
  <2>2. last.at \in At /\ last.id \in Id
    BY <1>9 DEF IsRow
  <2>3. /\ c \in Cursor /\ CursorAccepted(c, query)
        /\ Position(c).at = last.at /\ Position(c).id = last.id /\ c.id = last.id
    BY <2>2, CursorOf
  <2> HIDE DEF c
  <2>4. CursorAccepted(c, first)
    BY <2>3 DEF CursorAccepted, Fingerprint
  <2>5. \A other : Below(other, last) <=> Below(other, Position(c))
    BY <2>3 DEF Below
  <2>6. \A other : Below(last, other) <=> Below(Position(c), other)
    BY <2>3 DEF Below
  <2>7. \A row \in logs \cup seen :
           \/ row.at = Position(c).at /\ row.id = c.id
           \/ Below(Position(c), row)
    BY <1>10, <1>15, <2>3, <2>6
  <2>8. Listing'
    BY <1>11, <1>13, <2>1, <2>2, <2>3, <2>4, <2>7 DEF Listing, Listed
  <2>9. NothingSkipped'
    <3> SUFFICES ASSUME NEW row \in before \cap rows, Wanted(first, row),
                        ~ Below(row, Position(c))
                 PROVE  row \in seen \cup logs
      BY <1>3, <1>11, <2>1 DEF NothingSkipped, Listed
    <3>1. CASE cursor # NoCursor /\ ~ Below(row, Position(cursor))
      BY <3>1
    <3>2. CASE ~ (cursor # NoCursor /\ ~ Below(row, Position(cursor)))
      <4>1. row \in C
        BY <1>4, <1>5, <3>2
      <4>2. row \in logs
        BY <1>7, <2>5, <4>1
      <4>3. QED  BY <4>2
    <3>3. QED  BY <3>1, <3>2
  <2>10. QED  BY <2>8, <2>9
<1>16. QED  BY <1>2, <1>12, <1>14, <1>15

-----------------------------------------------------------------------------
(***************************************************************************)
(* The steps.                                                              *)
(***************************************************************************)
\* A listing keeps its promises while rows are stored and expire.
LEMMA ListingKept ==
    ASSUME Listing, OnceInOrder, NothingSkipped, listing' = listing,
           \A row \in rows : row \in rows' \/ row.id \in expired',
           expired \subseteq expired',
           \A row \in rows' : row \in rows \/ row.id \notin expired
    PROVE  Listing' /\ OnceInOrder' /\ NothingSkipped'
<1>1. OnceInOrder'
  BY DEF OnceInOrder, Listed
<1>2. \A row \in Shown : row \in rows' \/ row.id \in expired'
  BY DEF Listing
<1>3. Listing'
  BY <1>2 DEF Listing, Shown, Listed
<1>4. \A row \in listing.before \cap rows' : row \in rows
  BY DEF Listing, Shown
<1>5. NothingSkipped'
  BY <1>4 DEF NothingSkipped, Listed
<1>6. QED  BY <1>1, <1>3, <1>5

\* Ids stay distinct while records and rows stay as they are.
LEMMA IdsKept ==
    ASSUME Ids, rows' = rows, expired' = expired,
           \A q \in Post : posts'[q].records = posts[q].records /\ posts'[q].stored = posts[q].stored
    PROVE  Ids'
<1>1. \A q \in Post : IdsOf(q)' = IdsOf(q)
  BY DEF IdsOf
<1>2. RowIds' = RowIds
  BY DEF RowIds
<1>3. \A p, q \in Post : \A r \in posts'[p].records, s \in posts'[q].records :
         r.id = s.id => p = q /\ r = s
  BY DEF Ids
<1>4. \A p \in Post : posts'[p].stored => IdsOf(p)' \subseteq RowIds' \cup expired'
  BY <1>1, <1>2 DEF Ids
<1>5. \A id \in RowIds' \cup expired' : \E p \in Post : posts'[p].stored /\ id \in IdsOf(p)'
  BY <1>1, <1>2 DEF Ids
<1>6. (\A r, s \in rows' : r.id = s.id => r = s) /\ \A row \in rows' : row.id \notin expired'
  BY DEF Ids
<1>7. QED  BY <1>3, <1>4, <1>5, <1>6 DEF Ids

\* A request that a step leaves alone, though others may be answered.
LEMMA ProgressKept ==
    ASSUME NEW q \in Post, Progress(q), posts'[q] = posts[q]
    PROVE  Progress(q)'
<1>1. IdsOf(q)' = IdsOf(q)
  BY DEF IdsOf
<1>2. QED  BY <1>1 DEF Progress

Answered(post, status) == [post EXCEPT !.state = "answered", !.status = status]

\* A post that has been answered is still a post.
LEMMA PostAnswered ==
    ASSUME NEW post \in PostRecord, NEW status \in Statuses
    PROVE  LET next == Answered(post, status) IN
           /\ next \in PostRecord /\ next.state = "answered" /\ next.status = status
           /\ next.records = post.records /\ next.rejected = post.rejected
           /\ next.stored = post.stored
<1> DEFINE R == SUBSET AnyRecord
           J == SUBSET Nat
<1>1. PostRecord = [state : States, records : R, rejected : J, stored : BOOLEAN,
                    status : Statuses]
  BY DEF PostRecord
<1>2. "answered" \in States
  BY DEF States
<1> HIDE DEF R, J
<1>3. QED  BY <1>1, <1>2 DEF Answered

AnsweredPosts(batch, status) ==
    [p \in Post |-> IF p \in batch
                    THEN Answered(posts[p], status)
                    ELSE posts[p]]

\* The answers after an insertion: of the service, or of each call whose
\* statement failed.
LEMMA AnswersKeep ==
    ASSUME IInv, NEW batch \in SUBSET Post, NEW status \in {200, 500, 503},
           \A p \in batch : posts[p].state = "inserting",
           status = 200 => \A p \in batch : posts[p].stored,
           status = 500 => \A p \in batch : ~ posts[p].stored,
           posts' = AnsweredPosts(batch, status),
           UNCHANGED <<rows, expired, listing>>
    PROVE  IInv'
<1>1. Posts /\ Ids /\ Rows /\ Listing /\ OnceInOrder /\ NothingSkipped
  BY DEF IInv
<1>2. posts \in [Post -> PostRecord] /\ \A p \in Post : Progress(p)
  BY <1>1 DEF Posts
<1>3. rows' = rows /\ expired' = expired /\ listing' = listing
  OBVIOUS
<1> DEFINE next(q) == IF q \in batch THEN Answered(posts[q], status) ELSE posts[q]
<1>a. posts' = [q \in Post |-> next(q)]
  BY DEF AnsweredPosts
<1> HIDE DEF next
<1>b. \A q \in Post : posts'[q] = next(q)
  BY <1>a
<1>4. \A q \in Post : /\ q \in batch => posts'[q] = Answered(posts[q], status)
                      /\ q \notin batch => posts'[q] = posts[q]
  BY <1>b DEF next
<1>6. ASSUME NEW q \in batch
      PROVE  /\ posts'[q] \in PostRecord /\ posts'[q].state = "answered"
             /\ posts'[q].status = status
             /\ posts'[q].records = posts[q].records
             /\ posts'[q].rejected = posts[q].rejected
             /\ posts'[q].stored = posts[q].stored
  <2>1. posts[q] \in PostRecord
    BY <1>2
  <2>2. posts'[q] = Answered(posts[q], status)
    BY <1>4
  <2>3. status \in Statuses
    BY DEF Statuses
  <2>4. QED  BY <2>1, <2>2, <2>3, PostAnswered
<1>7. \A q \in Post : posts'[q].records = posts[q].records /\ posts'[q].stored = posts[q].stored
  BY <1>4, <1>6
<1>8. posts' \in [Post -> PostRecord]
  <2>1. \A q \in Post : next(q) \in PostRecord
    BY <1>2, <1>b, <1>4, <1>6
  <2>2. QED  BY <1>a, <2>1
<1>9. Ids' /\ Rows' /\ Listing' /\ OnceInOrder' /\ NothingSkipped'
  <2>1. Ids'
    BY <1>1, <1>3, <1>7, IdsKept
  <2>2. Rows'
    BY <1>1, <1>3 DEF Rows
  <2>3. Listing' /\ OnceInOrder' /\ NothingSkipped'
    BY <1>1, <1>3, ListingKept DEF Ids
  <2>4. QED  BY <2>1, <2>2, <2>3
<1>10. \A q \in Post : IdsOf(q)' = IdsOf(q)
  BY <1>7 DEF IdsOf
<1>11. ASSUME NEW q \in Post PROVE Progress(q)'
  <2>1. CASE q \in batch
    <3>1. /\ posts'[q].state = "answered" /\ posts'[q].status = status
          /\ posts'[q].records = posts[q].records
          /\ posts'[q].rejected = posts[q].rejected
          /\ posts'[q].stored = posts[q].stored
      BY <1>6, <2>1
    <3>2. Progress(q) /\ posts[q].state = "inserting" /\ q \in Post
      BY <1>2, <2>1
    <3>3. status = 500 => ~ posts[q].stored
      BY <2>1
    <3>4. status # 0 /\ status # 400 /\ (status = 200 => posts[q].stored)
      BY <2>1
    <3>5. QED  BY <1>10, <3>1, <3>2, <3>3, <3>4 DEF Progress
  <2>2. CASE q \notin batch
    BY <1>2, <1>4, <2>2, ProgressKept
  <2>3. QED  BY <2>1, <2>2
<1>12. QED  BY <1>8, <1>9, <1>11 DEF IInv, Posts

\* Rows that are committed: their ids are new to the table.
LEMMA StoreKeeps ==
    ASSUME IInv, NEW p \in Post, Store(p)
    PROVE  IInv'
<1>1. Posts /\ Ids /\ Rows /\ Listing /\ OnceInOrder /\ NothingSkipped
  BY DEF IInv
<1>2. posts \in [Post -> PostRecord] /\ \A q \in Post : Progress(q)
  BY <1>1 DEF Posts
<1>3. /\ expired' = expired /\ listing' = listing /\ Storable(p) /\ ~ posts[p].stored
      /\ rows' = rows \cup {RowOf(record) : record \in posts[p].records}
      /\ posts' = [posts EXCEPT ![p].stored = TRUE]
      /\ posts[p].state = "inserting" \/ posts[p].status = 503
  BY DEF Store
<1> DEFINE next == [posts[p] EXCEPT !.stored = TRUE]
<1>4. posts'[p] = next /\ \A q \in Post \ {p} : posts'[q] = posts[q]
  BY <1>2, <1>3
<1>5. /\ next \in PostRecord /\ next.stored = TRUE /\ next.state = posts[p].state
      /\ next.records = posts[p].records /\ next.rejected = posts[p].rejected
      /\ next.status = posts[p].status
  <2> DEFINE R == SUBSET AnyRecord
             J == SUBSET Nat
             post == posts[p]
  <2>1. PostRecord = [state : States, records : R, rejected : J, stored : BOOLEAN,
                      status : Statuses]
    BY DEF PostRecord
  <2>2. post \in PostRecord
    BY <1>2
  <2>3. next = [post EXCEPT !.stored = TRUE]
    OBVIOUS
  <2> HIDE DEF R, J, post, next
  <2>4. /\ next \in PostRecord /\ next.stored = TRUE /\ next.state = post.state
        /\ next.records = post.records /\ next.rejected = post.rejected
        /\ next.status = post.status
    BY <2>1, <2>2, <2>3
  <2>5. QED  BY <2>4 DEF post
<1>6. posts' \in [Post -> PostRecord]
  BY <1>2, <1>3, <1>5
<1> HIDE DEF next
<1>7. \A q \in Post : posts'[q].records = posts[q].records
  BY <1>4, <1>5
<1>8. \A q \in Post : IdsOf(q)' = IdsOf(q)
  BY <1>7 DEF IdsOf
<1>9. ASSUME NEW q \in Post PROVE Progress(q)'
  <2>1. CASE q = p
    <3>1. posts[p].state # "new"
      BY <1>2, <1>3 DEF Progress, NewPost
    <3>2. QED  BY <1>2, <1>3, <1>4, <1>5, <1>8, <2>1, <3>1 DEF Progress
  <2>2. CASE q # p
    BY <1>2, <1>4, <2>2, ProgressKept
  <2>3. QED  BY <2>1, <2>2
<1> DEFINE N == {RowOf(record) : record \in posts[p].records}
<1>10. \A row \in N : \E record \in posts[p].records : row = RowOf(record) /\ row.id = record.id
  BY DEF RowOf
<1>11. \A record \in posts[p].records : RowOf(record) \in N /\ RowOf(record).id = record.id
  BY DEF RowOf
<1>12. rows' = rows \cup N
  BY <1>3
<1>13. \A record \in posts[p].records : record.id \notin RowIds /\ record.id \notin expired
  <2> SUFFICES ASSUME NEW record \in posts[p].records, record.id \in RowIds \cup expired
               PROVE  FALSE
    OBVIOUS
  <2>1. PICK q \in Post : posts[q].stored /\ record.id \in IdsOf(q)
    BY <1>1 DEF Ids
  <2>2. PICK other \in posts[q].records : other.id = record.id
    BY <2>1 DEF IdsOf
  <2>3. p = q
    BY <1>1, <2>2 DEF Ids
  <2>4. QED  BY <1>3, <2>1, <2>3
<1> HIDE DEF N
<1>14. RowIds' = RowIds \cup IdsOf(p)
  BY <1>10, <1>11, <1>12 DEF RowIds, IdsOf
<1>15. Ids'
  <2>1. \A m, q \in Post : \A r \in posts'[m].records, s \in posts'[q].records :
         r.id = s.id => m = q /\ r = s
    BY <1>1, <1>7 DEF Ids
  <2>2. \A q \in Post : posts'[q].stored => IdsOf(q)' \subseteq RowIds' \cup expired'
    BY <1>1, <1>3, <1>4, <1>8, <1>14 DEF Ids
  <2>3. \A id \in RowIds' \cup expired' : \E q \in Post : posts'[q].stored /\ id \in IdsOf(q)'
    <3> SUFFICES ASSUME NEW id \in RowIds' \cup expired'
                 PROVE  \E q \in Post : posts'[q].stored /\ id \in IdsOf(q)'
      OBVIOUS
    <3>1. CASE id \in IdsOf(p)
      BY <1>4, <1>5, <1>8, <3>1
    <3>2. CASE id \notin IdsOf(p)
      <4>1. PICK q \in Post : posts[q].stored /\ id \in IdsOf(q)
        BY <1>1, <1>3, <1>14, <3>2 DEF Ids
      <4>2. QED  BY <1>4, <1>8, <3>2, <4>1
    <3>3. QED  BY <3>1, <3>2
  <2>4. \A r, s \in rows' : r.id = s.id => r = s
    <3> SUFFICES ASSUME NEW r \in rows', NEW s \in rows', r.id = s.id PROVE r = s
      OBVIOUS
    <3>1. CASE r \in rows /\ s \in rows
      BY <1>1, <3>1 DEF Ids
    <3>2. CASE r \in N /\ s \in N
      <4>1. PICK a \in posts[p].records : r = RowOf(a) /\ r.id = a.id
        BY <1>10, <3>2
      <4>2. PICK b \in posts[p].records : s = RowOf(b) /\ s.id = b.id
        BY <1>10, <3>2
      <4>3. a = b
        BY <1>1, <4>1, <4>2 DEF Ids
      <4>4. QED  BY <4>1, <4>2, <4>3
    <3>3. CASE r \in rows /\ s \in N
      <4>1. s.id \notin RowIds
        BY <1>10, <1>13, <3>3
      <4>2. QED  BY <3>3, <4>1 DEF RowIds
    <3>4. CASE r \in N /\ s \in rows
      <4>1. r.id \notin RowIds
        BY <1>10, <1>13, <3>4
      <4>2. QED  BY <3>4, <4>1 DEF RowIds
    <3>5. QED  BY <1>12, <3>1, <3>2, <3>3, <3>4
  <2>5. \A row \in rows' : row.id \notin expired'
    BY <1>1, <1>3, <1>10, <1>12, <1>13 DEF Ids
  <2>6. QED  BY <2>1, <2>2, <2>3, <2>4, <2>5 DEF Ids
<1>16. Rows'
  <2>1. IsFiniteSet(posts[p].records)
    BY <1>2 DEF Progress
  <2>2. IsFiniteSet(N)
    <3> DEFINE f == [record \in posts[p].records |-> RowOf(record)]
    <3>1. f \in Surjection(posts[p].records, N)
      BY DEF Surjection, N
    <3> HIDE DEF f
    <3>2. QED  BY <2>1, <3>1, FS_Surjection
  <2>3. IsFiniteSet(rows')
    BY <1>1, <1>12, <2>2, FS_Union DEF Rows
  <2>4. \A row \in N : IsRow(row)
    <3> SUFFICES ASSUME NEW row \in N PROVE IsRow(row)
      OBVIOUS
    <3>1. PICK record \in posts[p].records : row = RowOf(record)
      BY <1>10
    <3>2. record \in AnyRecord /\ IsStorable(record.timestamp)
      BY <1>2, <1>3 DEF PostRecord, Storable
    <3>3. QED  BY <3>1, <3>2, RecordType
  <2>5. QED  BY <1>1, <1>3, <1>12, <2>3, <2>4 DEF Rows
<1>17. Listing' /\ OnceInOrder' /\ NothingSkipped'
  <2>1. \A row \in rows' : row \in rows \/ row.id \notin expired
    BY <1>10, <1>12, <1>13
  <2>2. QED  BY <1>1, <1>3, <1>12, <2>1, ListingKept
<1>18. QED  BY <1>6, <1>9, <1>15, <1>16, <1>17 DEF IInv, Posts

\* A body that is validated and given its ids.
LEMMA ReceiveKeeps ==
    ASSUME IInv, NEW p \in Post, Receive(p)
    PROVE  IInv'
<1>1. Posts /\ Ids /\ Rows /\ Listing /\ OnceInOrder /\ NothingSkipped
  BY DEF IInv
<1>2. posts \in [Post -> PostRecord] /\ \A q \in Post : Progress(q)
  BY <1>1 DEF Posts
<1>3. rows' = rows /\ expired' = expired /\ listing' = listing /\ posts[p].state = "new"
  BY DEF Receive
<1>4. posts[p] = NewPost
  BY <1>2, <1>3 DEF Progress
<1> DEFINE Effect(accepted) ==
        \E id \in [accepted -> Id \ UsedIds] :
           /\ \A i, j \in accepted : i # j => id[i] # id[j]
           /\ posts' = [posts EXCEPT ![p] =
                [state    |-> IF accepted = {} THEN "answered" ELSE "inserting",
                 records  |-> {RecordOf(Body[p][i], id[i]) : i \in accepted},
                 rejected |-> DOMAIN Body[p] \ accepted,
                 stored   |-> FALSE,
                 status   |-> IF accepted = {} THEN 400 ELSE 0]]
<1>5. PICK horizon \in Horizon : Effect(Verdict[p][horizon])
  BY DEF Receive
<1> DEFINE accepted == Accepted(Body[p], horizon)
<1>6. Verdict[p][horizon] = accepted
  BY DEF Verdict
<1>a. Effect(accepted)
  <2> HIDE DEF Effect, accepted
  <2>1. QED  BY <1>5, <1>6
<1>7. PICK id \in [accepted -> Id \ UsedIds] :
           /\ \A i, j \in accepted : i # j => id[i] # id[j]
           /\ posts' = [posts EXCEPT ![p] =
                [state    |-> IF accepted = {} THEN "answered" ELSE "inserting",
                 records  |-> {RecordOf(Body[p][i], id[i]) : i \in accepted},
                 rejected |-> DOMAIN Body[p] \ accepted,
                 stored   |-> FALSE,
                 status   |-> IF accepted = {} THEN 400 ELSE 0]]
  BY <1>a
<1> HIDE DEF Effect
<1> DEFINE new == {RecordOf(Body[p][i], id[i]) : i \in accepted}
           rest == DOMAIN Body[p] \ accepted
           state == IF accepted = {} THEN "answered" ELSE "inserting"
           status == IF accepted = {} THEN 400 ELSE 0
           next == [state |-> state, records |-> new, rejected |-> rest, stored |-> FALSE,
                    status |-> status]
<1>8. accepted \in SUBSET DOMAIN Body[p] /\ rest \in SUBSET Nat
  <2>1. DOMAIN Body[p] \in SUBSET Nat
    BY BodyType
  <2>2. QED  BY <2>1 DEF Accepted
<1>9. new \in SUBSET AnyRecord
  <2> SUFFICES ASSUME NEW i \in accepted PROVE RecordOf(Body[p][i], id[i]) \in AnyRecord
    OBVIOUS
  <2>1. id[i] \in Id
    OBVIOUS
  <2>2. RecordOf(Body[p][i], id[i]) \in RecordsOf(p, horizon)
    BY <2>1 DEF RecordsOf
  <2>3. QED  BY <2>2 DEF AnyRecord
<1>10. /\ IsFiniteSet({record.id : record \in new})
       /\ Cardinality({record.id : record \in new}) + Cardinality(rest) = Len(Body[p])
  <2>1. id \in [accepted -> Id]
    OBVIOUS
  <2> HIDE DEF accepted
  <2>2. QED  BY <1>7, <1>8, <2>1, IdsCounted
<1>11. \A r \in new : \E i \in accepted : r = RecordOf(Body[p][i], id[i]) /\ r.id = id[i]
  <2>1. \A entry, x : RecordOf(entry, x).id = x
    BY DEF RecordOf
  <2>2. QED  BY <2>1
<1>12. IsFiniteSet(new)
  <2>1. IsFiniteSet(accepted)
    <3>1. IsFiniteSet(DOMAIN Body[p])
      BY BodyType
    <3>2. QED  BY <1>8, <3>1, FS_Subset
  <2> DEFINE f == [i \in accepted |-> RecordOf(Body[p][i], id[i])]
  <2>2. f \in Surjection(accepted, new)
    BY DEF Surjection
  <2> HIDE DEF f, accepted, new
  <2>3. QED  BY <2>1, <2>2, FS_Surjection
<1>13. posts' = [posts EXCEPT ![p] = next]
  BY <1>7
<1>14. /\ state \in States /\ status \in Statuses /\ state # "new"
       /\ state = "answered" <=> status # 0
       /\ status # 200 /\ status # 500
       /\ status = 400 => new = {}
  BY DEF States, Statuses
<1>15. next.state = state /\ next.records = new /\ next.rejected = rest /\ next.stored = FALSE
       /\ next.status = status /\ next \in PostRecord
  <2> HIDE DEF state, status, new, rest
  <2>1. QED  BY <1>8, <1>9, <1>14 DEF PostRecord
<1> HIDE DEF state, status, new, rest, next, accepted
<1>16. posts'[p] = next /\ \A q \in Post \ {p} : posts'[q] = posts[q]
  BY <1>2, <1>13
<1>17. posts' \in [Post -> PostRecord]
  BY <1>2, <1>13, <1>15
<1>18. \A q \in Post \ {p} : IdsOf(q)' = IdsOf(q)
  BY <1>16 DEF IdsOf
<1>19. IdsOf(p)' = {record.id : record \in new}
  BY <1>15, <1>16 DEF IdsOf
<1>20. ASSUME NEW q \in Post PROVE Progress(q)'
  <2>1. CASE q = p
    <3>1. posts'[q] = next
      BY <1>16, <2>1
    <3>2. next.state # "new" /\ ~ next.stored /\ next.status # 200 /\ next.status # 500
      BY <1>14, <1>15
    <3>3. (next.state = "answered" <=> next.status # 0) /\ (next.status = 400 => next.records = {})
      BY <1>14, <1>15
    <3>4. IsFiniteSet(next.records) /\ IsFiniteSet(IdsOf(q)')
      BY <1>10, <1>12, <1>15, <1>19, <2>1
    <3>5. Cardinality(IdsOf(q)') + Cardinality(next.rejected) = Len(Body[q])
      BY <1>10, <1>15, <1>19, <2>1
    <3>6. QED
      BY <3>1, <3>2, <3>3, <3>4, <3>5 DEF Progress
  <2>2. CASE q # p
    BY <1>2, <1>16, <2>2, ProgressKept
  <2>3. QED  BY <2>1, <2>2
<1>21. Ids'
  <2>1. ASSUME NEW m \in Post, NEW q \in Post, NEW r \in posts'[m].records,
               NEW s \in posts'[q].records, r.id = s.id
        PROVE  m = q /\ r = s
    <3>1. \A x \in new : x.id \notin UsedIds
      BY <1>11
    <3>2. \A k \in Post : \A x \in posts[k].records : x.id \in UsedIds
      BY DEF UsedIds
    <3>3. CASE m = p /\ q = p
      <4>1. PICK i \in accepted : r = RecordOf(Body[p][i], id[i]) /\ r.id = id[i]
        BY <1>11, <1>15, <1>16, <3>3
      <4>2. PICK j \in accepted : s = RecordOf(Body[p][j], id[j]) /\ s.id = id[j]
        BY <1>11, <1>15, <1>16, <3>3
      <4>3. i = j
        BY <1>7, <2>1, <4>1, <4>2
      <4>4. QED  BY <3>3, <4>1, <4>2, <4>3
    <3>4. CASE m = p /\ q # p
      BY <1>15, <1>16, <2>1, <3>1, <3>2, <3>4
    <3>5. CASE m # p /\ q = p
      BY <1>15, <1>16, <2>1, <3>1, <3>2, <3>5
    <3>6. CASE m # p /\ q # p
      BY <1>1, <1>16, <2>1, <3>6 DEF Ids
    <3>7. QED  BY <3>3, <3>4, <3>5, <3>6
  <2>2. RowIds' = RowIds
    BY <1>3 DEF RowIds
  <2>3. \A q \in Post : posts'[q].stored => q # p /\ posts[q].stored
    BY <1>15, <1>16
  <2>4. \A q \in Post : posts[q].stored => q # p
    BY <1>4 DEF NewPost
  <2>5. \A q \in Post : posts'[q].stored => IdsOf(q)' \subseteq RowIds' \cup expired'
    BY <1>1, <1>3, <1>18, <2>2, <2>3 DEF Ids
  <2>6. \A x \in RowIds' \cup expired' : \E q \in Post : posts'[q].stored /\ x \in IdsOf(q)'
    <3> SUFFICES ASSUME NEW x \in RowIds \cup expired
                 PROVE  \E q \in Post : posts'[q].stored /\ x \in IdsOf(q)'
      BY <1>3, <2>2
    <3>1. PICK q \in Post : posts[q].stored /\ x \in IdsOf(q)
      BY <1>1 DEF Ids
    <3>2. QED  BY <1>16, <1>18, <2>4, <3>1
  <2>7. (\A r, s \in rows' : r.id = s.id => r = s) /\ \A row \in rows' : row.id \notin expired'
    BY <1>1, <1>3 DEF Ids
  <2>8. \A m, q \in Post : \A r \in posts'[m].records, s \in posts'[q].records :
         r.id = s.id => m = q /\ r = s
    BY <2>1
  <2>9. QED  BY <2>5, <2>6, <2>7, <2>8 DEF Ids
<1>22. Rows'
  BY <1>1, <1>3 DEF Rows
<1>23. Listing' /\ OnceInOrder' /\ NothingSkipped'
  BY <1>1, <1>3, ListingKept DEF Ids
<1>24. QED  BY <1>17, <1>20, <1>21, <1>22, <1>23 DEF IInv, Posts

\* A row that retention removes.
LEMMA ExpireKeeps ==
    ASSUME IInv, NEW row \in rows, Expire(row)
    PROVE  IInv'
<1>1. Posts /\ Ids /\ Rows /\ Listing /\ OnceInOrder /\ NothingSkipped
  BY DEF IInv
<1>2. /\ rows' = rows \ {row} /\ expired' = expired \cup {row.id}
      /\ posts' = posts /\ listing' = listing
  BY DEF Expire
<1>3. Posts'
  <2>1. \A q \in Post : Progress(q)'
    BY <1>1, <1>2, ProgressKept DEF Posts
  <2>2. QED  BY <1>1, <1>2, <2>1 DEF Posts
<1>4. \A q \in Post : IdsOf(q)' = IdsOf(q)
  BY <1>2 DEF IdsOf
<1>5. RowIds' \cup expired' = RowIds \cup expired
  BY <1>2 DEF RowIds
<1>6. Ids'
  <2>1. \A m, q \in Post : \A r \in posts'[m].records, s \in posts'[q].records :
         r.id = s.id => m = q /\ r = s
    BY <1>1, <1>2 DEF Ids
  <2>2. \A q \in Post : posts'[q].stored => IdsOf(q)' \subseteq RowIds' \cup expired'
    BY <1>1, <1>2, <1>4, <1>5 DEF Ids
  <2>3. \A x \in RowIds' \cup expired' : \E q \in Post : posts'[q].stored /\ x \in IdsOf(q)'
    BY <1>1, <1>2, <1>4, <1>5 DEF Ids
  <2>4. (\A r, s \in rows' : r.id = s.id => r = s) /\ \A r \in rows' : r.id \notin expired'
    BY <1>1, <1>2 DEF Ids
  <2>5. QED  BY <2>1, <2>2, <2>3, <2>4 DEF Ids
<1>7. Rows'
  <2>1. IsFiniteSet(rows')
    BY <1>1, <1>2, FS_Subset DEF Rows
  <2>2. row.id \in Id
    BY <1>1 DEF Rows, IsRow
  <2>3. QED  BY <1>1, <1>2, <2>1, <2>2 DEF Rows
<1>8. Listing' /\ OnceInOrder' /\ NothingSkipped'
  BY <1>1, <1>2, ListingKept
<1>9. QED  BY <1>3, <1>6, <1>7, <1>8 DEF IInv

\* A request that is let through has a valid query and an accepted cursor.
LEMMA RequestAccepted ==
    ASSUME NEW query \in Query, NEW cursor
    PROVE  RequestError(query, cursor) = NoError <=>
               query \in Valid /\ (cursor # NoCursor => CursorAccepted(cursor, query))
<1> DEFINE first == ErrorOf[query] # NoError
           second == ErrorOf[query] = NoError /\ cursor # NoCursor /\ ~ CursorAccepted(cursor, query)
           checks == << <<first, ErrorOf[query]>>, <<second, "cursor">> >>
<1>1. RequestError(query, cursor) = FirstError(checks)
  BY DEF RequestError
<1>2. DOMAIN checks = 1 .. 2
  OBVIOUS
<1>3. checks[1][1] = first /\ checks[2][1] = second
  OBVIOUS
<1>a. checks[1][2] = ErrorOf[query] /\ checks[2][2] = "cursor"
  OBVIOUS
<1>4. query \in Valid <=> ~ first
  BY DEF Valid
<1> HIDE DEF checks
<1>5. \A i \in DOMAIN checks : checks[i][1] => checks[i][2] # NoError
  <2>1. checks[1][1] => checks[1][2] # NoError
    BY <1>3, <1>a
  <2>2. checks[2][2] # NoError
    BY <1>a DEF NoError
  <2>3. QED  BY <1>2, <2>1, <2>2
<1>6. DOMAIN checks \in SUBSET Nat
  BY <1>2
<1>7. FirstError(checks) = NoError => ~ checks[1][1] /\ ~ checks[2][1]
  <2> SUFFICES ASSUME FirstError(checks) = NoError PROVE ~ checks[1][1] /\ ~ checks[2][1]
    OBVIOUS
  <2>1. \A i \in DOMAIN checks : ~ checks[i][1]
    BY <1>5, <1>6, FirstErrorNone
  <2>2. QED  BY <1>2, <2>1
<1>8. ~ checks[1][1] /\ ~ checks[2][1] => FirstError(checks) = NoError
  <2> SUFFICES ASSUME ~ checks[1][1], ~ checks[2][1] PROVE FirstError(checks) = NoError
    OBVIOUS
  <2>1. \A i \in DOMAIN checks : ~ checks[i][1]
    BY <1>2
  <2>2. QED  BY <2>1, NoneFails
<1>9. QED  BY <1>1, <1>3, <1>4, <1>7, <1>8

\* A page, of a new listing or one that goes on.
LEMMA ListKeeps ==
    ASSUME IInv, NEW query \in Query, Begin(query) \/ Continue(query)
    PROVE  IInv'
<1>1. Posts /\ Ids /\ Rows /\ Listing /\ OnceInOrder /\ NothingSkipped
  BY DEF IInv
<1>2. rows' = rows /\ expired' = expired /\ posts' = posts
  BY DEF Begin, Continue, Page
<1>3. Posts'
  <2>1. \A q \in Post : Progress(q)'
    BY <1>1, <1>2, ProgressKept DEF Posts
  <2>2. QED  BY <1>1, <1>2, <2>1 DEF Posts
<1>4. Ids'
  BY <1>1, <1>2, IdsKept
<1>5. Rows'
  BY <1>1, <1>2 DEF Rows
<1>6. CASE Begin(query)
  <2>1. Page(query, NoCursor, query, {}, rows) /\ query \in Valid
    BY <1>6, RequestAccepted DEF Begin
  <2>2. \A row \in {} \cup rows : IsRow(row) /\ (row \in rows \/ row.id \in expired)
    BY <1>1 DEF Rows
  <2>3. Listing' /\ OnceInOrder' /\ NothingSkipped'
    BY <1>1, <2>1, <2>2, PageListing
  <2>4. QED  BY <1>3, <1>4, <1>5, <2>3 DEF IInv
<1>7. CASE Continue(query)
  <2> DEFINE first == listing.query
             cursor == listing.cursor
             seen == listing.seen \cup listing.page
             before == listing.before
  <2>1. /\ listing.state = "open" /\ RequestError(query, cursor) = NoError
        /\ Page(query, cursor, first, seen, before)
    BY <1>7 DEF Continue
  <2>2. /\ first \in Valid /\ cursor \in Cursor /\ CursorAccepted(cursor, first)
        /\ Position(cursor).at \in At
        /\ \A row \in Listed : \/ row.at = Position(cursor).at /\ row.id = cursor.id
                               \/ Below(Position(cursor), row)
        /\ \A row \in Shown : IsRow(row) /\ (row \in rows \/ row.id \in expired)
    BY <1>1, <2>1 DEF Listing
  <2>3. cursor # NoCursor
    BY <2>2, CursorAssumption
  <2>4. query \in Valid /\ CursorAccepted(cursor, query)
    BY <2>1, <2>3, RequestAccepted
  <2>5. FilterOf[query] = FilterOf[first]
    BY <2>2, <2>4 DEF CursorAccepted, Fingerprint
  <2>6. Position(cursor).id \in Id /\ Position(cursor).id = cursor.id
    BY <2>2 DEF CursorAccepted, Position
  <2>7. \A row \in seen \cup before : IsRow(row) /\ (row \in rows \/ row.id \in expired)
    BY <2>2 DEF Shown
  <2>8. \A row \in seen : Wanted(first, row)
    BY <1>1 DEF OnceInOrder, Listed
  <2>9. \A row \in before \cap rows :
            Wanted(first, row) /\ ~ Below(row, Position(cursor)) => row \in seen
    BY <1>1, <2>1 DEF NothingSkipped, Listed
  <2>10. \A row \in seen : \/ row.at = Position(cursor).at /\ row.id = Position(cursor).id
                           \/ Below(Position(cursor), row)
    BY <2>2, <2>6 DEF Listed
  <2> HIDE DEF first, cursor, seen, before
  <2>11. Listing' /\ OnceInOrder' /\ NothingSkipped'
    BY <1>1, <2>1, <2>2, <2>3, <2>4, <2>5, <2>6, <2>7, <2>8, <2>9, <2>10, PageListing
  <2>12. QED  BY <1>3, <1>4, <1>5, <2>11 DEF IInv
<1>8. QED  BY <1>6, <1>7

\* The inductive invariant holds initially.
LEMMA InductiveInit == Init => IInv
<1> SUFFICES ASSUME Init PROVE IInv
  OBVIOUS
<1>1. /\ rows = {} /\ expired = {} /\ posts = [p \in Post |-> NewPost] /\ listing = NoListing
  BY DEF Init
<1>2. NewPost \in PostRecord
  BY DEF NewPost, PostRecord, States, Statuses
<1>3. \A p \in Post : posts[p] = NewPost
  BY <1>1
<1>4. /\ NewPost.state = "new" /\ NewPost.records = {} /\ NewPost.stored = FALSE
      /\ NewPost.status = 0
  BY DEF NewPost
<1>5. IsFiniteSet({})
  BY FS_EmptySet
<1>6. ASSUME NEW p \in Post PROVE Progress(p)
  <2>1. /\ posts[p] = NewPost /\ posts[p].state = "new" /\ posts[p].records = {}
        /\ posts[p].stored = FALSE /\ posts[p].status = 0
    BY <1>3, <1>4
  <2>2. IsFiniteSet(posts[p].records)
    BY <1>5, <2>1
  <2>3. QED  BY <2>1, <2>2 DEF Progress
<1>7. Posts
  BY <1>1, <1>2, <1>6 DEF Posts
<1>8. RowIds = {}
  BY <1>1 DEF RowIds
<1>9. Ids
  BY <1>1, <1>3, <1>4, <1>8 DEF Ids
<1>10. Rows
  BY <1>1, <1>5 DEF Rows
<1>11. /\ listing.state = "none" /\ listing.page = {} /\ listing.seen = {}
       /\ listing.before = {} /\ listing.cursor = NoCursor
  BY <1>1 DEF NoListing
<1>12. Listing /\ OnceInOrder /\ NothingSkipped
  BY <1>1, <1>11 DEF Listing, Shown, Listed, OnceInOrder, NothingSkipped
<1>13. QED  BY <1>7, <1>9, <1>10, <1>12 DEF IInv

\* Each action of Next keeps the inductive invariant.
LEMMA InductiveStep == IInv /\ [Next]_vars => IInv'
<1> SUFFICES ASSUME IInv, [Next]_vars PROVE IInv'
  OBVIOUS
<1>1. ASSUME NEW p \in Post, Receive(p) PROVE IInv'
  BY <1>1, ReceiveKeeps
<1>2. ASSUME NEW p \in Post, Store(p) PROVE IInv'
  BY <1>2, StoreKeeps
<1>3. ASSUME NEW p \in Post, Answer(p) PROVE IInv'
  <2>1. /\ posts[p].state = "inserting" /\ posts[p].stored
        /\ posts' = [posts EXCEPT ![p].state = "answered", ![p].status = 200]
        /\ UNCHANGED <<rows, expired, listing>>
    BY <1>3 DEF Answer
  <2>2. DOMAIN posts = Post
    BY DEF IInv, Posts
  <2>3. posts' = AnsweredPosts({p}, 200)
    BY <2>1, <2>2 DEF AnsweredPosts, Answered
  <2>4. QED  BY <2>1, <2>3, AnswersKeep
<1>4. ASSUME NEW p \in Post, LoseAnswer(p) PROVE IInv'
  <2>1. /\ posts[p].state = "inserting"
        /\ posts' = [posts EXCEPT ![p].state = "answered", ![p].status = 503]
        /\ UNCHANGED <<rows, expired, listing>>
    BY <1>4 DEF LoseAnswer
  <2>2. DOMAIN posts = Post
    BY DEF IInv, Posts
  <2>3. posts' = AnsweredPosts({p}, 503)
    BY <2>1, <2>2 DEF AnsweredPosts, Answered
  <2>4. QED  BY <2>1, <2>3, AnswersKeep
<1>5. ASSUME NEW batch \in (SUBSET Post) \ {{}}, RefuseBatch(batch) PROVE IInv'
  <2>1. posts' = AnsweredPosts(batch, 500)
    BY <1>5 DEF RefuseBatch, AnsweredPosts, Answered
  <2>2. /\ \A p \in batch : posts[p].state = "inserting" /\ ~ posts[p].stored
        /\ UNCHANGED <<rows, expired, listing>>
    BY <1>5 DEF RefuseBatch
  <2>3. QED  BY <2>1, <2>2, AnswersKeep
<1>6. ASSUME NEW row \in rows, Expire(row) PROVE IInv'
  BY <1>6, ExpireKeeps
<1>7. ASSUME NEW query \in Query, Begin(query) \/ Continue(query) PROVE IInv'
  BY <1>7, ListKeeps
<1>8. CASE UNCHANGED vars
  <2>1. rows' = rows /\ expired' = expired /\ posts' = posts /\ listing' = listing
    BY <1>8 DEF vars
  <2>2. Posts /\ Ids /\ Rows /\ Listing /\ OnceInOrder /\ NothingSkipped
    BY DEF IInv
  <2>3. \A q \in Post : Progress(q)'
    BY <2>1, <2>2, ProgressKept DEF Posts
  <2>4. Posts' /\ Ids' /\ Rows'
    BY <2>1, <2>2, <2>3, IdsKept DEF Posts, Rows
  <2>5. Listing' /\ OnceInOrder' /\ NothingSkipped'
    BY <2>1, <2>2, ListingKept DEF Ids
  <2>6. QED  BY <2>4, <2>5 DEF IInv
<1>9. QED  BY <1>1, <1>2, <1>3, <1>4, <1>5, <1>6, <1>7, <1>8 DEF Next

-----------------------------------------------------------------------------
(***************************************************************************)
(* The theorems.                                                           *)
(***************************************************************************)
\* The inductive invariant holds in every reachable state.
THEOREM Invariant == Spec => []IInv
BY InductiveInit, InductiveStep, PTL DEF Spec

\* Whatever is stored or removed between two pages (LogRepository.list and
\* decodeLogCursor), and whichever query comes with the cursor: no row is
\* listed twice, each page lies below all earlier ones, and every row is one
\* that the first query asked for.
THEOREM PagesInOrder == Spec => []OnceInOrder
<1>1. IInv => OnceInOrder
  BY DEF IInv
<1>2. QED  BY <1>1, Invariant, PTL

\* No wanted row that was there from the beginning and is still there is
\* passed over by the pages of LogRepository.list.
THEOREM PagesComplete == Spec => []NothingSkipped
<1>1. IInv => NothingSkipped
  BY DEF IInv
<1>2. QED  BY <1>1, Invariant, PTL

\* A cursor that encodeLogCursor made is accepted by decodeLogCursor with
\* every query that repeats the filters, in another spelling or with another
\* limit.
THEOREM CursorsAccepted == Spec => []RepeatIsAccepted
<1>1. IInv => RepeatIsAccepted
  <2> SUFFICES ASSUME IInv, listing.state = "open", NEW query \in Repeats[listing.query]
               PROVE  RequestError(query, listing.cursor) = NoError
    BY DEF RepeatIsAccepted
  <2>1. listing.query \in Valid /\ CursorAccepted(listing.cursor, listing.query)
    BY DEF IInv, Listing
  <2>2. query \in Valid /\ FilterOf[query] = FilterOf[listing.query]
    BY <2>1, SameFilters
  <2>3. CursorAccepted(listing.cursor, query)
    BY <2>1, <2>2 DEF CursorAccepted, Fingerprint
  <2>4. query \in Query
    BY <2>2 DEF Valid
  <2>5. QED  BY <2>2, <2>3, <2>4, RequestAccepted
<1>2. QED  BY <1>1, Invariant, PTL

\* The answers to POST /logs, after the one statement of the ingestion
\* repository and its translated errors: the entries that were let through
\* are stored together or not at all; 200 means that each entry is stored or
\* reported, 400 that there was nothing to store, 500 that nothing is stored
\* and nothing will be; and no stored row is later than its request's horizon.
THEOREM AnswersTruthful == Spec => []IngestTruthful
<1>1. IInv => IngestTruthful
  <2> SUFFICES ASSUME IInv PROVE IngestTruthful
    OBVIOUS
  <2>1. Posts /\ Ids /\ Rows
    BY DEF IInv
  <2>2. ASSUME NEW p \in Post
        PROVE  /\ StoredIds(p) \in {{}, IdsOf(p)}
               /\ posts[p].status = 200 =>
                    /\ StoredIds(p) = IdsOf(p)
                    /\ Cardinality(StoredIds(p)) + Cardinality(posts[p].rejected) = Len(Body[p])
               /\ posts[p].status = 400 => posts[p].records = {}
               /\ posts[p].status = 500 => StoredIds(p) = {}
    <3>1. StoredIds(p) = IdsOf(p) \cap (RowIds \cup expired)
      BY DEF StoredIds, IdsOf, RowIds
    <3>2. Progress(p)
      BY <2>1 DEF Posts
    <3>3. ASSUME posts[p].stored PROVE StoredIds(p) = IdsOf(p)
      <4>1. IdsOf(p) \subseteq RowIds \cup expired
        BY <2>1, <3>3 DEF Ids
      <4>2. QED  BY <3>1, <4>1
    <3>4. ASSUME ~ posts[p].stored PROVE StoredIds(p) = {}
      <4>1. ASSUME NEW id \in StoredIds(p) PROVE FALSE
        <5>1. id \in IdsOf(p) /\ id \in RowIds \cup expired
          BY <3>1
        <5>2. PICK q \in Post : posts[q].stored /\ id \in IdsOf(q)
          BY <2>1, <5>1 DEF Ids
        <5>3. p = q
          BY <2>1, <5>1, <5>2 DEF Ids, IdsOf
        <5>4. QED  BY <3>4, <5>2, <5>3
      <4>2. QED  BY <4>1
    <3>5. ASSUME posts[p].status = 200
          PROVE  Cardinality(StoredIds(p)) + Cardinality(posts[p].rejected) = Len(Body[p])
      <4>1. posts[p].stored /\ posts[p].state # "new"
        BY <3>2, <3>5 DEF Progress
      <4>2. QED  BY <3>2, <3>3, <4>1 DEF Progress
    <3>6. QED  BY <3>2, <3>3, <3>4, <3>5 DEF Progress
  <2>3. \A row \in rows : \E horizon \in Horizon :
         ~AtBefore(<<horizon.day, horizon.second, horizon.ms * 1000>>, row.at)
    BY <2>1 DEF Rows, IsRow
  <2>4. QED  BY <2>2, <2>3 DEF IngestTruthful, IdsOf
<1>2. QED  BY <1>1, Invariant, PTL

\* The types of the table, of the requests and of the listing, and that an
\* id that has expired is not used again.
THEOREM TypeCorrect == Spec => []TypeOK
<1>1. IInv => TypeOK
  <2> SUFFICES ASSUME IInv PROVE TypeOK
    OBVIOUS
  <2>1. Posts /\ Ids /\ Rows /\ Listing
    BY DEF IInv
  <2>2. \A row \in rows : row.id \in Id \ expired
    BY <2>1 DEF Ids, Rows, IsRow
  <2>3. expired \subseteq Id
    BY <2>1 DEF Rows
  <2>4. ASSUME NEW p \in Post
        PROVE  /\ posts[p].state \in States /\ posts[p].status \in Statuses
               /\ posts[p].state = "answered" <=> posts[p].status # 0
               /\ posts[p].stored \in BOOLEAN
    <3>1. posts[p] \in PostRecord /\ Progress(p)
      BY <2>1 DEF Posts
    <3>2. posts[p].state \in States /\ posts[p].status \in Statuses /\ posts[p].stored \in BOOLEAN
      <4> DEFINE R == SUBSET AnyRecord
      <4>1. PostRecord = [state : States, records : R, rejected : SUBSET Nat,
                          stored : BOOLEAN, status : Statuses]
        BY DEF PostRecord
      <4> HIDE DEF R
      <4>2. QED  BY <3>1, <4>1
    <3>3. QED  BY <3>1, <3>2 DEF Progress
  <2>5. /\ listing.state \in {"none", "open", "done"}
        /\ listing.state = "open" <=> listing.cursor # NoCursor
        /\ listing.state = "open" => listing.cursor.id \in Id
    BY <2>1, CursorAssumption DEF Listing, CursorAccepted
  <2>6. listing.page \cap rows = {row \in listing.page : row.id \notin expired}
    BY <2>1 DEF Listing, Shown, Ids
  <2>7. QED  BY <2>2, <2>3, <2>4, <2>5, <2>6 DEF TypeOK, States, Statuses
<1>2. QED  BY <1>1, Invariant, PTL
=============================================================================
