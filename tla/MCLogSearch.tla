----------------------------- MODULE MCLogSearch -----------------------------
(***************************************************************************)
(* Constants of LogSearch for TLC, and tests of the pure operators it is   *)
(* built from: TLC evaluates the assumptions before it searches.           *)
(***************************************************************************)
EXTENDS LogSearch, TLC

CONSTANTS mixed, late, early, api, api2, pay, like, one, bad, ancient

UTC == [sign |-> 1, hour |-> 0, minute |-> 0]
East2 == [sign |-> 1, hour |-> 2, minute |-> 0]
Date(y, m, d, h, min, s, fraction, offset) ==
    [year |-> y, month |-> m, day |-> d, hour |-> h, minute |-> min, second |-> s,
     fraction |-> fraction, offset |-> offset]
Noon(fraction) == Date(2026, 8, 13, 12, 0, 0, fraction, UTC)

Text(v) == [type |-> "string", value |-> v]
Entry(time, level, message, attributes) ==
    [type |-> "object",
     value |-> [timestamp |-> Text(time), level |-> Text(level), service |-> Text("api"),
                message |-> Text(message),
                attributes |-> [type |-> "object", value |-> attributes]]]
Number(n) == [type |-> "number", value |-> n]

\* Two entries of one moment; one sent 299.9999995 s ahead of the earlier
\* request; one in a year that PostgreSQL does not have.
MCBody ==
    (mixed  :> <<Entry(Noon(<<5>>), "info", "payment", << <<"k", Number("1")>> >>),
                 Entry(Noon(<<5>>), "fatal", "payment", <<>>),
                 Entry(Date(2026, 8, 13, 14, 0, 0, <<5, 0>>, East2), "warn", "refund",
                       << <<"k", Text("1")>> >>)>>) @@
    (late   :> <<Entry(Noon(<<6, 0, 0, 0, 0, 0, 5>>), "info", "payment", <<>>)>>) @@
    (early  :> <<Entry(Date(0, 1, 1, 0, 0, 0, <<>>, UTC), "info", "payment", <<>>)>>)

MCHorizon == {[day |-> DayNumber(2026, 8, 13), second |-> 43200, ms |-> ms] : ms \in {600, 601}}

Ask(scalar, attr) == [scalar |-> scalar, attr |-> attr]
None == [x \in {} |-> x]
Limited(n, scalar) == ("limit" :> <<n>>) @@ scalar
Api == "service" :> <<"api">>

\* api and api2 ask for the same.
MCQueryString ==
    (api  :> Ask(Limited(1, Api @@ "since" :> <<Noon(<<5>>)>>), None)) @@
    (api2 :> Ask(Limited(2, Api @@ "q" :> <<"">> @@
                 "since" :> <<Date(2026, 8, 13, 14, 0, 0, <<5, 0, 0, 0>>, East2)>>), None)) @@
    (pay  :> Ask(Limited(1, "q" :> <<"PAY">> @@ "until" :> <<Noon(<<6, 0, 0, 0, 0, 1>>)>>), None)) @@
    (like :> Ask("q" :> <<"%">>, None)) @@
    (one  :> Ask("level" :> <<"warn">>, "k" :> <<"1">>)) @@
    (bad  :> Ask(Limited(1001, "until" :> <<Noon(<<>>)>> @@ "since" :> <<Noon(<<6>>)>>), None)) @@
    (ancient :> Ask("since" :> <<Date(0, 1, 1, 0, 0, 0, <<>>, East2)>>, None))

MCKeyOrder == <<"", "NUL", "k", "l">>

MCContaining == {<<"payment", "PAY">>, <<"payment", "pay">>}

-----------------------------------------------------------------------------
(***************************************************************************)
(* Tests.  The operators against definitions by whole numbers, over texts  *)
(* that are short and dates that are few.                                  *)
(***************************************************************************)
Fractions(n) == UNION {[1 .. k -> {0, 4, 5, 9}] : k \in 0 .. n}
Scaled(f) == Digit(f, 1) * 10000 + Digit(f, 2) * 1000 + Digit(f, 3) * 100 + Digit(f, 4) * 10 + Digit(f, 5)

\* Zeros at the end go, down to three digits; the value stays.
ASSUME CanonicalIsShortest ==
    \A f \in Fractions(5) : LET c == CanonicalFraction(f) IN
        /\ Scaled(c) = Scaled(f)
        /\ Len(c) >= 3 /\ (Len(c) > 3 => c[Len(c)] # 0)

\* compareFractions compares the values.
ASSUME FractionsByValue ==
    \A f, g \in Fractions(3) : FractionBefore(f, g) <=> Scaled(f) < Scaled(g)

\* Each day has the number after that of the day before.
ASSUME DaysFollow ==
    \A y \in {0, 1, 4, 1899, 1900, 1999, 2000, 2023, 2024, 9998}, m \in 1 .. 12 :
        /\ \A d \in 2 .. DaysInMonth(y, m) : DayNumber(y, m, d) = DayNumber(y, m, d - 1) + 1
        /\ DayNumber(y + (m \div 12), (m % 12) + 1, 1) = DayNumber(y, m, DaysInMonth(y, m)) + 1

\* Past a whole number of milliseconds by any part of one.
ASSUME AfterByValue ==
    \A f \in Fractions(5), ms \in {0, 4, 449, 450, 999} :
        IsAfterMilliseconds([day |-> 7, second |-> 9, fraction |-> f],
                            [day |-> 7, second |-> 9, ms |-> ms])
            <=> Scaled(f) > ms * 100

\* What a listing shows of a row comes back from its cursor as the row's
\* own timestamp; what was sent may have been rounded before.
ASSUME CursorIsExact ==
    \A us \in {0, 1, 10, 999, 1000, 120000, 500000, 600001, 999999}, second \in {0, 86399} :
        LET at == <<DayNumber(2026, 8, 13), second, us>> IN
        ToTimestamptz(ParseTimestamp(ToChar(at)).canonical) = at
ASSUME RoundsToEven ==
    /\ ToTimestamptz([number |-> 1, second |-> 86399, fraction |-> <<9, 9, 9, 9, 9, 9, 5>>]) = <<2, 0, 0>>
    /\ ToTimestamptz([number |-> 1, second |-> 0, fraction |-> <<0, 0, 0, 0, 0, 2, 5>>]) = <<1, 0, 2>>
    /\ ToTimestamptz([number |-> 1, second |-> 0, fraction |-> <<0, 0, 0, 0, 0, 2, 5, 1>>]) = <<1, 0, 3>>

\* The first error in the order of the checks is the one reported.
Twice(name) == name :> <<"x", "y">>
Anywhere(scalar) == Ask(scalar, None)
ASSUME FirstErrorReported ==
    /\ ListError(Anywhere(Twice("service") @@ Twice("level"))) = "serviceDuplicate"
    /\ ListError(Anywhere("level" :> <<"fatal">> @@ Twice("q"))) = "levelValue"
    /\ ListError(Anywhere("since" :> <<Garbage>> @@ Twice("limit"))) = "sinceTimestamp"
    /\ ListError(Anywhere(Limited(0, None))) = "limitValue"
    /\ ListError(Anywhere(Limited(1001, None))) = "limitValue"
    /\ ListError(Anywhere(Limited(1000, None))) = NoError
    /\ ListError(Ask(None, "k" :> <<"1", "2">> @@ "" :> <<"1">>)) = "attributeKey"
    /\ ListError(Ask("q" :> <<"NUL">>, "k" :> <<"NUL">>)) = "attributeValueNul"
    /\ ListError(QueryString[bad]) = "range"
    /\ AggregationError(Anywhere("until" :> <<Noon(<<>>)>>)) = "sinceRequired"
    /\ AggregationError(Anywhere("since" :> <<Noon(<<>>)>> @@ "until" :> <<Noon(<<0>>)>> @@
           "bucket" :> <<"1h">> @@ "group_by" :> <<"message">>)) = "groupByValue"
    /\ AggregationError(Anywhere("since" :> <<Noon(<<>>)>> @@ "until" :> <<Noon(<<0>>)>> @@
           "bucket" :> <<"1h">>)) = NoError

Now == [day |-> DayNumber(2026, 8, 13), second |-> 43200, ms |-> 0]
Rejects(entry, error) == EntryError(entry, Now) = error
ASSUME EntriesRejected ==
    /\ Rejects([type |-> "array", value |-> <<>>], "entryObject")
    /\ Rejects([type |-> "object", value |-> None], "timestampRequired")
    /\ Rejects(Entry(Date(2026, 2, 29, 0, 0, 0, <<>>, UTC), "fatal", "", <<>>), "timestampComponents")
    /\ Rejects(Entry(Garbage, "info", "m", <<>>), "timestampGrammar")
    /\ Rejects(Entry(Noon(<<0, 0, 0, 1>>), "info", "m", <<>>), "timestampFuture")
    /\ Rejects(Entry(Noon(<<>>), "info", "", << <<"k", Number("Infinity")>> >>), "messageEmpty")
    /\ Rejects(Entry(Noon(<<>>), "info", "m", << <<"NUL", Number("1")>> >>), "attributeKeyNul")
    /\ Rejects(Entry(Noon(<<>>), "info", "m", << <<"k", Text("NUL")>>, <<"", Number("1")>> >>),
               "attributeStringNul")
    /\ Rejects(Entry(Noon(<<>>), "info", "m", << <<"k", Number("Infinity")>> >>), "attributeValue")
    /\ Rejects(Entry(Noon(<<0, 0, 0, 0>>), "info", "m", << <<"k", Number("-0")>> >>), NoError)

\* A cursor that was not made by EncodeCursor is refused.
Somewhere == [id |-> 1, at |-> <<DayNumber(2026, 8, 13), 43200, 500000>>]
ASSUME CursorsRefused ==
    LET good == EncodeCursor(Somewhere, api) IN
    /\ CursorAccepted(good, api)
    /\ ~CursorAccepted(Garbage, api)
    /\ ~CursorAccepted([good EXCEPT !.version = 2], api)
    /\ ~CursorAccepted([good EXCEPT !.timestamp.fraction = <<5, 0, 0, 0>>], api)
    /\ ~CursorAccepted([good EXCEPT !.id = MaxId + 1], api)
=============================================================================
