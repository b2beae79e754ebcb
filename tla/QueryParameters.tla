--------------------------- MODULE QueryParameters ---------------------------
(***************************************************************************)
(* modules/query/query-parameter-parser.ts and the parameters that         *)
(* modules/aggregation/aggregation-parameter-parser.ts adds.               *)
(*                                                                         *)
(* A query string arrives as the values given for each name, in a          *)
(* sequence: one value is a string, more are an array.  The names          *)
(* "attr.<key>" are a function of their own, by key.  A limit is a number  *)
(* or Garbage, any text that is not a base-10 integer.                     *)
(***************************************************************************)
EXTENDS LogEntries

CONSTANTS
    NoFilter,     \* undefined: the parameter was not given
    KeyOrder      \* the attribute keys that occur, in the order of code units

IsSequence(values) == Len(values) \in Nat /\ values = [i \in 1 .. Len(values) |-> values[i]]

ASSUME KeyOrderAssumption == KeyOrder \in Seq(STRING)
ASSUME NoFilterAssumption == NoFilter \notin UtcText

\* The names of one query string: each comes with one value or more.
IsQueryString(query) ==
    /\ \A name \in DOMAIN query.scalar :
         /\ IsSequence(query.scalar[name]) /\ Len(query.scalar[name]) > 0
         /\ query.scalar[name][1] # NoFilter
         /\ name \in {"since", "until"} => query.scalar[name][1] \in AnyText
    /\ \A key \in DOMAIN query.attr :
         /\ IsSequence(query.attr[key]) /\ Len(query.attr[key]) > 0
         /\ \E i \in DOMAIN KeyOrder : KeyOrder[i] = key

DefaultLimit == 100
MinimumLimit == 1
MaximumLimit == 1000
AggregationBuckets == {"1m", "5m", "1h", "1d"}
AggregationGroups  == {"service", "level"}

\* readScalar
Given(query, name)     == name \in DOMAIN query.scalar
Duplicate(query, name) == Given(query, name) /\ Len(query.scalar[name]) > 1
Single(query, name)    == Given(query, name) /\ Len(query.scalar[name]) = 1
Value(query, name)     == query.scalar[name][1]
ValueOutside(query, name, set) == Single(query, name) /\ Value(query, name) \notin set
ValueIn(query, name, set)      == Single(query, name) /\ Value(query, name) \in set

Bound(query, name) == ParseTimestamp(Value(query, name))
BadBound(query, name) == Single(query, name) /\ ~Bound(query, name).ok

KeyError(query, key) ==
    FirstError(<< <<key = "", "attributeKey">>,
                  <<key \in NulText, "attributeKeyNul">>,
                  <<Len(query.attr[key]) > 1, "attributeDuplicate">>,
                  <<query.attr[key][1] \in NulText, "attributeValueNul">> >>)

\* parseAttributeFilters
AttributeError(query) ==
    FirstError([i \in DOMAIN KeyOrder |->
        IF KeyOrder[i] \in DOMAIN query.attr
        THEN <<KeyError(query, KeyOrder[i]) # NoError, KeyError(query, KeyOrder[i])>>
        ELSE <<FALSE, NoError>>])

\* parseLogFilters: why the filters are refused, and what they are if not.
FilterError(query) ==
    FirstError(<<
        <<Duplicate(query, "service"), "serviceDuplicate">>,
        <<ValueIn(query, "service", NulText), "serviceNul">>,
        <<Duplicate(query, "level"), "levelDuplicate">>,
        <<ValueOutside(query, "level", LogLevels), "levelValue">>,
        <<Duplicate(query, "since"), "sinceDuplicate">>,
        <<BadBound(query, "since"), "sinceTimestamp">>,
        <<Duplicate(query, "until"), "untilDuplicate">>,
        <<BadBound(query, "until"), "untilTimestamp">>,
        <</\ Single(query, "since") /\ Single(query, "until")
          /\ ~BadBound(query, "since") /\ ~BadBound(query, "until")
          /\ ParsedBefore(Bound(query, "until"), Bound(query, "since")), "range">>,
        <<AttributeError(query) # NoError, AttributeError(query)>>,
        <<Duplicate(query, "q"), "qDuplicate">>,
        <<ValueIn(query, "q", NulText), "qNul">> >>)

OrNone(query, name) == IF Given(query, name) THEN Value(query, name) ELSE NoFilter
CanonicalBound(query, name) ==
    IF Given(query, name) THEN Bound(query, name).canonical ELSE NoFilter

Filters(query) ==
    [service |-> OrNone(query, "service"),
     level   |-> OrNone(query, "level"),
     since   |-> CanonicalBound(query, "since"),
     until   |-> CanonicalBound(query, "until"),
     attributes |-> [key \in DOMAIN query.attr |-> query.attr[key][1]],
     q       |-> IF ValueIn(query, "q", {""}) THEN NoFilter ELSE OrNone(query, "q")]

\* parseLimit and parseLogListQuery
LimitOf(query) == IF Given(query, "limit") THEN Value(query, "limit") ELSE DefaultLimit

ListError(query) ==
    FirstError(<<
        <<FilterError(query) # NoError, FilterError(query)>>,
        <<Duplicate(query, "limit"), "limitDuplicate">>,
        <<ValueOutside(query, "limit", MinimumLimit .. MaximumLimit), "limitValue">> >>)

\* parseLogAggregationQuery
AggregationError(query) ==
    FirstError(<<
        <<FilterError(query) # NoError, FilterError(query)>>,
        <<~Given(query, "since"), "sinceRequired">>,
        <<~Given(query, "until"), "untilRequired">>,
        <<Duplicate(query, "bucket"), "bucketDuplicate">>,
        <<~Given(query, "bucket"), "bucketRequired">>,
        <<ValueOutside(query, "bucket", AggregationBuckets), "bucketValue">>,
        <<Duplicate(query, "group_by"), "groupByDuplicate">>,
        <<ValueOutside(query, "group_by", AggregationGroups), "groupByValue">> >>)
=============================================================================
