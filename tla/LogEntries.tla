------------------------------ MODULE LogEntries ------------------------------
(***************************************************************************)
(* What the service takes for a log entry: domain/log-entry-validator.ts,  *)
(* domain/attribute-normalizer.ts and the split of a request body into     *)
(* records and rejections by modules/ingestion/ingestion-service.ts.       *)
(*                                                                         *)
(* A JSON value is a record of its type and value; an object is the        *)
(* function of its fields, and the attributes object the sequence of its   *)
(* entries, in the order in which Object.entries lists them.  A number is  *)
(* named by its ECMAScript serialization.                                  *)
(***************************************************************************)
EXTENDS Timestamps

CONSTANT NulText     \* the texts that contain U+0000

LogLevels == {"debug", "info", "warn", "error"}

NoError == "none"

\* The first error whose condition holds, of a sequence <<condition, error>>.
FirstError(checks) ==
    LET failed == {i \in DOMAIN checks : checks[i][1]}
    IN  IF failed = {} THEN NoError
        ELSE checks[CHOOSE i \in failed : \A j \in failed : i <= j][2]

Has(entry, field) == field \in DOMAIN entry.value
IsText(entry, field) == Has(entry, field) /\ entry.value[field].type = "string"
TextIn(entry, field, set) == IsText(entry, field) /\ entry.value[field].value \in set

\* A field that is absent, of another type than string, or empty.
Missing(entry, field, error) == <<~Has(entry, field), error>>
NotText(entry, field, error) == <<Has(entry, field) /\ ~IsText(entry, field), error>>

IsAttributeValue(v) ==
    \/ v.type \in {"string", "boolean"}
    \/ v.type = "number" /\ v.value \notin {"Infinity", "-Infinity"}

PairError(pair) ==
    FirstError(<< <<pair[1] \in NulText, "attributeKeyNul">>,
                  <<~IsAttributeValue(pair[2]), "attributeValue">>,
                  <<pair[2].type = "string" /\ pair[2].value \in NulText, "attributeStringNul">> >>)

NoAttributes == [type |-> "object", value |-> <<>>]
AttributesOf(entry) ==
    IF Has(entry, "attributes") THEN entry.value["attributes"] ELSE NoAttributes

\* validateAttributes
AttributesError(v) ==
    IF v.type # "object" THEN "attributesObject"
    ELSE FirstError([i \in DOMAIN v.value |->
             <<PairError(v.value[i]) # NoError, PairError(v.value[i])>>])

TimestampOf(entry) == ParseTimestamp(entry.value["timestamp"].value)

\* validateLogEntry: the reason of a rejection, or NoError.  The horizon is
\* the time of the request and five minutes.
EntryError(entry, horizon) ==
    IF entry.type # "object" THEN "entryObject"
    ELSE IF ~Has(entry, "timestamp") THEN "timestampRequired"
    ELSE IF ~IsText(entry, "timestamp") THEN "timestampString"
    ELSE IF ~TimestampOf(entry).ok
    THEN IF TimestampOf(entry).kind = "grammar" THEN "timestampGrammar"
                                                ELSE "timestampComponents"
    ELSE FirstError(<<
        <<IsAfterMilliseconds(TimestampOf(entry), horizon), "timestampFuture">>,
        Missing(entry, "level", "levelRequired"),
        NotText(entry, "level", "levelString"),
        <<IsText(entry, "level") /\ ~TextIn(entry, "level", LogLevels), "levelValue">>,
        Missing(entry, "service", "serviceRequired"),
        NotText(entry, "service", "serviceString"),
        <<TextIn(entry, "service", {""}), "serviceEmpty">>,
        <<TextIn(entry, "service", NulText), "serviceNul">>,
        Missing(entry, "message", "messageRequired"),
        NotText(entry, "message", "messageString"),
        <<TextIn(entry, "message", {""}), "messageEmpty">>,
        <<TextIn(entry, "message", NulText), "messageNul">>,
        <<AttributesError(AttributesOf(entry)) # NoError,
          AttributesError(AttributesOf(entry))>> >>)

\* normalizeValue: what an attribute filter is compared with.
NormalizeValue(v) ==
    IF v.type = "number" /\ v.value = "-0" THEN "0" ELSE v.value

NormalizeAttributes(v) ==
    {<<v.value[i][1], NormalizeValue(v.value[i][2])>> : i \in DOMAIN v.value}

\* The record made of a valid entry; original attributes ride along with it.
RecordOf(entry, id) ==
    [id |-> id, timestamp |-> TimestampOf(entry).canonical,
     level   |-> entry.value["level"].value,
     service |-> entry.value["service"].value,
     message |-> entry.value["message"].value,
     search  |-> NormalizeAttributes(AttributesOf(entry))]

\* ingest: indexes of the entries that become records; the others are rejected.
Accepted(entries, horizon) ==
    {i \in DOMAIN entries : EntryError(entries[i], horizon) = NoError}
=============================================================================
