------------------------------ MODULE LogSearch ------------------------------
(***************************************************************************)
(* POST /logs and GET /logs: requests that add rows, and a client that     *)
(* lists rows page by page while others are stored and expire.             *)
(*                                                                         *)
(* A request to add is validated, entry by entry, given its ids, inserted  *)
(* (by the coordinator of BatchedIngestion, of which this module keeps the *)
(* promise and the common fate of the calls in one statement) and          *)
(* answered.  A page is one statement and so one step.  A client may ask   *)
(* for the next page with any query of Query, not only with the one it     *)
(* began with.  A request to list that is refused, or whose statement      *)
(* fails, gets its answer and changes nothing: it is no step.              *)
(*                                                                         *)
(* Code: modules/ingestion/ingestion-service.ts, modules/query/*.ts,       *)
(* routes/logs.ts, shared/error-handler.ts, database/database-errors.ts.   *)
(***************************************************************************)
EXTENDS QueryParameters, FiniteSets

CONSTANTS
    Post,            \* requests to add
    Body,            \* Body[p]: the entries of the request
    Horizon,         \* times of requests plus five minutes, in milliseconds
    Query,           \* requests to list
    QueryString,     \* QueryString[q]: its parameters, without the cursor
    MaxId,           \* ids are 1 .. MaxId, in the order of uuids
    Containing,      \* pairs <<message, q>>: contained but for upper and lower case
    Wildcard,        \* texts that LIKE reads as a pattern when not escaped
    NoCursor

VARIABLES
    rows,       \* the log table
    expired,    \* ids of rows that retention has removed
    posts,      \* posts[p]: the progress and the answer of a request to add
    listing     \* the client's listing: its first query, the page it got
                \* last and the rows of the pages before, its cursor, and,
                \* for the properties, the rows there were when it began

vars == <<rows, expired, posts, listing>>

CursorVersion == 1
Id == 1 .. MaxId

ASSUME IdAssumption == MaxId \in Nat

\* The entries of a body are a sequence, and a text in the place of the
\* timestamp is one of those that domain/timestamp.ts tells apart.
ASSUME BodyAssumption ==
    \A p \in Post :
        /\ IsSequence(Body[p])
        /\ \A i \in DOMAIN Body[p] :
             Body[p][i].type = "object" /\ IsText(Body[p][i], "timestamp")
                 => Body[p][i].value["timestamp"].value \in AnyText

\* Five minutes from now is before the last day that a timestamp can name.
ASSUME HorizonAssumption ==
    Horizon \subseteq Moment /\ \A horizon \in Horizon : horizon.day < LastDay

ASSUME QueryStringAssumption == \A query \in Query : IsQueryString(QueryString[query])

NewPost == [state |-> "new", records |-> {}, rejected |-> {}, stored |-> FALSE, status |-> 0]
NoListing == [state |-> "none", query |-> NoFilter, cursor |-> NoCursor,
              page |-> {}, seen |-> {}, before |-> {}]

Init ==
    /\ rows = {}
    /\ expired = {}
    /\ posts = [p \in Post |-> NewPost]
    /\ listing = NoListing

-----------------------------------------------------------------------------
(***************************************************************************)
(* POST /logs                                                              *)
(***************************************************************************)
RowOf(record) ==
    [id |-> record.id, at |-> ToTimestamptz(record.timestamp), level |-> record.level,
     service |-> record.service, message |-> record.message, search |-> record.search]

UsedIds == {record.id : record \in UNION {posts[p].records : p \in Post}}

\* The verdict on a body depends on the time of the request.
Verdict == [p \in Post |-> [horizon \in Horizon |-> Accepted(Body[p], horizon)]]

\* A body without an array of logs is answered like an empty array.
Receive(p) ==
    /\ posts[p].state = "new"
    /\ \E horizon \in Horizon :
         LET accepted == Verdict[p][horizon] IN
         \E id \in [accepted -> Id \ UsedIds] :
           /\ \A i, j \in accepted : i # j => id[i] # id[j]
           /\ posts' = [posts EXCEPT ![p] =
                [state    |-> IF accepted = {} THEN "answered" ELSE "inserting",
                 records  |-> {RecordOf(Body[p][i], id[i]) : i \in accepted},
                 rejected |-> DOMAIN Body[p] \ accepted,
                 stored   |-> FALSE,
                 status   |-> IF accepted = {} THEN 400 ELSE 0]]
    /\ UNCHANGED <<rows, expired, listing>>

Storable(p) == \A record \in posts[p].records : IsStorable(record.timestamp)

\* Mutant: the statement is sent again when its answer was lost.
Store_Again(p) ==
    /\ posts[p].state = "inserting" \/ posts[p].status = 503
    /\ Storable(p)
    /\ posts' = [posts EXCEPT ![p].stored = TRUE]
    /\ rows' = rows \cup {RowOf(record) : record \in posts[p].records}
    /\ UNCHANGED <<expired, listing>>

\* PostgreSQL commits the rows, perhaps after the service gave up waiting.
\* A value that it cannot hold is refused, with all that came with it.
Store(p) ==
    /\ posts[p].state = "inserting" \/ posts[p].status = 503
    /\ ~posts[p].stored
    /\ Storable(p)
    /\ posts' = [posts EXCEPT ![p].stored = TRUE]
    /\ rows' = rows \cup {RowOf(record) : record \in posts[p].records}
    /\ UNCHANGED <<expired, listing>>

Answer_Fault(p) ==
    /\ posts[p].state = "inserting"
    /\ posts' = [posts EXCEPT ![p].state = "answered", ![p].status = 200]
    /\ UNCHANGED <<rows, expired, listing>>

Answer(p) ==
    /\ posts[p].state = "inserting"
    /\ posts[p].stored
    /\ posts' = [posts EXCEPT ![p].state = "answered", ![p].status = 200]
    /\ UNCHANGED <<rows, expired, listing>>

\* A timeout, a lost connection: translateDatabaseError finds it transient.
LoseAnswer(p) ==
    /\ posts[p].state = "inserting"
    /\ posts' = [posts EXCEPT ![p].state = "answered", ![p].status = 503]
    /\ UNCHANGED <<rows, expired, listing>>

\* PostgreSQL refuses the statement, and every call in it fails: for a value
\* that it cannot hold, a deadlock, a row for a partition that is not the one
\* it was routed to, or whatever else translateDatabaseError does not find
\* transient.
RefuseBatch(batch) ==
    /\ \A p \in batch : posts[p].state = "inserting" /\ ~posts[p].stored
    /\ posts' = [p \in Post |-> IF p \in batch
                     THEN [posts[p] EXCEPT !.state = "answered", !.status = 500]
                     ELSE posts[p]]
    /\ UNCHANGED <<rows, expired, listing>>

Expire(row) ==
    /\ rows' = rows \ {row}
    /\ expired' = expired \cup {row.id}
    /\ UNCHANGED <<posts, listing>>

-----------------------------------------------------------------------------
(***************************************************************************)
(* GET /logs                                                               *)
(***************************************************************************)
Below(row, other) ==
    \/ AtBefore(row.at, other.at)
    \/ row.at = other.at /\ row.id < other.id

\* escapeLikeLiteral and ILIKE
Pattern(q) == [text |-> q, literal |-> TRUE]
IsLike(message, pattern) ==
    \/ <<message, pattern.text>> \in Containing
    \/ ~pattern.literal /\ pattern.text \in Wildcard

\* buildLogPredicate
Matches(row, filters) ==
    /\ filters.service # NoFilter => row.service = filters.service
    /\ filters.level # NoFilter => row.level = filters.level
    /\ filters.since # NoFilter => ~AtBefore(row.at, ToTimestamptz(filters.since))
    /\ filters.until # NoFilter => AtBefore(row.at, ToTimestamptz(filters.until))
    /\ \A key \in DOMAIN filters.attributes : <<key, filters.attributes[key]>> \in row.search
    /\ filters.q # NoFilter => IsLike(row.message, Pattern(filters.q))

BoundStorable(bound) == bound # NoFilter => IsStorable(bound)
FiltersStorable(filters) == BoundStorable(filters.since) /\ BoundStorable(filters.until)

\* The timestamp of a response item (mapRow).
ItemTimestamp(row) == ParseTimestamp(ToChar(row.at)).canonical

\* parseLogListQuery of each query string.
ErrorOf  == [query \in Query |-> ListError(QueryString[query])]
Valid    == {query \in Query : ErrorOf[query] = NoError}
FilterOf == [query \in Valid |-> Filters(QueryString[query])]
Limit(query) == LimitOf(QueryString[query])

Fingerprint_Fault(query) == <<FilterOf[query], Limit(query)>>
\* canonicalFilterJson: the limit has no part in it.
Fingerprint(query) == FilterOf[query]

EncodeCursor(row, query) ==
    [version |-> CursorVersion, timestamp |-> ItemTimestamp(row), id |-> row.id,
     fingerprint |-> Fingerprint(query)]

\* A cursor is not the text that is no cursor, and not the lack of one.
Cursor == [version : {CursorVersion}, timestamp : UtcText, id : Id,
           fingerprint : {FilterOf[query] : query \in Valid}]
ASSUME CursorAssumption == NoCursor \notin Cursor /\ Garbage \notin Cursor

CursorAccepted_Fault(cursor, query) ==
    /\ cursor # Garbage
    /\ cursor.version = CursorVersion
    /\ cursor.id \in Id
    /\ ParseTimestamp(cursor.timestamp).ok
    /\ ParseTimestamp(cursor.timestamp).canonical = cursor.timestamp

\* decodeLogCursor
CursorAccepted(cursor, query) ==
    /\ cursor # Garbage
    /\ cursor.version = CursorVersion
    /\ cursor.id \in Id
    /\ ParseTimestamp(cursor.timestamp).ok
    /\ ParseTimestamp(cursor.timestamp).canonical = cursor.timestamp
    /\ cursor.fingerprint = Fingerprint(query)

RequestError(query, cursor) ==
    FirstError(<<
        <<ErrorOf[query] # NoError, ErrorOf[query]>>,
        <<ErrorOf[query] = NoError /\ cursor # NoCursor
              /\ ~CursorAccepted(cursor, query), "cursor">> >>)

Position(cursor) == [at |-> ToTimestamptz(cursor.timestamp), id |-> cursor.id]

Candidates_Fault(query, cursor) ==
    {row \in rows : /\ Matches(row, FilterOf[query])
                    /\ cursor # NoCursor => AtBefore(row.at, Position(cursor).at)}

Candidates_Inclusive(query, cursor) ==
    {row \in rows : /\ Matches(row, FilterOf[query])
                    /\ cursor # NoCursor => Below(row, Position(cursor)) \/ row.id = cursor.id}

\* WHERE
Candidates(query, cursor) ==
    {row \in rows : /\ Matches(row, FilterOf[query])
                    /\ cursor # NoCursor => Below(row, Position(cursor))}

\* ORDER BY timestamp DESC, id DESC LIMIT n
IsTop(top, set, n) ==
    /\ \A r \in top, s \in set \ top : Below(s, r)
    /\ IF Cardinality(set) <= n THEN top = set ELSE Cardinality(top) = n

\* list: one row more than the limit is fetched, to know if there are more.
Page(query, cursor, first, seen, before) ==
    \E fetched \in SUBSET Candidates(query, cursor) :
      /\ IsTop(fetched, Candidates(query, cursor), Limit(query) + 1)
      /\ \E logs \in SUBSET fetched :
           /\ IsTop(logs, fetched, Limit(query))
           /\ \/ /\ Cardinality(fetched) > Limit(query)
                 /\ \E last \in logs :
                      /\ \A r \in logs \ {last} : Below(last, r)
                      /\ listing' = [state |-> "open", query |-> first,
                                     cursor |-> EncodeCursor(last, query),
                                     page |-> logs, seen |-> seen, before |-> before]
              \/ /\ Cardinality(fetched) <= Limit(query)
                 /\ listing' = [state |-> "done", query |-> first, cursor |-> NoCursor,
                                page |-> logs, seen |-> seen, before |-> before]
    /\ UNCHANGED <<rows, expired, posts>>

Begin(query) ==
    /\ listing.state # "open"
    /\ RequestError(query, NoCursor) = NoError
    /\ FiltersStorable(FilterOf[query])
    /\ Page(query, NoCursor, query, {}, rows)

Continue(query) ==
    /\ listing.state = "open"
    /\ RequestError(query, listing.cursor) = NoError
    /\ FiltersStorable(FilterOf[query])
    /\ Page(query, listing.cursor, listing.query, listing.seen \cup listing.page,
            listing.before)

-----------------------------------------------------------------------------
Next ==
    \/ \E p \in Post : Receive(p) \/ Store(p) \/ Answer(p) \/ LoseAnswer(p)
    \/ \E batch \in (SUBSET Post) \ {{}} : RefuseBatch(batch)
    \/ \E row \in rows : Expire(row)
    \/ \E query \in Query : Begin(query) \/ Continue(query)

Spec == Init /\ [][Next]_vars

\* A client that goes on asking, not one that comes back.
FairSpec == Spec /\ WF_vars(\E query \in Query : Continue(query))

-----------------------------------------------------------------------------
\* Types, and what retention has removed stays away: no row comes back under
\* an id that it had, whatever became of the answer to its request.
TypeOK ==
    /\ \A row \in rows : row.id \in Id \ expired
    /\ expired \subseteq Id
    /\ \A p \in Post :
         /\ posts[p].state \in {"new", "inserting", "answered"}
         /\ posts[p].status \in {0, 200, 400, 500, 503}
         /\ posts[p].state = "answered" <=> posts[p].status # 0
         /\ posts[p].stored \in BOOLEAN
    /\ listing.state \in {"none", "open", "done"}
    /\ listing.state = "open" <=> listing.cursor # NoCursor
    /\ listing.state = "open" => listing.cursor.id \in Id
    /\ listing.page \cap rows = {row \in listing.page : row.id \notin expired}

\* What a query string asks for, read parameter by parameter as README.md's
\* table has it; times to the microsecond, which is what is kept.
Asks(query, name) ==
    /\ name \in DOMAIN QueryString[query].scalar
    /\ name = "q" => QueryString[query].scalar[name] # <<"">>
Asked(query, name) == QueryString[query].scalar[name][1]
AskedBound == [query \in Query |-> [name \in {"since", "until"} |->
    IF Asks(query, name) /\ ParseTimestamp(Asked(query, name)).ok
    THEN ToTimestamptz(ParseTimestamp(Asked(query, name)).canonical) ELSE <<>>]]
Wanted(query, row) ==
    /\ \A name \in {"service", "level"} : Asks(query, name) => row[name] = Asked(query, name)
    /\ Asks(query, "since") => ~AtBefore(row.at, AskedBound[query]["since"])
    /\ Asks(query, "until") => AtBefore(row.at, AskedBound[query]["until"])
    /\ \A key \in DOMAIN QueryString[query].attr :
         \E pair \in row.search : <<pair[2]>> = QueryString[query].attr[key] /\ pair[1] = key
    /\ Asks(query, "q") => <<row.message, Asked(query, "q")>> \in Containing

Listed == listing.seen \cup listing.page

\* Whatever is stored or removed between two pages, and whichever query the
\* client sends with its cursor: no row is listed twice, each page lies
\* below all earlier ones, and every row is one that the first query asked
\* for.
OnceInOrder ==
    /\ \A r \in listing.page, s \in listing.seen : Below(r, s)
    /\ \A r \in Listed : Wanted(listing.query, r)

\* No row is passed over: a row that was there when the listing began, is
\* still there and is wanted, has been listed once the cursor is at or below
\* it, and in any case when next_cursor is null.
NothingSkipped ==
    \A row \in listing.before \cap rows :
        /\ Wanted(listing.query, row)
        /\ listing.state = "open" => ~Below(row, Position(listing.cursor))
        => row \in Listed

\* Two query strings that ask for the same: an empty q is none, and a
\* moment may be written in any zone and with any number of zeros.
SameParameter(a, b, name) ==
    \/ ~Asks(a, name) /\ ~Asks(b, name)
    \/ Asks(a, name) /\ Asks(b, name) /\ Asked(a, name) = Asked(b, name)
SameMoment(a, b, name) ==
    LET left == ParseTimestamp(Asked(a, name))
        right == ParseTimestamp(Asked(b, name))
    IN  \/ ~Asks(a, name) /\ ~Asks(b, name)
        \/ /\ Asks(a, name) /\ Asks(b, name)
           /\ ~ParsedBefore(left, right) /\ ~ParsedBefore(right, left)
Repeats == [a \in Valid |-> {b \in Valid :
    /\ \A name \in {"service", "level", "q"} : SameParameter(a, b, name)
    /\ \A name \in {"since", "until"} : SameMoment(a, b, name)
    /\ QueryString[a].attr = QueryString[b].attr}]

\* The cursor that a page came with is good for every query that repeats the
\* filters, in another spelling or with another limit.
RepeatIsAccepted ==
    listing.state = "open" =>
        \A query \in Repeats[listing.query] : RequestError(query, listing.cursor) = NoError

\* A client that goes on reaches the end, as rows stop arriving.
ListingEnds == listing.state = "open" ~> listing.state = "done"

StoredIds(p) == {record.id : record \in posts[p].records} \cap ({row.id : row \in rows} \cup expired)

\* The entries that a request's validation let through are stored together
\* or not at all.  200: each entry is stored or reported, by its index.  400:
\* there was nothing to store.  500: nothing is stored and nothing will be,
\* so that sending the request again doubles no row; after a 503 either may
\* be the case.  No stored row is later than a request's time plus five
\* minutes.
IngestTruthful ==
    /\ \A p \in Post : LET post == posts[p] IN
         /\ StoredIds(p) \in {{}, {record.id : record \in post.records}}
         /\ post.status = 200 =>
              /\ StoredIds(p) = {record.id : record \in post.records}
              /\ Cardinality(StoredIds(p)) + Cardinality(post.rejected) = Len(Body[p])
         /\ post.status = 400 => post.records = {}
         /\ post.status = 500 => StoredIds(p) = {}
    /\ \A row \in rows : \E horizon \in Horizon :
         ~AtBefore(<<horizon.day, horizon.second, horizon.ms * 1000>>, row.at)
=============================================================================
