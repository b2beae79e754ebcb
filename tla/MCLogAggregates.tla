---------------------------- MODULE MCLogAggregates ----------------------------
(* Constants of LogAggregates for TLC: batches that share groups and bring *)
(* them up in different orders; "cafe" and "kafe" have one rank, as two    *)
(* spellings of one accented name do.                                      *)
EXTENDS LogAggregates

CONSTANTS b1, b2, b3

MCRank ==
    [api |-> 0, cafe |-> 1, kafe |-> 1, debug |-> 0, error |-> 1, info |-> 2, warn |-> 3]

Entry(id, sentAt, storedAt, service, level, matches) ==
    [id |-> id, sentAt |-> sentAt, storedAt |-> storedAt, service |-> service, level |-> level,
     matches |-> matches]

(* Timestamps of at most microseconds: stored as they were sent. *)
MCCarries ==
    b1 :> {Entry(1, 0, 0, "api", "warn", TRUE), Entry(2, 3, 3, "cafe", "info", FALSE),
           Entry(3, 2, 2, "kafe", "info", TRUE)}
    @@ b2 :> {Entry(4, 1, 1, "api", "error", FALSE), Entry(5, 1, 1, "api", "error", TRUE),
              Entry(6, 2, 2, "kafe", "info", FALSE), Entry(7, 3, 3, "cafe", "info", TRUE)}
    @@ b3 :> {Entry(8, 1, 1, "api", "error", FALSE), Entry(9, 3, 3, "cafe", "info", TRUE)}

(* The last timestamp of a minute, with digits that round up to the next. *)
MCRoundedCarries ==
    b1 :> {Entry(1, 1, 2, "api", "error", TRUE)}
    @@ b2 :> {Entry(2, 0, 0, "api", "error", TRUE)}
    @@ b3 :> {Entry(3, 3, 3, "cafe", "info", FALSE)}

MCQuery ==
    {q \in [since : 0..LastTick, until : {2, 3, LastTick}, bucket : {1, 2}, service : {NoFilter, "api"},
            level : {NoFilter}, hasText : BOOLEAN, groupBy : {NoFilter, "service"}] :
       q.since <= q.until /\ (q.bucket = 1 => q.groupBy = NoFilter)}
    \cup {[since |-> 0, until |-> LastTick, bucket |-> 1, service |-> NoFilter, level |-> "error",
           hasText |-> FALSE, groupBy |-> "level"]}
===============================================================================
