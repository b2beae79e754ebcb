CONSTANTS
    Garbage = Garbage
    NoFilter = NoFilter
    NoCursor = NoCursor
    mixed = mixed
    late = late
    early = early
    api = api
    api2 = api2
    one = one
    pay = pay
    like = like
    bad = bad
    ancient = ancient
    Post = {mixed, late, early}
    Body <- MCBody
    Horizon <- MCHorizon
    Query = {api, api2, pay, like, one, bad, ancient}
    QueryString <- MCQueryString
    MaxId = 3
    Containing <- MCContaining
    Wildcard = {"%", "_"}
    NulText = {"NUL"}
    KeyOrder <- MCKeyOrder
CHECK_DEADLOCK FALSE
SPECIFICATION FairSpec
INVARIANTS
    TypeOK
    OnceInOrder
    NothingSkipped
    RepeatIsAccepted
    IngestTruthful
PROPERTIES
    ListingEnds
