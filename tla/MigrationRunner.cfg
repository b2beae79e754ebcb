CONSTANTS
    older = older
    newer = newer
    edited = edited
    s1 = s1
    s2 = s2
    Process = {older, newer, edited}
    Session = {s1, s2}
    Local <- MCLocal
    NoSession = NoSession
    NoMigration = NoMigration
SPECIFICATION FairSpec
INVARIANTS
    TypeOK
    SchemaIsHistory
    RunsOnItsSchema
PROPERTIES
    StartEnds
