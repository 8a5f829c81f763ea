SPECIFICATION StoreSpec
CONSTANTS
    a = a
    b = b
    d = d
    e = e
    Procs = {p1, p2}
    Last = 2
    Databases <- MCDatabases
    MaxResets = 1
    Rules = {a, b}
    Definitions = {d, e}
    Files <- MCFiles
    MaxRevision = 2
INVARIANTS AppliedAsRecorded FoundMissingApplies ReadyIsMigrated SavedRevisionsStand
    LastSaveIsActive NoCircularWait
PROPERTY MigrationEnds
