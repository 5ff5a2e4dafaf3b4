CONSTANTS
    Runner = runner
    Other = other
    Target = target
    Peers = {peer}
    Batch = 2
    Limit = 2
    Contents <- MCContents
    Created = {"servers", "plugins"}
    MaxChanges = 2
    MaxFailures = 1
SPECIFICATION Spec
\* The bounded environment stops; nothing has to go on then.
CHECK_DEADLOCK FALSE
INVARIANTS
    IdsUnique
    IdsFresh
    BackupComplete
    BackupExact
PROPERTIES
    Progress
