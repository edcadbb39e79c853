CONSTANTS
    Requests = {1, 2}
    Logins = {l1}
    Daemon = daemon
    Cli = cli
    MaxHashes = 3
    MaxFaults = 1
    MaxCalls = 2
    None = none
    Clients = {c1, c2}
    Secrets = {1, 2}
    CacheMax = 2
    GateSlots = 1
    MaxRotations = 1
    Unset = unset
    Keys = {k1, k2, k3}
    Limit = 3
    Window = 2
    MaxKeys = 2
    Conns = {1, 2}
    MaxConnections = 1
    MaxChunks = 1
    MaxChanges = 1
    Profiles <- SomeProfiles
    Nodes = {0, 1, 2}
    MaxAttempts = 3
    QuickLimit = 1
    MaxEdits = 1
SPECIFICATION Spec
INVARIANTS AccessTypeOK PasswordReadable StaleSessionRaced SingleFlight VerdictTrue CacheBounded LimitHolds NothingLeaks RelayAuthenticated UndominatedChosen
PROPERTIES MigrationKept RelayEnds
CHECK_DEADLOCK FALSE
