CONSTANTS
    a1 = a1
    a2 = a2
    p1 = p1
    r1 = r1
    r2 = r2
    Account = {a1, a2}
    ProviderOf <- MCProviderOf
    Request = {r1}
    Watcher = Watcher
    Main = Main
    Nobody = Nobody
    NoVersion = NoVersion
    MaxRevision = 1
    MaxData = 2
    MaxConfig = 2
    MaxFailures = 1
SPECIFICATION FairSpec

PROPERTIES
    AccountsConverge
    ConfigConverges
CHECK_DEADLOCK FALSE
