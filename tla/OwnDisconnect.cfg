CONSTANTS
    a1 = a1
    a2 = a2
    p1 = p1
    r1 = r1
    r2 = r2
    Account = {a1, a2}
    ProviderOf <- MCProviderOf
    Request = {r1}
    Watcher = Watcher
    Main = Main
    Nobody = Nobody
    NoVersion = NoVersion
    MaxRevision = 2
    MaxData = 2
    MaxConfig = 0
    MaxFailures = 0
SPECIFICATION Spec
INVARIANT DisconnectTakesEffect
CHECK_DEADLOCK FALSE
