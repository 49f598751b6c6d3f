CONSTANTS
    a1 = a1
    a2 = a2
    p1 = p1
    r1 = r1
    r2 = r2
    Account = {a1, a2}
    ProviderOf <- MCProviderOf
    Request = {r1, r2}
    Watcher = Watcher
    Main = Main
    Nobody = Nobody
    NoVersion = NoVersion
    MaxRevision = 2
    MaxData = 1
    MaxConfig = 1
    MaxFailures = 1
SPECIFICATION Spec
SYMMETRY Symmetry
INVARIANTS
    TypeOK
    SeenNeverAhead
    FreshSnapshot
CHECK_DEADLOCK FALSE
