SPECIFICATION FairSpec
CONSTANTS
    Requests <- MCRequests
    Outcomes <- MCOutcomes
    Answers <- MCAnswers
    Handler = {h1, h2}
    Poller = {p1, p2}
    Scopes = {"all", "t"}
    NoSession = ""
    AllSessions = "all"
    None = None
    MaxObserved = 1
    Capacity = 1
    CacheSecs = 2
    Window = 0
    RecentLimit = 1
    Budgets <- MCBudgets
    MissingRow <- MCMissingRow
INVARIANTS
    TypeOK
    DiagnosticsTrue
    ReportConsistent
    QuotaKept
PROPERTIES
    KeepsLedger
    CatchesUp
CHECK_DEADLOCK FALSE
