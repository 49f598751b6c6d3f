SPECIFICATION FairSpec
CONSTANTS
    Base <- MCBase
    Overlays <- MCOverlays
    Reports <- MCReports
    Session = {"s"}
    NoSession = "no session"
    Provider = {"p", "q"}
    Alias = {"default", "work"}
    Starts <- MCStarts
    Requests <- MCRequests
    Handler = {h1, h2}
    MaxRequests = 2
    MaxOutside = 1
INVARIANTS
    TypeOK
    PickedIsServed
    RefusalTold
PROPERTIES
    SessionKeepsDefaults
    SessionKeepsAccount
    FollowsFile
CHECK_DEADLOCK FALSE
