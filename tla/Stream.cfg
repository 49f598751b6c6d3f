SPECIFICATION FairSpec
CONSTANTS
    Conns <- MCConns
    MaxParts = 2
    MaxPieces = 2
    MaxWire = 0
    Usages <- MCUsages
    Stops <- MCStops
    Cuts <- MCCuts
INVARIANTS
    TypeOK
    WellFormed
    HeardIsSaid
    RecordedAsTold
    StopKept
    AggregateAgrees
PROPERTIES
    EndsForTheClient
