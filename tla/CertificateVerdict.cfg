SPECIFICATION Spec
CONSTANTS
    Leaves <- SomeLeaves
    Others <- SomeOthers
    MaxOthers = 3
    TrustStores <- Stores
    CriticalDays = 1
    WarningDays = 2
    MaxTime = 7
INVARIANTS ExtraneousIgnored SeriesTellTheVerdict
 
CHECK_DEADLOCK FALSE
