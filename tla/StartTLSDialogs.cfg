SPECIFICATION FairSpec
CONSTANTS
    MaxLines = 3
    MaxBytes = 10
INVARIANTS  UnavailableMeansDeclined UnreachableMeansFault
PROPERTIES DialogEnds
CHECK_DEADLOCK FALSE
