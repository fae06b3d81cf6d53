SPECIFICATION FairSpec
CONSTANTS
    a = a
    b = b
    c = c
    Targets = {a, b, c}
    Concurrency = 2
    ConnectRetries <- RetryA
INVARIANTS TypeOK OneGoroutinePerTarget ConcurrencyBounded NothingAfterReturn 
PROPERTIES KeepsBeingChecked
CHECK_DEADLOCK FALSE
