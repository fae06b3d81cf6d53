SPECIFICATION FairSpec
CONSTANTS
    a = a
    b = b
    Targets = {a, b}
    Conc = 1
    Retries = 1
    Faults <- AllFaults
    Poisoned = {a}
    MaxRows = 2
INVARIANTS TypeOK NothingLost NoLostWakeup
PROPERTIES ImplementsDelivery EventuallyReceived ShutdownEnds
