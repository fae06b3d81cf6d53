SPECIFICATION FairSpec
CONSTANTS
    chat = chat
    pager = pager
    Notifiers = {chat, pager}
    Configs <- Added
    MinSeverity <- Floors
    SendRecovery <- NotChat
    Observed <- UpDown
    Faults <- AllFaults
    MaxRows = 1
INVARIANTS EndpointsFollowState WritersGoneBeforeClose
PROPERTIES OnlyOrphansVanish PresentProblemIsTold
