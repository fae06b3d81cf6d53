SPECIFICATION Spec
CONSTANTS
    chat = chat
    pager = pager
    email = email
    Targets = {a}
    Notifiers = {chat, pager}
    Configs <- AllConfigured
    TargetNotifiers <- EveryNotifier
    MinSeverity <- Floors
    SendRecovery <- AllRecoveries
    FlapStreak <- Streak2
    RepeatInterval <- NeverAtWarning
    Observed <- UpDown
    StoreFaults <- NoFaults
    RenderFaults = {}
    MaxTime = 1
    MaxDuration = 9
PROPERTIES FactsAdoptedAtOnce
