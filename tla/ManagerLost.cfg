SPECIFICATION Spec
CONSTANTS
    chat = chat
    pager = pager
    email = email
    Targets = {a}
    Notifiers = {chat, pager}
    Configs <- AllConfigured
    TargetNotifiers <- EveryNotifier
    MinSeverity <- Floors
    SendRecovery <- AllRecoveries
    FlapStreak <- Streak1
    RepeatInterval <- NeverAtWarning
    Observed <- UpDown
    StoreFaults <- EnqueueFault
    RenderFaults = {}
    MaxTime = 1
    MaxDuration = 9
INVARIANTS NothingSilentlyAlerted
