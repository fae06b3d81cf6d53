SPECIFICATION Spec
CONSTANTS
    chat = chat
    pager = pager
    email = email
    Targets = {a}
    Notifiers = {chat, email}
    Configs <- InAndOut
    TargetNotifiers <- EveryNotifier
    MinSeverity <- Floors
    SendRecovery <- NotChat
    FlapStreak <- Streak3
    RepeatInterval <- NeverAtWarning
    Observed <- AllClasses
    StoreFaults <- StateFaults
    RenderFaults = {email}
    MaxTime = 1
    MaxDuration = 9
INVARIANTS TypeOK AlertedMeansEnqueued
PROPERTIES ConfirmationNotLost ReAddStartsClean TablesAreALedger
