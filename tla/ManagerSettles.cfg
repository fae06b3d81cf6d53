SPECIFICATION FairSpec
CONSTANTS
    chat = chat
    pager = pager
    email = email
    Targets = {a}
    Notifiers = {chat, pager}
    Configs <- AllConfigured
    TargetNotifiers <- EveryNotifier
    MinSeverity <- Floors
    SendRecovery <- AllRecoveries
    FlapStreak <- Streak3
    RepeatInterval <- NeverAtWarning
    Observed <- Ladder
    StoreFaults <- NotDecisive
    RenderFaults = {}
    MaxTime = 3
    MaxDuration = 9
INVARIANTS ChannelsFollowState
PROPERTIES NoOrphanRecovery RemindersSpaced ConfirmedTransitions PersistentReadingIsTold
