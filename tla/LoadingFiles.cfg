SPECIFICATION Spec
CONSTANTS
    Unset = Unset
    MaxDuration = 100000000
    Never = 100000000
    Env <- MCEnv
    FileGroups <- MCFileGroups
INVARIANTS AcceptedIsRunnable SettingsFollowFile CheckReproducesMonitor StartedMeansRenders SecretsResolved RequestFollowsBodies
CHECK_DEADLOCK FALSE
