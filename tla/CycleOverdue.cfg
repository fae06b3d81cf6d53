SPECIFICATION Spec
CONSTANTS
    TargetCount = 31
    Concurrency = 1
    CheckInterval = 1
    Jitter = 0
    Timeout = 1
    ConnectRetries = 0
    Slack = 30
INVARIANTS NeverOverdue
