SPECIFICATION Spec
CONSTANTS
    TargetCount = 3
    Concurrency = 2
    CheckInterval = 3
    Jitter = 2
    Timeout = 2
    ConnectRetries = 1
    Slack = 3
INVARIANTS SlackForPauses
