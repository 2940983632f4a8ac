SPECIFICATION Spec
CONSTANTS
    Tool = {t1}
    Parts = 2
    Slack = 1
    MaxRun = 2
    MaxClock = 1
    MaxVersion = 2
CHECK_DEADLOCK FALSE
INVARIANT UnfinishedIsRebuilt
