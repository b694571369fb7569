SPECIFICATION Spec
CONSTANTS
    MaxBackups = 1
    MaxAttempts = 2
    MaxAsked = 3
CHECK_DEADLOCK FALSE
INVARIANT EndedJobsSaySo
