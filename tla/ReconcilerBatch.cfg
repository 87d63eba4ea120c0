SPECIFICATION Spec
CONSTANTS
    MaxAttempts = 3
    BatchLimit = 2
    EndsAs = {"Canceled"}
    MaxSuspended = 1
    MaxFaults = 1
PROPERTY AbandonedIsReconciled
CHECK_DEADLOCK FALSE
