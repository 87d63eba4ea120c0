SPECIFICATION FairSpec
CONSTANTS
    s1 = s1
    u1 = u1
    Attempt = {a1}
    Handler = {h1, h2}
    Slot = {s1}
    User = {u1}
    SlotOf <- MCSlotOf
    OwnerOf <- MCOwnerOf
    NoAttempt = NoAttempt
    MaxFaults = 2
INVARIANTS
    ExclusiveStart
    CompletedMeansRecorded
PROPERTIES
    EveryAttemptSettles
CHECK_DEADLOCK FALSE
