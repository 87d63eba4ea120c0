SPECIFICATION Spec
CONSTANTS
    s1 = s1
    u1 = u1
    Attempt = {a1, a2}
    Handler = {h1}
    Slot = {s1}
    User = {u1}
    SlotOf <- MCSlotOf
    OwnerOf <- MCOwnerOf
    NoAttempt = NoAttempt
    MaxFaults = 1
SYMMETRY Symmetry
INVARIANTS NoActiveBesideSucceeded
CHECK_DEADLOCK FALSE
