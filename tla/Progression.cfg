SPECIFICATION Spec
CONSTANTS
    User = {u}
    Step = {"s1", "s2"}
    Requirement = {"a", "b", "c"}
    Catalogs <- OldAndNew
    First <- Old
    Pages = {"phase", "dashboard"}
    MaxRows = 2
    MaxLives = 2
INVARIANTS
    CardsAgreeUnlessOvertaken
    UnlockedIsAccepted
    ContinueLeadsToWork
    StatusNamesWhatIsLeft
PROPERTIES
    GateHeldWithinLife
CHECK_DEADLOCK FALSE
