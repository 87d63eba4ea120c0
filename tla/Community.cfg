SPECIFICATION Spec
CONSTANTS
    User = {u1, u2}
    Step = {}
    Requirement = {"a", "b"}
    Catalogs <- BeforeAndAfter
    First <- Before
    Pages = {"community"}
    MaxRows = 1
    MaxLives = 2
SYMMETRY Users
INVARIANTS
    CommunityIsTruthful
    FunnelFitsAccounts
CHECK_DEADLOCK FALSE
