SPECIFICATION Spec
CONSTANTS
    Account = {a1, a2}
    Login = {l1, l2, l3}
    Browser = {b1, b2}
    AttemptId = {i1}
    Type = {"repo_fork", "ctf_token"}
    MaxRenames = 2
    None = None
INVARIANTS
    LoginsAreOwn
    TargetIsSubmittedUrl
    LabTokensAreOwn
SYMMETRY Symmetry
CHECK_DEADLOCK FALSE
