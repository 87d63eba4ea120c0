CONSTANTS
  Authors = {author1, author2}
  Contents = {text1, text2}
  MaxVersion = 2
  MaxCommits = 2
  MaxAttempts = 2
  NoCommit = NoCommit
  NoArtifact = NoArtifact
  Behind = Behind
SPECIFICATION Spec
INVARIANTS
  
  AttemptsKeepTheirDefinition
PROPERTY
  ReleasesRise
SYMMETRY AuthorSymmetry
CHECK_DEADLOCK FALSE
