CONSTANTS
  Stems = {s1, s2}
  MaxEdits = 2
SPECIFICATION Spec
INVARIANTS
  CompiledIsFaithful
  OnlyNamesakesHide
CHECK_DEADLOCK FALSE
