CONSTANTS
  Jobs = {job1, job2, job3}
  Orphan = submission0
  New = {attempt1, attempt2}
  Steps = {step1}
SPECIFICATION Spec
INVARIANTS
  JobsSettle
  ContractLosesNothing
  
PROPERTY
  OutcomesAreFinal
SYMMETRY RowSymmetry
CHECK_DEADLOCK FALSE
