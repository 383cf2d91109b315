SPECIFICATION Spec
CONSTANTS
  Evidences <- AllEvidence
  ScopeOrder <- TwoScopes
INVARIANTS
  SymptomsTraceToVisible
  ProofSurvives
  PrimaryIsProven
  PrimaryIsNoSymptom
CHECK_DEADLOCK FALSE
