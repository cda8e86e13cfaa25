CONSTANT MaxBytes = 9
SPECIFICATION Spec
INVARIANTS
  ResumeExact
CHECK_DEADLOCK FALSE
