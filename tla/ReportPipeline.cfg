SPECIFICATION Spec
CONSTANTS
  Workers = {w1, w2}
  MaxReports = 2
  MaxEvents = 1
CHECK_DEADLOCK FALSE
INVARIANTS
  PackageIffCompleted
  SignedInFull
PROPERTIES
  VerdictIsFinal
  ReportSettles
