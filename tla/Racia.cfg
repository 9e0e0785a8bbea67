CONSTANTS
  r1 = r1
  r2 = r2
  r3 = r3
  Nobody = Nobody
  Procs <- MCProcs
SPECIFICATION Spec
SYMMETRY Symmetry
INVARIANTS
  TypeOK
  OriginalSurvives
  RestoredIsOriginal
CHECK_DEADLOCK FALSE
