SPECIFICATION Spec
CONSTANTS
  c1 = c1
  c2 = c2
  Callers = {c1, c2}
  MaxPerSec = 2
  Window = 3
  MaxDelay = 1
  Randoms = {1, 2}
  MaxTime = 6
  MaxAdmissions = 5
INVARIANTS
  LimiterTypeOK
  WindowBound
PROPERTY
  RefusesOnlyWhenFull
