SPECIFICATION Spec
CONSTANTS
  c1 = c1
  c2 = c2
  Callers = {c1, c2}
  MaxPerSec = 2
  Window = 3
  MaxDelay = 0
  Randoms = {1}
  MaxTime = 6
  MaxAdmissions = 5
SYMMETRY Symmetry
INVARIANT
  WithinLimit
