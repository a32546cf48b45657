CONSTANTS
  T = T
  U = U
  A = A
  C = C
  NONE = NONE
  Tasks = {T, U, A, C}
  PT_MAX = 3
  Programs <- MCPrograms
SPECIFICATION FairSpec
INVARIANTS  Paired  DeathsTrue
PROPERTIES NoneLeftParked AttachStops
CHECK_DEADLOCK FALSE
