CONSTANTS
  T = T
  U = U
  A = A
  C = C
  NONE = NONE
  Tasks = {T, U, A, C}
  PT_MAX = 3
  Programs <- BornPrograms
SPECIFICATION Spec
INVARIANT Paired
CHECK_DEADLOCK FALSE
