SPECIFICATION Spec
CONSTANTS
  Fd = {f1, f2, f3}
  BANKSIZE = 2
  MaxMessage = 2
  use_ssl = FALSE
SYMMETRY Symmetry
INVARIANT CleanUpNeverReadsNull
CHECK_DEADLOCK FALSE
