SPECIFICATION FairSpec
CONSTANTS
  fifo = fifo
  Comm = {m1}
  Sse = {s1}
  none = none
  MAX_READ_SIZE = 3
  Short = 1
  MaxUnits = 4
INVARIANTS EndsAreReal NoneForgotten LossIsShort
PROPERTIES ReadsRunOut ImplementsFeed HandlersEnd
CHECK_DEADLOCK FALSE
