SPECIFICATION Spec
CONSTANTS
  Proc = {p1, p2, p3}
  sse = sse
  comm = comm
  none = none
INVARIANTS OneServer NoStalePidFile PidFileNamesServer NothingLeftRefuses
CHECK_DEADLOCK FALSE
