SPECIFICATION Spec
SYMMETRY Symmetry
CONSTANTS
  Fd = {4, 5}
  sfd = 1
  commfd = 2
  fifo = 3
  SseConn = {s1, s2, s3}
  CommConn = {}
  NoConn = NoConn
  use_ssl = FALSE
  MaxUnread = 1
PROPERTY HealthyKept
CHECK_DEADLOCK FALSE
