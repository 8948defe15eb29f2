SPECIFICATION FairSpec
CONSTANTS
  Fd = {4, 5}
  sfd = 1
  commfd = 2
  fifo = 3
  SseConn = {s1}
  CommConn = {m1}
  NoConn = NoConn
  use_ssl = FALSE
  MaxUnread = 1
PROPERTY OverdueAreDropped
CHECK_DEADLOCK FALSE
