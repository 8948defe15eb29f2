SPECIFICATION FairSpec
CONSTANTS
  Fd = {4, 5}
  sfd = 1
  commfd = 2
  fifo = 3
  SseConn = {s1, s2}
  CommConn = {}
  NoConn = NoConn
  use_ssl = FALSE
  MaxUnread = 1
PROPERTIES InputIsHandled LeftAreReleased BacklogIsAccepted
CHECK_DEADLOCK FALSE
