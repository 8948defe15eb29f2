SPECIFICATION FairSpec
CONSTANTS
  Fd = {f1, f2, f3}
  BANKSIZE = 2
  MaxMessage = 1
  use_ssl = FALSE
INVARIANTS BanksPacked OneSlotPerDescr CursorOnLiveBank WalkInv
PROPERTIES TimeoutCheckIsExact FanOutIsExact CleanUpIsExact FailedClientsClosed StepsRunOut ImplementsClientSet WalksEnd
CHECK_DEADLOCK FALSE
