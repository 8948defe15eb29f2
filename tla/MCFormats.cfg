SPECIFICATION Spec
CONSTANTS
  TokenSize = 4
  OutSize = 2048
  IdLen = 21
  ListSize = 9
  Char = {"a", "b"}
  MaxMessage = 2100
INVARIANTS MatchesAsNamed NeverToOthers ChunkAsAnnounced ListStaysInBuffer
CHECK_DEADLOCK FALSE
