SPECIFICATION FairSpec
CONSTANTS
  MAX_READ_SIZE = 3
  Flights = {1, 3, 4, 7}
  Writes = {1, 3}
  MaxRecords = 3
  MaxWritten = 12
INVARIANTS NothingHeldBack LeftBehind
PROPERTIES HandshakeEnds FirstIsServed
