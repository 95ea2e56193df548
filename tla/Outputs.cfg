\* The outputs are moved and operated on three lines and one that is refused.
SPECIFICATION FairSpec
CONSTANTS
  Offset <- MCOffset
  Unavailable <- MCUnavailable
  DefaultOffset <- MCDefault
INVARIANTS
  TypeOK
  BooksAgree
  ReleasedLinesAreOff
  LockedWritesAreLive
PROPERTIES
  MovesKeepTheOther
  PinCommandReturns
CHECK_DEADLOCK FALSE
