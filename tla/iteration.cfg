CONSTANTS
  Sessions <- TwoSessions
SPECIFICATION FairSpec
CHECK_DEADLOCK FALSE
INVARIANTS TypeOK ResultOfElements InOrder LastWord BreakStaysInside
PROPERTY Terminates
