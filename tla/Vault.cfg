SPECIFICATION Spec
CONSTANTS
  MaxFailures = 2
  MaxWrites = 1
  Stories <- AllStories
INVARIANTS LockHolds GuessesAreCharged RevocationSticks
PROPERTIES LoadingEnds SessionIsMinted
CHECK_DEADLOCK FALSE
