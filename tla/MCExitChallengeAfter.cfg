\* what the doc of challengeAfterAsync says
CONSTANTS
  Interval = 3
  MaxBlock = 15
SPECIFICATION Spec
INVARIANT SpentChallengedAfter
CHECK_DEADLOCK FALSE
