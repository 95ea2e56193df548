\* Lines of every kind in any order, until the input ends.
CONSTANTS
  n = n
  minus = minus
  zero = zero
  text = text
  dashed = dashed
  Number <- MCNumber
  Negative <- MCNegative
  Zero = zero
  Text <- MCText
  OptionText = dashed
  Lines <- MCLines
  Launches <- MCLaunches
SPECIFICATION FairSpec
INVARIANTS TypeOK SetIffTyped StopWins
PROPERTIES TypedOptionsFire InputEndsLoop
CHECK_DEADLOCK FALSE
