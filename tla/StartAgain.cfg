\* Lines that disable and enable the pump.
CONSTANTS
  n = n
  minus = minus
  zero = zero
  text = text
  dashed = dashed
  Number <- MCNumber
  Negative <- MCNegative
  Zero = zero
  Text <- MCText
  OptionText = dashed
  Lines <- PumpLines
  Launches <- NoLaunch
SPECIFICATION Spec
INVARIANT EventsWereTyped
CHECK_DEADLOCK FALSE
