\* A stop typed just after a start.
CONSTANTS
  Worker = {w1, w2}
  NoWorker = none
  CounterModulus = 2
  Commands <- StartStop
SPECIFICATION Spec
INVARIANT StopLeavesNoWorker
