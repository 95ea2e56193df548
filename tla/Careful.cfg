CONSTANTS
  Worker = {w1, w2}
  NoWorker = none
  CounterModulus = 2
  Commands <- AllCommands
SPECIFICATION FairCarefulSpec
INVARIANT OutputsNeedIrrigation
PROPERTIES DeviceOrder WateringStops
