\* A project load typed just after a start, then an abort.
CONSTANTS
  Worker = {w1, w2}
  NoWorker = none
  CounterModulus = 2
  Commands <- StartAbortLoad
SPECIFICATION DocumentedSpec
INVARIANT AbortTurnsOutputsOff
