\* Any sequence of commands at any moment, two worker threads.
CONSTANTS
  Worker = {w1, w2}
  NoWorker = none
  CounterModulus = 2
  Commands <- AllCommands
SPECIFICATION FairSpec
INVARIANTS
  TypeOK
  AtMostOneInCycle
  StopTokenIsFresh
  NoThreadLost
  StopWakesWorker
  CounterCountsThisJob
PROPERTIES LoadRestartsOrThrows CommandsReturn
