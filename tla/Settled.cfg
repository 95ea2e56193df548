CONSTANTS
  Worker = {w1, w2}
  NoWorker = none
  CounterModulus = 2
  Commands <- AllCommands
SPECIFICATION SettledSpec
PROPERTIES StepsImplementFlow ImplementsFlow
