\* Two project files, every fault, hand-edited files of each kind and with pins that meet.
CONSTANTS
  Path = {a, b}
  NoPath = none
  Pin <- Pins
  DefaultPin <- StartPins
  Typed <- TypesPump
  Edits <- SomeEdits
  Faults <- AllFaults
SPECIFICATION Spec
SYMMETRY Symmetry
INVARIANT TypeOK
PROPERTIES RestartRestoresJob ClosedProjectIsSaved LoadedFlowIsApplied
