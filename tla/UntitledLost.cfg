\* One project file, into which somebody puts a flow without a title.
CONSTANTS
  Path = {a}
  NoPath = none
  Pin <- Pins
  DefaultPin <- StartPins
  Typed <- TypesNone
  Edits <- UntitledEdits
  Faults = {}
SPECIFICATION Spec
PROPERTY LoadedFlowIsApplied
