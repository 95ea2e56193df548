\* Files of every kind are loaded, edited, saved and read at the next start.
CONSTANTS
  Half = 4
  PinModulus = 4
  Documents <- MCDocuments
  Times = {0}
  PinIds <- MCPinIds
  Names = {"day"}
  Default <- MCDefault
  Object <- MCObject
  DeepReadable <- ReadableTree
  DeepRead <- ReadTree
  DeepMembers <- TreeMembers
  Within <- WithinTree
  Depth <- DepthOf
SPECIFICATION Spec
INVARIANTS TypeOK SavedCanBeLoaded OthersAreKept
PROPERTIES LoadedAsMeant SavedIsRestored
