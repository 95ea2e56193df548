\* A project with an empty object in it is loaded and saved, and the program is started.
CONSTANTS
  Half = 4
  PinModulus = 4
  Documents <- EmptyObjects
  Times = {0}
  PinIds <- MCPinIds
  Names = {"day"}
  Default <- MCDefault
  Object <- MCObject
  DeepReadable <- ReadableTree
  DeepRead <- ReadTree
  DeepMembers <- TreeMembers
  Within <- WithinTree
  Depth <- DepthOf
SPECIFICATION Spec
PROPERTY LastJobIsBack
