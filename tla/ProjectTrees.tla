---------------------------- MODULE ProjectTrees ----------------------------
(***************************************************************************)
(* The recursion of the JSON reader and writer over trees of any depth.    *)
(* ProjectData writes out the levels the watering system's data is on; what*)
(* lies deeper is read and written by these.                               *)
(***************************************************************************)
EXTENDS ProjectData, FiniteSetsExt

\* createVariantFromJsonNode throws somewhere in the tree, or not.
RECURSIVE ReadableTree(_)
ReadableTree(members) ==
  ReadableFrom(members, [o \in Inside(members) |-> ReadableTree(o)])

\* read_project_node, for every object below.
RECURSIVE ReadTree(_)
ReadTree(members) == NodeFrom(members, [o \in Inside(members) |-> ReadTree(o)])

\* serializeProjectNode, for every node below.
RECURSIVE TreeMembers(_)
TreeMembers(node) == MembersFrom(node, [n \in NodesIn(node) |-> TreeMembers(n)])

\* All objects in an object.
RECURSIVE WithinTree(_)
WithinTree(members) ==
  Inside(members) \cup UNION {WithinTree(o) : o \in Inside(members)}

RECURSIVE DepthOf(_)
DepthOf(members) == Max({0} \cup {1 + DepthOf(o) : o \in Inside(members)})

=============================================================================
