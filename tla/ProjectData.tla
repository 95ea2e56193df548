----------------------------- MODULE ProjectData -----------------------------
(***************************************************************************)
(* What a project's data goes through: the JSON text of its file, the tree *)
(* of typed nodes that is read from it (project.hpp, json-project-reader,  *)
(* json-project-writer), the upgrade of a 1.1 project and of its version   *)
(* (project-upgraders.cpp, version-integrity-checker.cpp), and the         *)
(* watering system's configuration that is loaded from it and saved to it  *)
(* (daily-cycle-automatic-watering-system.cpp).                            *)
(*                                                                         *)
(* ProjectLifecycle tells the files apart by what reading them gives; here *)
(* that follows from their contents.  Where the file is, the title fix and *)
(* crashes are that module's subject, threads DailyCycleAWS's: here a      *)
(* command is one step.  A file's header has the types it should have, and *)
(* no number above the 64 bits it would be rounded at.                     *)
(***************************************************************************)
EXTENDS Integers, Sequences

CONSTANTS
  Half,        (* 2^63: half the range of the numbers a file may have      *)
  PinModulus,  (* 2^32: pins are of type uint32_t                          *)
  Documents,   (* the files an operator may write: what is in them, and    *)
               (* the configurations that may mean, none if it is invalid  *)
  Times,       (* the durations typed                                      *)
  PinIds,      (* the pins typed for each device                           *)
  Names,       (* the names of flows typed                                 *)
  Default,     (* the configuration a process begins with                  *)
  Object,      (* the JSON objects beside a watering system in Documents,  *)
               (* at any depth, and what the writer makes of them          *)
  DeepReadable(_), DeepRead(_), DeepMembers(_),
               (* Readable, ReadNode and MembersOf below the level of the  *)
               (* devices, where the same recursion goes on                *)
  Within(_),   (* the objects in an object, at any depth                   *)
  Depth(_)     (* and how deep it is (all of these: ProjectTrees)          *)

Device   == {"waterValve", "waterPump"}
Duration == {"activationTime", "deactivationTime", "deactivationSepTime"}

Version    == {0, 110, 120, 130}    (* 0: the empty string                  *)
AppVersion == 120

ASSUME WidthAssumption == Half \in Nat \ {0} /\ PinModulus \in Nat \ {0}

IsConfiguration(c) ==
  /\ c = [device |-> c.device, time |-> c.time, name |-> c.name]
  /\ c.device \in [Device -> [enabled : BOOLEAN, pin : 0 .. PinModulus - 1, high : BOOLEAN]]
  /\ c.time \in [Duration -> -Half .. Half - 1]

\* Times are clamped at zero when they are typed.
ASSUME InputAssumption ==
  /\ IsConfiguration(Default) /\ Times \subseteq 0 .. Half - 1
  /\ Default.device["waterValve"].pin # Default.device["waterPump"].pin
  /\ \A d \in Device : PinIds[d] \subseteq 0 .. PinModulus - 1

VARIABLES
  up,        (* the process runs                                           *)
  project,   (* m_currentProject: its version and its nodes                *)
  aws,       (* the watering system's configuration                        *)
  live,      (* the devices that have an output: a request the chip refuses*)
             (* leaves none                                                *)
  file,      (* the current project's file                                 *)
  origin,    (* history: who wrote the file, and what configuration it     *)
             (* stands for                                                 *)
  foreign    (* history: what the file's author put beside the watering    *)
             (* system                                                     *)

vars == <<up, project, aws, live, file, origin, foreign>>

(* A JSON value is a pair of its type and what it holds: a Boolean, a      *)
(* number, a text, a sequence of values, or a function from keys.          *)
Null == <<"null", "null">>
IsArray(j)  == j[1] = "array"
IsObject(j) == j[1] = "object"

Nothing == [k \in {} |-> Null]

\* ProjectNode: its four maps.
EmptyNode ==
  [values |-> Nothing, valueArrays |-> Nothing, objects |-> Nothing, objectArrays |-> Nothing]

\* No file, a truncated one, and no project.
None      == [version |-> -1, members |-> Nothing]
Torn      == [version |-> -1, members |-> [torn |-> Null]]
NoProject == [version |-> -1, node |-> EmptyNode]
hasProject == project # NoProject

-----------------------------------------------------------------------------
(* Reading and writing *)

\* createVariantFromJsonNode: only a number below zero is signed.
Variant(j) ==
  IF j[1] = "number" THEN <<IF j[2] >= 0 THEN "uint" ELSE "int", j[2]>> ELSE j

\* The values an array has, or the value itself, and the objects of these.
Elements(j)  == IF IsArray(j) THEN {j[2][i] : i \in DOMAIN j[2]} ELSE {j}
ObjectsIn(j) == {v[2] : v \in {w \in Elements(j) : IsObject(w)}}

Inside(members) == UNION {ObjectsIn(members[k]) : k \in DOMAIN members}

(* A tree is read and written by recursion over its objects.  One level of *)
(* it is ...From(_, inner), with a function for the level below; a project,*)
(* its watering system, the flow and the devices are the first four.       *)

\* The reader throws for null, and for an array in an array.
ReadableFrom(members, inner) ==
  \A k \in DOMAIN members : \A v \in Elements(members[k]) :
    IF IsObject(v) THEN inner[v[2]] ELSE ~IsArray(v) /\ v # Null

\* The sequence's objects, pushed back one after the other.
Objects(s) ==
  LET upTo[i \in 0 .. Len(s)] ==
        IF i = 0 THEN <<>>
        ELSE IF IsObject(s[i]) THEN Append(upTo[i - 1], s[i]) ELSE upTo[i - 1]
  IN  upTo[Len(s)]

HasObjects(j) == IsArray(j) /\ \E i \in DOMAIN j[2] : IsObject(j[2][i])
HasValues(j)  == IsArray(j) /\ j[2] # <<>> /\ ~HasObjects(j)
IsValue(j)    == ~IsArray(j) /\ ~IsObject(j)

\* read_project_node: of an array that has objects only those are kept, an
\* empty array is not kept at all.
NodeFrom(members, inner) ==
  LET Kept(P(_)) == {k \in DOMAIN members : P(members[k])}
      Mapped(s, Op(_)) == [i \in DOMAIN s |-> Op(s[i])]
      Child(j) == inner[j[2]]
  IN  [values       |-> [k \in Kept(IsValue) |-> Variant(members[k])],
       valueArrays  |-> [k \in Kept(HasValues) |-> Mapped(members[k][2], Variant)],
       objects      |-> [k \in Kept(IsObject) |-> Child(members[k])],
       objectArrays |-> [k \in Kept(HasObjects) |-> Mapped(Objects(members[k][2]), Child)]]

\* A number is written without its signedness.
Text(v) == IF v[1] \in {"uint", "int"} THEN <<"number", v[2]>> ELSE v

\* A node that has nothing is written as null.
ObjectText(members) == IF members = Nothing THEN Null ELSE <<"object", members>>

\* The union of two functions; the first decides where both are defined.
Over(f, g) ==
  [x \in DOMAIN f \cup DOMAIN g |-> IF x \in DOMAIN f THEN f[x] ELSE g[x]]

\* The nodes that are in a node.
NodesIn(node) ==
  {node.objects[k] : k \in DOMAIN node.objects}
    \cup UNION {{node.objectArrays[k][i] : i \in DOMAIN node.objectArrays[k]} :
                  k \in DOMAIN node.objectArrays}

\* serializeProjectNode: later maps overwrite earlier ones.
MembersFrom(node, inner) ==
  LET Child(n) == ObjectText(inner[n])
      Array(s, Op(_)) == <<"array", [i \in DOMAIN s |-> Op(s[i])]>>
  IN  Over([k \in DOMAIN node.objectArrays |-> Array(node.objectArrays[k], Child)],
      Over([k \in DOMAIN node.objects |-> Child(node.objects[k])],
      Over([k \in DOMAIN node.valueArrays |-> Array(node.valueArrays[k], Text)],
           [k \in DOMAIN node.values |-> Text(node.values[k])])))

\* The levels: a device, the flow, the watering system, the project.
ReadableDevice(m) == ReadableFrom(m, [o \in Inside(m) |-> DeepReadable(o)])
ReadableFlow(m)   == ReadableFrom(m, [o \in Inside(m) |-> ReadableDevice(o)])
ReadableSystem(m) == ReadableFrom(m, [o \in Inside(m) |-> ReadableFlow(o)])
Readable(m)       == ReadableFrom(m, [o \in Inside(m) |-> ReadableSystem(o)])

ReadDevice(m) == NodeFrom(m, [o \in Inside(m) |-> DeepRead(o)])
ReadFlow(m)   == NodeFrom(m, [o \in Inside(m) |-> ReadDevice(o)])
ReadSystem(m) == NodeFrom(m, [o \in Inside(m) |-> ReadFlow(o)])
ReadNode(m)   == NodeFrom(m, [o \in Inside(m) |-> ReadSystem(o)])

DeviceMembers(node) == MembersFrom(node, [n \in NodesIn(node) |-> DeepMembers(n)])
FlowMembers(node)   == MembersFrom(node, [n \in NodesIn(node) |-> DeviceMembers(n)])
SystemMembers(node) == MembersFrom(node, [n \in NodesIn(node) |-> FlowMembers(n)])
MembersOf(node)     == MembersFrom(node, [n \in NodesIn(node) |-> SystemMembers(n)])

FileOf(p) == [version |-> p.version, members |-> MembersOf(p.node)]

\* The node has a value for the key, and getValue finds the type it asks for.
Has(node, key, type) == key \in DOMAIN node.values /\ node.values[key][1] = type
ValueAt(node, key) == node.values[key][2]

-----------------------------------------------------------------------------
(* The upgrade of a project that has just been read *)

OldKey ==
  [d \in Device |-> IF d = "waterValve"
     THEN [enabled |-> "isWaterValveEnabled", pin |-> "valvePinID"]
     ELSE [enabled |-> "isWaterPumpEnabled",  pin |-> "pumpPinID"]]

HasAWS(node) == "automaticWateringSystem" \in DOMAIN node.objects
AWSOf(node)  == node.objects["automaticWateringSystem"]
HasFlow(a)   == "flow" \in DOMAIN a.objects

OldFlowIsValid(flow) ==
  \A d \in Device : /\ Has(flow, OldKey[d].enabled, "bool")
                    /\ ValueAt(flow, OldKey[d].enabled) => Has(flow, OldKey[d].pin, "uint")

IsOld(p) == p.version < 120 /\ HasAWS(p.node)

\* tryApplyIntegrityFixes gets a value that is not there.
UpgradeThrows(p) ==
  IsOld(p) /\ ~(HasFlow(AWSOf(p.node)) /\ OldFlowIsValid(AWSOf(p.node).objects["flow"]))

DeviceNode(name, pin, state, isEnabled) ==
  [EmptyNode EXCEPT !.values = [name |-> <<"string", name>>, pinID |-> <<"uint", pin>>,
                                activationState |-> <<"string", state>>,
                                enabled |-> <<"bool", isEnabled>>]]

OldDevice(flow, d) ==
  LET isEnabled == ValueAt(flow, OldKey[d].enabled)
  IN  DeviceNode(d, IF isEnabled THEN ValueAt(flow, OldKey[d].pin) ELSE 0, "Active Low", isEnabled)

\* Mutant: the devices' old pins are taken one for the other.
UpgradedSwapped(flow) ==
  LET old == UNION {{OldKey[d].enabled, OldKey[d].pin} : d \in Device}
  IN  [flow EXCEPT !.values = [k \in DOMAIN @ \ old |-> @[k]],
                   !.objectArrays = Over([devices |-> <<OldDevice(flow, "waterValve"),
                     [OldDevice(flow, "waterValve") EXCEPT !.values["name"] = <<"string", "waterPump">>]>>], @)]

\* ProjectUpgrader_V1_1ToV1_2: single values become an array of devices.
Upgraded(flow) ==
  LET old == UNION {{OldKey[d].enabled, OldKey[d].pin} : d \in Device}
  IN  [flow EXCEPT !.values = [k \in DOMAIN @ \ old |-> @[k]],
                   !.objectArrays = Over([devices |-> <<OldDevice(flow, "waterValve"),
                                                       OldDevice(flow, "waterPump")>>], @)]

\* Mutant: an old project is upgraded and keeps its version.
FixedKeepsVersion(p) ==
  [p EXCEPT !.node =
     IF IsOld(p)
       THEN [@ EXCEPT !.objects["automaticWateringSystem"].objects["flow"] = Upgraded(@)] ELSE @]

\* LoadProjectAndCheckIntegrity, the title excepted.
Fixed(p) ==
  [version |-> IF p.version < AppVersion THEN AppVersion ELSE p.version,
   node    |-> IF IsOld(p)
                 THEN [p.node EXCEPT !.objects["automaticWateringSystem"].objects["flow"] = Upgraded(@)]
                 ELSE p.node]

ReadFile(f) == [version |-> f.version, node |-> ReadNode(f.members)]
IsReadable(f) == Readable(f.members)

-----------------------------------------------------------------------------
(* loadConfigFromProject *)

DeviceIsValid(n) ==
  /\ Has(n, "name", "string") /\ ValueAt(n, "name") \in Device
  /\ Has(n, "enabled", "bool") /\ Has(n, "pinID", "uint")
  /\ Has(n, "activationState", "string")

FlowIsValid(flow) ==
  /\ "devices" \in DOMAIN flow.objectArrays
  /\ \A i \in DOMAIN flow.objectArrays["devices"] : DeviceIsValid(flow.objectArrays["devices"][i])
  /\ \A t \in Duration : Has(flow, t, "uint")

ModeThrows(a) == ~Has(a, "mode", "string")
NameThrows(a) == "name" \in DOMAIN a.values /\ ~Has(a, "name", "string")

IsApplied(a) ==
  /\ ~ModeThrows(a) /\ ValueAt(a, "mode") = "cycled"
  /\ HasFlow(a) /\ FlowIsValid(a.objects["flow"])

\* Mutant: every number is taken for one above the signed range.
SignedAlways(n) == n - 2 * Half

\* A 64-bit unsigned number as the signed count of a duration.
Signed(n) == IF n < Half THEN n ELSE n - 2 * Half

Greatest(S) == CHOOSE i \in S : \A k \in S : k <= i

\* The last device of that name counts, of the polarities the last that is
\* one; a disabled device keeps its output.
AppliedDevice(flow, d, old) ==
  LET devices == flow.objectArrays["devices"]
      named == {i \in DOMAIN devices : ValueAt(devices[i], "name") = d}
      n == devices[Greatest(named)]
      known == {i \in named : ValueAt(devices[i], "activationState") \in {"Active High", "Active Low"}}
  IN  IF named = {} \/ ~ValueAt(n, "enabled")
        THEN [old EXCEPT !.enabled = FALSE]
        ELSE [enabled |-> TRUE, pin |-> ValueAt(n, "pinID") % PinModulus,
              high |-> known # {} /\ ValueAt(devices[Greatest(known)], "activationState") = "Active High"]

NameOf(a, old) ==
  IF "name" \notin DOMAIN a.values THEN "Unnamed-flow-1"
  ELSE IF NameThrows(a) THEN old ELSE ValueAt(a, "name")

AfterLoad(node, old) ==
  IF ~HasAWS(node) \/ ~IsApplied(AWSOf(node)) THEN old
  ELSE LET flow == AWSOf(node).objects["flow"]
       IN  [device |-> [d \in Device |-> AppliedDevice(flow, d, old.device[d])],
            time   |-> [t \in Duration |-> Signed(ValueAt(flow, t))],
            name   |-> NameOf(AWSOf(node), old.name)]

LoadThrows(node) ==
  HasAWS(node) /\ LET a == AWSOf(node) IN ModeThrows(a) \/ (IsApplied(a) /\ NameThrows(a))

Other(d) == IF d = "waterValve" THEN "waterPump" ELSE "waterValve"

\* The chip grants a pin unless the other device has a request for it.
Granted(c, l, d, pin) == l[Other(d)] => c.device[Other(d)].pin # pin

Moves(node) == HasAWS(node) /\ IsApplied(AWSOf(node))

\* The output of a device that r enables is moved; c has the pins until then.
MovedOne(d, c, r, l) ==
  [l EXCEPT ![d] = IF r.device[d].enabled THEN Granted(c, l, d, r.device[d].pin) ELSE @]

\* Mutant: the pump's output is moved before the valve's.
MovedPumpFirst(c, r, l) == MovedOne("waterValve", r, r, MovedOne("waterPump", c, r, l))

\* From the configuration c to r the valve's output is moved first.
Moved(c, r, l) == MovedOne("waterPump", r, r, MovedOne("waterValve", c, r, l))

OutputsAfter(node, c, l) == IF Moves(node) THEN Moved(c, AfterLoad(node, c), l) ELSE l

-----------------------------------------------------------------------------
(* saveToProject *)

\* Mutant: the polarity is written the other way round.
StateTextSwapped(isHigh) == IF isHigh THEN "Active Low" ELSE "Active High"

\* details::ActivationStateToString
StateText(isHigh) == IF isHigh THEN "Active High" ELSE "Active Low"

AWSNode(c) ==
  LET DeviceOf(d) == DeviceNode(d, c.device[d].pin, StateText(c.device[d].high), c.device[d].enabled)
      flow == [EmptyNode EXCEPT
                 !.values = [t \in Duration |-> <<"int", c.time[t]>>],
                 !.objectArrays = [devices |-> <<DeviceOf("waterValve"), DeviceOf("waterPump")>>]]
  IN  [EmptyNode EXCEPT !.values = [mode |-> <<"string", "cycled">>, name |-> <<"string", c.name>>],
                        !.objects = [flow |-> flow]]

\* Mutant: the nodes that are collected replace all others.
CollectedAlone ==
  [project EXCEPT !.node.objects = [automaticWateringSystem |-> AWSNode(aws)]]

\* collectProjectData
Collected ==
  [project EXCEPT !.node.objects = Over([automaticWateringSystem |-> AWSNode(aws)], @)]

-----------------------------------------------------------------------------
(* The process *)

Others(members) ==
  [k \in DOMAIN members \ {"automaticWateringSystem"} |-> members[k]]

\* A value of JSON is a pair, an array a sequence of pairs.
IsTyped(j) ==
  j = <<j[1], j[2]>> /\ j[1] \in {"null", "bool", "number", "float", "string", "object", "array"}

IsJson(j) ==
  /\ IsTyped(j) /\ \A v \in Elements(j) : IsTyped(v)
  /\ IsArray(j) => j[2] \in Seq(Elements(j))

\* What is in an object is a function from keys.
AreMembers(m) == m = [k \in DOMAIN m |-> m[k]] /\ \A k \in DOMAIN m : IsJson(m[k])

(* The objects that occur are finite trees, and the recursion below the    *)
(* devices is the same as above them.                                      *)
ASSUME TreeAssumption ==
  \A o \in Object :
    /\ AreMembers(o)
    /\ Inside(o) \subseteq Object /\ Within(o) = Inside(o) \cup UNION {Within(x) : x \in Inside(o)}
    /\ Depth(o) \in Nat /\ \A x \in Inside(o) : Depth(x) < Depth(o)
    /\ DeepReadable(o) = ReadableFrom(o, [x \in Inside(o) |-> DeepReadable(x)])
    /\ LET n == DeepRead(o)
       IN  /\ n = NodeFrom(o, [x \in Inside(o) |-> DeepRead(x)])
           /\ DeepMembers(n) = MembersFrom(n, [x \in NodesIn(n) |-> DeepMembers(x)])
           /\ DeepMembers(n) \in Object

(* An unsigned number is a natural number, a duration one of 64 bits; the  *)
(* devices are a sequence.                                                 *)
HasNumbers(flow) ==
  LET devices == flow.objectArrays["devices"]
      Unsigned(n, key) == Has(n, key, "uint") => ValueAt(n, key) \in Nat
  IN  /\ \A t \in Duration : Has(flow, t, "uint") => ValueAt(flow, t) \in 0 .. 2 * Half - 1
      /\ \A d \in Device : Unsigned(flow, OldKey[d].pin)
      /\ "devices" \in DOMAIN flow.objectArrays =>
           /\ Len(devices) \in Nat /\ DOMAIN devices = 1 .. Len(devices)
           /\ \A i \in DOMAIN devices : Unsigned(devices[i], "pinID")

HasTypes(node) ==
  HasAWS(node) /\ HasFlow(AWSOf(node)) => HasNumbers(AWSOf(node).objects["flow"])

(* A file has a known version and JSON in it.                              *)
ASSUME DocumentAssumption ==
  \A d \in Documents :
    /\ d.version \in Version
    /\ AreMembers(Others(d.members)) /\ Inside(Others(d.members)) \subseteq Object
    /\ HasTypes(ReadNode(d.members))

By(author, configs) == [author |-> author, means |-> configs]

AllOutputs == [d \in Device |-> TRUE]

Init ==
  /\ up = TRUE /\ project = NoProject
  /\ aws = Default /\ live = AllOutputs
  /\ file = None /\ origin = By("nobody", {}) /\ foreign = Nothing

SetDevice(d, c) == aws' = [aws EXCEPT !.device[d] = c]

\* A pin that is typed is requested active-low.
Configure ==
  /\ up
  /\ \/ /\ \/ \E d \in Device : SetDevice(d, [aws.device[d] EXCEPT !.enabled = ~@])
           \/ \E t \in Duration, n \in Times : aws' = [aws EXCEPT !.time[t] = n]
           \/ \E n \in Names : aws' = [aws EXCEPT !.name = n]
        /\ UNCHANGED live
     \/ \E d \in Device : \E n \in PinIds[d] :
          /\ live[d]
          /\ SetDevice(d, [enabled |-> aws.device[d].enabled, pin |-> n, high |-> FALSE])
          /\ live' = [live EXCEPT ![d] = Granted(aws, live, d, n)]
  /\ UNCHANGED <<up, project, file, origin, foreign>>

\* SaveProjectAndUpdateConfigFile; collecting the data needs both outputs.
SaveCurrent ==
  IF hasProject
    THEN (\A d \in Device : live[d]) /\ file' = FileOf(Collected) /\ origin' = By("save", {aws})
    ELSE UNCHANGED <<file, origin>>

Save ==
  /\ up /\ hasProject
  /\ SaveCurrent /\ project' = Collected
  /\ UNCHANGED <<up, aws, live, foreign>>

\* The old project is saved where it is; the new one has no file yet.
Create ==
  /\ up /\ (hasProject => \A d \in Device : live[d])
  /\ project' = [version |-> AppVersion, node |-> EmptyNode]
  /\ file' = None /\ origin' = By("nobody", {}) /\ foreign' = Nothing
  /\ UNCHANGED <<up, aws, live>>

TheFileIs(d) ==
  /\ file' = [version |-> d.version, members |-> d.members]
  /\ origin' = By("operator", d.means)
  /\ foreign' = Others(d.members)

\* The outputs that saving the old project and moving to the new one needs.
OutputsServe(node) ==
  \A d \in Device :
    hasProject \/ (Moves(node) /\ AfterLoad(node, aws).device[d].enabled) => live[d]

\* The old project is saved where it is, and another file is read.  What
\* loadConfigFromProject throws is caught.
Load(d) ==
  /\ up /\ IsReadable(d) /\ ~UpgradeThrows(ReadFile(d))
  /\ project' = Fixed(ReadFile(d))
  /\ OutputsServe(project'.node)
  /\ aws' = AfterLoad(project'.node, aws) /\ live' = OutputsAfter(project'.node, aws, live)
  /\ TheFileIs(d)
  /\ UNCHANGED up

\* The file cannot be read: the current project stays, saved.
LoadRefused(d) ==
  /\ up /\ ~IsReadable(d)
  /\ SaveCurrent
  /\ project' = IF hasProject THEN Collected ELSE project
  /\ UNCHANGED <<up, aws, live, foreign>>

\* The upgrade throws, and LoadProjectAndCheckIntegrity is noexcept.
LoadTerminates(d) ==
  /\ up /\ IsReadable(d) /\ UpgradeThrows(ReadFile(d))
  /\ SaveCurrent
  /\ up' = FALSE /\ project' = NoProject
  /\ UNCHANGED <<aws, live, foreign>>

Exit ==
  /\ up
  /\ SaveCurrent
  /\ up' = FALSE /\ project' = NoProject
  /\ UNCHANGED <<aws, live, foreign>>

\* A device without an output is asked for it, which ends the process: by a
\* save, when the file is truncated already, or by a diagnostic, by a move, by
\* the worker.
NullUsed ==
  /\ up /\ \E d \in Device : ~live[d]
  /\ up' = FALSE /\ project' = NoProject
  /\ \/ hasProject /\ file' = Torn /\ origin' = By("nobody", {}) /\ foreign' = Nothing
     \/ UNCHANGED <<file, origin, foreign>>
  /\ UNCHANGED <<aws, live>>

\* tryLoadCachedProject finds no project ...
StartWithout ==
  /\ ~up /\ (file = None \/ ~IsReadable(file))
  /\ up' = TRUE /\ aws' = Default /\ live' = AllOutputs
  /\ UNCHANGED <<project, file, origin, foreign>>

Terminates(f) ==
  LET p == ReadFile(f) IN UpgradeThrows(p) \/ LoadThrows(Fixed(p).node)

\* ... or one, which is applied; if that throws the process ends again.
StartWith ==
  /\ ~up /\ file # None /\ IsReadable(file) /\ ~Terminates(file)
  /\ up' = TRUE
  /\ project' = Fixed(ReadFile(file))
  /\ aws' = AfterLoad(project'.node, Default)
  /\ live' = OutputsAfter(project'.node, Default, AllOutputs)
  /\ UNCHANGED <<file, origin, foreign>>

\* While the process does not run somebody writes the file.
Edit(d) ==
  /\ ~up /\ file # None
  /\ TheFileIs(d)
  /\ UNCHANGED <<up, project, aws, live>>

Next ==
  \/ Configure \/ Save \/ Create \/ Exit \/ NullUsed \/ StartWithout \/ StartWith
  \/ \E d \in Documents : Load(d) \/ LoadRefused(d) \/ LoadTerminates(d) \/ Edit(d)

Spec == Init /\ [][Next]_vars

-----------------------------------------------------------------------------
(* Properties *)

TypeOK ==
  /\ up \in BOOLEAN
  /\ {project.version, file.version} \subseteq Version \cup {-1}
  /\ \A d \in Device : aws.device[d] \in [enabled : BOOLEAN, pin : 0 .. PinModulus - 1, high : BOOLEAN]
  /\ aws.time \in [Duration -> -Half .. Half - 1]
  /\ live \in [Device -> BOOLEAN]
  /\ up \/ ~hasProject

(* Two configurations that water alike; what a disabled device would be    *)
(* driven with is unused.                                                  *)
SameJob(c, e) ==
  /\ c.time = e.time /\ c.name = e.name
  /\ \A d \in Device : IF e.device[d].enabled THEN c.device[d] = e.device[d]
                                              ELSE ~c.device[d].enabled

\* Both outputs are there after a load of c from the configuration b, unless
\* it puts a device on a pin that the other one holds at that moment.
PinsAreFree(c, b) ==
  LET first == IF c.device["waterValve"].enabled THEN c.device["waterValve"].pin
                                                 ELSE b.device["waterValve"].pin
  IN  /\ c.device["waterValve"].enabled => c.device["waterValve"].pin # b.device["waterPump"].pin
      /\ c.device["waterPump"].enabled => c.device["waterPump"].pin # first

HasOutputs(l) == \A d \in Device : l[d]

DoesTheJob(c, b, l) ==
  SameJob(aws', c) /\ (PinsAreFree(c, b) /\ HasOutputs(l) => HasOutputs(live'))

(* What the code takes a flow for what it says: its polarities are spelled *)
(* "Active High" or "Active Low", and no duration is 2^63 or above, which  *)
(* becomes a negative one.                                                 *)
DevicesOf(node) ==
  IF Moves(node) THEN AWSOf(node).objects["flow"].objectArrays["devices"] ELSE <<>>

IsUnderstood(node, c) ==
  /\ \A i \in DOMAIN DevicesOf(node) :
       ValueAt(DevicesOf(node)[i], "activationState") \in {"Active High", "Active Low"}
  /\ \A t \in Duration : c.time[t] < Half

(* A project that is loaded, by a command or at a start, is the job that   *)
(* is done: what a 1.2 file says, or a 1.1 file, all of whose devices are  *)
(* active-low; and a file that says nothing, or nothing valid, changes     *)
(* nothing.  Exceptions: a flow that is not understood, and pins that are  *)
(* not free, on which a device loses its output.                           *)
LoadedAsMeant ==
  [][up' /\ origin'.author = "operator" /\ project' # project =>
       LET before  == IF up THEN aws ELSE Default
           outputs == IF up THEN live ELSE AllOutputs
       IN  IF origin'.means = {}
             THEN aws' = before /\ live' = outputs
             ELSE \E c \in origin'.means :
                    IsUnderstood(project'.node, c) => DoesTheJob(c, before, outputs)]_vars

(* An object that keeps something when it is read: all of its members may  *)
(* not be empty arrays, and the same holds for the objects in it.          *)
IsEmptyArray(j) == IsArray(j) /\ j[2] = <<>>
IsSolid(o) == \A x \in {o} \cup Within(o) : \E k \in DOMAIN x : ~IsEmptyArray(x[k])
AreSolid(members) == \A o \in Inside(members) : IsSolid(o)

(* The watering system's data is in the file: an array of objects that the *)
(* author put under its key is written over it.                            *)
HasSystem(f) ==
  LET key == "automaticWateringSystem"
  IN  key \in DOMAIN f.members /\ IsObject(f.members[key])

(* What a save wrote, a start reads back: every value with its type, the   *)
(* name, the polarities, the durations; and the devices have their outputs *)
(* if the pins are free of the default ones.  Exceptions: a negative       *)
(* duration, an empty object in the file, an array in the system's place.  *)
SavedIsRestored ==
  [][~up /\ up' /\ origin.author = "save" /\ AreSolid(foreign) /\ HasSystem(file) =>
       \E c \in origin.means :
         (\A t \in Duration : c.time[t] >= 0) => DoesTheJob(c, Default, AllOutputs)]_vars

(* A start can read what a save wrote, and neither the upgrade nor the     *)
(* watering system throws on it, whatever other things the file holds that *)
(* are not empty objects.                                                  *)
SavedCanBeLoaded ==
  origin.author = "save" /\ AreSolid(foreign) /\ HasSystem(file) =>
    IsReadable(file) /\ ~Terminates(file)

(* A value whose text the reader and the writer keep: it has no empty      *)
(* object or array, no array of objects and other values, no null and no   *)
(* array in an array, at any depth.                                        *)
IsPlain(j) ==
  /\ ~IsEmptyArray(j)
  /\ \A v, w \in Elements(j) : IsObject(v) <=> IsObject(w)
  /\ \A v \in Elements(j) : ~IsArray(v) /\ v # Null

ArePlain(members) == members # Nothing /\ \A k \in DOMAIN members : IsPlain(members[k])
IsWhole(o) == \A x \in {o} \cup Within(o) : ArePlain(x)
WillBeKept(j) == IsPlain(j) /\ \A o \in ObjectsIn(j) : IsWhole(o)

(* Whatever else a project file has in it, any number of loads, upgrades,  *)
(* saves and starts leave, value for value and type for type, and they add *)
(* nothing.  Of an array with objects the other values are lost, an empty  *)
(* array is lost, and an empty object becomes null.                        *)
OthersAreKept ==
  origin.author # "nobody" =>
    LET others == Others(file.members)
    IN  /\ DOMAIN others \subseteq DOMAIN foreign
        /\ \A k \in DOMAIN foreign :
             WillBeKept(foreign[k]) => k \in DOMAIN others /\ others[k] = foreign[k]

-----------------------------------------------------------------------------
(* What the documentation states and the code does not do *)

(* project-command.md:46: "the next time the application is launched, the  *)
(* last used project will be automatically loaded".  The start after a     *)
(* save does the job that was saved, with the outputs it was done with.    *)
LastJobIsBack ==
  [][~up /\ up' /\ origin.author = "save" =>
       (\E c \in origin.means : SameJob(aws', c)) /\ HasOutputs(live')]_vars

=============================================================================
