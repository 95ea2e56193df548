---------------------------- MODULE MCProjectData ----------------------------
(* The files an operator may write, for TLC.                               *)
EXTENDS ProjectTrees, TLC

Dev(e, p, h) == [enabled |-> e, pin |-> p, high |-> h]

Config(v, p, times, n) ==
  [device |-> [waterValve |-> v, waterPump |-> p],
   time |-> [activationTime |-> times[1], deactivationTime |-> times[2],
             deactivationSepTime |-> times[3]],
   name |-> n]

MCDefault == Config(Dev(TRUE, 0, FALSE), Dev(TRUE, 2, FALSE), <<1, 0, 0>>, "Unnamed-flow-1")
MCPinIds == [waterValve |-> {2}, waterPump |-> {}]

Num(n) == <<"number", n>>
Str(s) == <<"string", s>>
Obj(m) == <<"object", m>>
Arr(s) == <<"array", s>>

\* The members of a flow and of a device as project-management.md lists them.
FlowOf(c, devices) ==
  [t \in Duration |-> Num(c.time[t])] @@ devices

DeviceOf(name, d) ==
  Obj([name |-> Str(name), pinID |-> Num(d.pin), enabled |-> <<"bool", d.enabled>>,
       activationState |-> Str(IF d.high THEN "Active High" ELSE "Active Low")])

NewFlow(c) ==
  FlowOf(c, [devices |-> Arr(<<DeviceOf("waterPump", c.device["waterPump"]),
                               DeviceOf("waterValve", c.device["waterValve"])>>)])

OldFlow(c) ==
  FlowOf(c, [isWaterValveEnabled |-> <<"bool", c.device["waterValve"].enabled>>,
             isWaterPumpEnabled |-> <<"bool", c.device["waterPump"].enabled>>,
             valvePinID |-> Num(c.device["waterValve"].pin),
             pumpPinID |-> Num(c.device["waterPump"].pin)])

AWS(flow, more) == [automaticWateringSystem |-> Obj([flow |-> Obj(flow)] @@ more)]
Cycled == [mode |-> Str("cycled")]
Named(n) == Cycled @@ [name |-> Str(n)]

Doc(v, members, means) == [version |-> v, members |-> members, means |-> means]

c1 == Config(Dev(TRUE, 1, TRUE), Dev(FALSE, 3, FALSE), <<0, 3, 0>>, "day")
c2 == Config(Dev(FALSE, 1, FALSE), Dev(TRUE, 3, FALSE), <<0, 0, 3>>, "Unnamed-flow-1")
c3 == Config(Dev(TRUE, 1, FALSE), Dev(TRUE, 3, FALSE), <<0, 0, 3>>, "Unnamed-flow-1")

\* Things beside the watering system: of every type, nested, in arrays.
Beside ==
  [notes |-> Arr(<<Str("x"), Num(-1), <<"float", 0>>>>), site |-> Str("x"),
   lamps |-> Arr(<<Obj([pinID |-> Num(5)]), Obj([on |-> <<"bool", TRUE>>])>>),
   pond |-> Obj([depth |-> Num(2), fish |-> Obj([count |-> Num(1)])])]

Good == {Doc(120, AWS(NewFlow(c1), Named("day")) @@ Beside, {c1}),
         Doc(130, AWS(NewFlow(c2), Cycled), {c2}),
         Doc(110, AWS(OldFlow(c2), Cycled) @@ Beside, {c2}),
         Doc(0, AWS(OldFlow(c3), Cycled), {c3})}

\* A valid flow whose name is none: it is applied, the name stays, and the
\* exception ends a start.
Misnamed == {Doc(120, AWS(NewFlow(c2), Cycled @@ [name |-> Num(1)]),
                 {[c2 EXCEPT !.name = n] : n \in {"day", "Unnamed-flow-1"}})}

Devices(s) == [devices |-> Arr(s)]

\* Files that mean nothing to the watering system, or cannot be read; the
\* first has an array in the watering system's place.
Bad == {Doc(0, Beside @@ [automaticWateringSystem |-> Arr(<<Obj(Cycled)>>)], {}),
        Doc(120, AWS(NewFlow(c1), [mode |-> Str("x")]), {}),
        Doc(120, AWS(NewFlow(c1), <<>>), {}),
        Doc(120, AWS(FlowOf(c1, <<>>), Cycled), {}),
        Doc(120, AWS(FlowOf(c1, Devices(<<DeviceOf("lamp", Dev(TRUE, 1, FALSE))>>)), Cycled), {}),
        Doc(120, AWS([NewFlow(c1) EXCEPT !["activationTime"] = Num(-1)], Cycled), {}),
        Doc(110, AWS(NewFlow(c1), Cycled), {}),
        Doc(120, [x |-> Null], {})}

\* Things beside the watering system that are not written as they were read:
\* an object with nothing in it, or with what the reader keeps nothing of; an
\* empty array, and one with objects and other values.
EmptyObjects ==
  {Doc(120, AWS(NewFlow(c1), Named("day")) @@
            [pond |-> Obj(Nothing), lake |-> Obj([fish |-> Arr(<<>>)]), site |-> Str("x")], {c1})}

Arrays ==
  {Doc(120, AWS(NewFlow(c2), Cycled) @@
            [notes |-> Arr(<<>>), site |-> Str("x"),
             pond |-> Obj([fish |-> Arr(<<>>), depth |-> Num(2),
                           plants |-> Arr(<<Num(1), Obj([count |-> Num(1)]), Str("x")>>)])], {c2})}

\* A duration of 2^63.
LongDuration ==
  LET c == [c2 EXCEPT !.time["activationTime"] = Half]
  IN  {Doc(120, AWS(NewFlow(c), Cycled), {c})}

\* A valve whose polarity is spelled as project-management.md:30 has it.
AsDocumented ==
  LET valve == [name |-> Str("waterValve"), pinID |-> Num(1), enabled |-> <<"bool", TRUE>>,
                activationState |-> Str("active-high")]
      c == [c1 EXCEPT !.device["waterPump"].pin = 2]
  IN  {Doc(120, AWS(FlowOf(c, Devices(<<Obj(valve)>>)), Named("day")), {c})}

\* The devices on each other's pins, and on one.
SharedPins ==
  LET c(n) == Config(Dev(TRUE, 2, TRUE), Dev(TRUE, n, FALSE), <<0, 0, 3>>, "Unnamed-flow-1")
  IN  {Doc(120, AWS(NewFlow(c(n)), Cycled), {c(n)}) : n \in {0, 2}}

MCDocuments ==
  Good \cup Misnamed \cup Bad \cup EmptyObjects \cup Arrays \cup LongDuration
       \cup AsDocumented \cup SharedPins

\* The objects beside the watering systems, and their texts.
MCObject ==
  LET read == UNION {Inside(Others(d.members)) \cup UNION {WithinTree(o) : o \in Inside(Others(d.members))} :
                       d \in Documents}
  IN  read \cup {TreeMembers(ReadTree(o)) : o \in read}

=============================================================================
