----------------------- MODULE ProjectLifecycleProofs -----------------------
(***************************************************************************)
(* Proofs about ProjectLifecycle, for every set of paths, pins, edits and  *)
(* faults: its type invariant; that a project which is replaced by another *)
(* one has been saved; that a start restores the job the last exit saved;  *)
(* and that a load applies the flow it read, with its outputs if the pins  *)
(* are free.                                                               *)
(***************************************************************************)
EXTENDS ProjectLifecycle, TLAPS

Saving == {"open_writer", "open_config", "close_config", "close_writer"}

\* A project is saved only while there is one; create and load are under way
\* only where they can be, and about a path.
ControlOK ==
  /\ pc \in Saving => hasProject
  /\ op \in {"create", "load"} => pc \in Saving \cup {"switch", "read", "apply"}
  /\ pc = "read" \/ op \in {"create", "load"} => target \in Path

\* The config file has been written before the project file is.
ConfigNamesIt == pc = "close_writer" /\ "config" \notin failed => config = path

\* Between the save and the replacement nothing changes.
OldIsSaved ==
  pc \in {"switch", "read"} /\ op \in {"create", "load"} /\ hasProject /\ failed = {}
    => file[path] = Saved(FlowOf(aws)) /\ config = path

\* Two outputs that are there are on two pins.
Apart(c) == c["valve"].live /\ c["pump"].live => c["valve"].pin # c["pump"].pin

\* A start meets the outputs as they were built, a save's end both of them.
OutputsOK ==
  /\ Apart(aws)
  /\ op = "startup" => pc \in {"config", "read", "apply"} /\ aws = DefaultOutputs
  /\ pc \in {"close_config", "close_writer"} => \A d \in Device : aws[d].live

\* The inductive invariant.
IInv == TypeOK /\ ControlOK /\ ConfigNamesIt /\ OldIsSaved /\ OutputsOK

-----------------------------------------------------------------------------

\* What the model puts where a file was is a file (saveToProject and the
\* integrity fixes give a project that can be read again).
LEMMA FilesAreFiles ==
  /\ \A k \in Kind : A(k) \in File
  /\ \A f \in Flow : Saved(f) \in File
  /\ \A f \in File : IntegrityFixes(f) \in File
  /\ DefaultFlow \in Flow /\ DefaultOutputs \in Outputs
<1>1. DefaultFlow \in Flow
  BY PinAssumption DEF DefaultFlow, Flow
<1>5. DefaultOutputs \in Outputs
  BY PinAssumption DEF DefaultOutputs, Outputs
<1>2. ASSUME NEW k \in Kind PROVE A(k) \in File
  BY <1>1 DEF A, File
<1>3. ASSUME NEW f \in Flow PROVE Saved(f) \in File
  BY DEF Saved, File, Kind
<1>4. ASSUME NEW f \in File PROVE IntegrityFixes(f) \in File
  <2>1. "no_flow" \in Kind
    BY DEF Kind
  <2> QED BY <1>2, <2>1 DEF IntegrityFixes
<1> QED BY <1>1, <1>2, <1>3, <1>4, <1>5

\* A moved output is on the new pin, and there if that was free; the other one
\* is where it was (change_digital_out, requestDigitalPin).
LEMMA MovedOutput ==
  ASSUME NEW c \in Outputs, NEW d \in Device, NEW n \in Pin
  PROVE  /\ Moved(c, d, n) \in Outputs
         /\ Moved(c, d, n)[d].enabled = c[d].enabled
         /\ Moved(c, d, n)[d].pin = n
         /\ Moved(c, d, n)[d].live = Free(c, d, n)
         /\ Moved(c, d, n)[Other(d)] = c[Other(d)]
         /\ Other(d) \in Device /\ Other(d) # d
<1>1. Other(d) \in Device /\ Other(d) # d
  BY DEF Other, Device
<1>2. Free(c, d, n) \in BOOLEAN
  BY <1>1 DEF Free, Outputs
<1>3. c \in [Device -> [enabled : BOOLEAN, pin : Pin, live : BOOLEAN]]
  BY DEF Outputs
<1>4. Moved(c, d, n)
        = [c EXCEPT ![d] = [enabled |-> c[d].enabled, pin |-> n, live |-> Free(c, d, n)]]
  BY <1>3, Zenon DEF Moved
<1> HIDE DEF Free
<1>5. Moved(c, d, n)[d] = [enabled |-> c[d].enabled, pin |-> n, live |-> Free(c, d, n)]
  BY <1>3, <1>4
<1>6. Moved(c, d, n) \in Outputs
  BY <1>2, <1>3, <1>4 DEF Outputs
<1>7. Moved(c, d, n)[Other(d)] = c[Other(d)]
  BY <1>1, <1>3, <1>4
<1> QED BY <1>1, <1>5, <1>6, <1>7

\* The same for a move that is made if the flow enables the device.
LEMMA MovedIfEnabledOutput ==
  ASSUME NEW f \in Flow, NEW c \in Outputs, NEW d \in Device,
         c[d].enabled = f[d].enabled
  PROVE  /\ MovedIfEnabled(f, c, d) \in Outputs
         /\ MovedIfEnabled(f, c, d)[d].enabled = f[d].enabled
         /\ f[d].enabled => /\ MovedIfEnabled(f, c, d)[d].pin = f[d].pin
                            /\ MovedIfEnabled(f, c, d)[d].live = Free(c, d, f[d].pin)
         /\ ~f[d].enabled => MovedIfEnabled(f, c, d)[d] = c[d]
         /\ MovedIfEnabled(f, c, d)[Other(d)] = c[Other(d)]
<1>1. f[d].pin \in Pin
  BY DEF Flow
<1>2. CASE f[d].enabled
  <2>1. MovedIfEnabled(f, c, d) = Moved(c, d, f[d].pin)
    BY <1>2 DEF MovedIfEnabled
  <2>2. /\ Moved(c, d, f[d].pin) \in Outputs
        /\ Moved(c, d, f[d].pin)[d].enabled = c[d].enabled
        /\ Moved(c, d, f[d].pin)[d].pin = f[d].pin
        /\ Moved(c, d, f[d].pin)[d].live = Free(c, d, f[d].pin)
        /\ Moved(c, d, f[d].pin)[Other(d)] = c[Other(d)]
    BY <1>1, MovedOutput, Zenon
  <2> QED BY <2>1, <2>2, <1>2, Zenon
<1>3. CASE ~f[d].enabled
  BY <1>3 DEF MovedIfEnabled
<1> QED BY <1>2, <1>3

\* What the flags are stored in, and nothing else.
LEMMA FlaggedOutputs ==
  ASSUME NEW f \in Flow, NEW c \in Outputs
  PROVE  /\ Flagged(f, c) \in Outputs
         /\ \A d \in Device : /\ Flagged(f, c)[d].enabled = f[d].enabled
                              /\ Flagged(f, c)[d].pin = c[d].pin
                              /\ Flagged(f, c)[d].live = c[d].live
<1>1. \A d \in Device : [c[d] EXCEPT !.enabled = f[d].enabled]
                       = [enabled |-> f[d].enabled, pin |-> c[d].pin, live |-> c[d].live]
  BY DEF Outputs
<1>2. Flagged(f, c) = [d \in Device |->
         [enabled |-> f[d].enabled, pin |-> c[d].pin, live |-> c[d].live]]
  BY <1>1, Zenon DEF Flagged
<1> QED BY <1>2 DEF Outputs, Flow

\* What loadConfigFromProject leaves: the flags and the pins of the flow where
\* it enables a device, their outputs if they are free, and two pins.
LEMMA AppliedOutputs ==
  ASSUME NEW f \in Flow, NEW c \in Outputs
  PROVE  /\ Applied(f, c) \in Outputs
         /\ SameJob(Applied(f, c), f)
         /\ ~MoveMeetsNull(f, c) /\ PinsAreFree(f, c) => HasOutputs(Applied(f, c))
         /\ Apart(c) => Apart(Applied(f, c))
<1>d. "valve" \in Device /\ "pump" \in Device /\ Other("valve") = "pump"
      /\ Other("pump") = "valve" /\ Device = {"valve", "pump"}
  BY DEF Device, Other
<1> DEFINE a == Flagged(f, c)
           b == MovedIfEnabled(f, a, "valve")
<1>0. Applied(f, c) = MovedIfEnabled(f, b, "pump")
  BY DEF Applied
<1>1. a \in Outputs /\ \A d \in Device : /\ a[d].enabled = f[d].enabled
                                        /\ a[d].pin = c[d].pin
                                        /\ a[d].live = c[d].live
  BY FlaggedOutputs
<1> HIDE DEF a
<1>2. /\ b \in Outputs
      /\ b["valve"].enabled = f["valve"].enabled
      /\ f["valve"].enabled => /\ b["valve"].pin = f["valve"].pin
                               /\ b["valve"].live = Free(a, "valve", f["valve"].pin)
      /\ ~f["valve"].enabled => b["valve"] = a["valve"]
      /\ b["pump"] = a["pump"]
  BY <1>1, <1>d, MovedIfEnabledOutput
<1> HIDE DEF b
<1> DEFINE r == Applied(f, c)
<1>3. /\ r \in Outputs
      /\ r["pump"].enabled = f["pump"].enabled
      /\ f["pump"].enabled => /\ r["pump"].pin = f["pump"].pin
                              /\ r["pump"].live = Free(b, "pump", f["pump"].pin)
      /\ ~f["pump"].enabled => r["pump"] = b["pump"]
      /\ r["valve"] = b["valve"]
  BY <1>0, <1>1, <1>2, <1>d, MovedIfEnabledOutput
<1>4. /\ Free(a, "valve", f["valve"].pin) = (a["pump"].live => a["pump"].pin # f["valve"].pin)
      /\ Free(b, "pump", f["pump"].pin) = (b["valve"].live => b["valve"].pin # f["pump"].pin)
  BY <1>d DEF Free
<1> HIDE DEF r
<1>v. /\ r["valve"].enabled = f["valve"].enabled
      /\ f["valve"].enabled => /\ r["valve"].pin = f["valve"].pin
                               /\ r["valve"].live = (c["pump"].live => c["pump"].pin # f["valve"].pin)
      /\ ~f["valve"].enabled => r["valve"].pin = c["valve"].pin /\ r["valve"].live = c["valve"].live
  BY <1>1, <1>2, <1>3, <1>4, <1>d
<1>p. /\ r["pump"].enabled = f["pump"].enabled
      /\ f["pump"].enabled => /\ r["pump"].pin = f["pump"].pin
                              /\ r["pump"].live = (r["valve"].live => r["valve"].pin # f["pump"].pin)
      /\ ~f["pump"].enabled => r["pump"].pin = c["pump"].pin /\ r["pump"].live = c["pump"].live
  BY <1>1, <1>2, <1>3, <1>4, <1>d
<1>5. SameJob(r, f)
  BY <1>v, <1>p, <1>d DEF SameJob
<1>6. ASSUME ~MoveMeetsNull(f, c), PinsAreFree(f, c) PROVE HasOutputs(r)
  <2>1. \A d \in Device : f[d].enabled => c[d].live
    BY <1>6 DEF MoveMeetsNull
  <2>2. r["valve"].enabled => r["valve"].live
    BY <1>6, <1>v, <1>d, <2>1 DEF PinsAreFree
  <2>3. r["pump"].enabled => r["pump"].live
    BY <1>6, <1>v, <1>p, <1>d, <2>1 DEF PinsAreFree
  <2> QED BY <2>2, <2>3, <1>d DEF HasOutputs
<1>7. Apart(c) => Apart(r)
  BY <1>v, <1>p DEF Apart
<1> QED BY <1>3, <1>5, <1>6, <1>7 DEF r

\* What a save writes is a flow.
LEMMA FlowOfOutputs == \A c \in Outputs : FlowOf(c) \in Flow
  BY DEF FlowOf, Flow, Outputs

\* Every step of the program or its environment keeps the types (one step of
\* the proof per action); that a save is of a project's file is needed where
\* it writes the path into the config file, and a load's target where it reads.
LEMMA TypeStep == ASSUME TypeOK, ControlOK, [Next]_vars PROVE TypeOK'
<1> USE DEF TypeOK, PC, Command, process, disk
<1>k. A("torn") \in File /\ A("absent") \in File /\ "flow" \in Kind
  BY FilesAreFiles DEF Kind
<1>0. CASE UNCHANGED vars
  BY <1>0 DEF vars
<1>1. CASE Configure
  <2>1. ASSUME NEW d \in Device, NEW b \in BOOLEAN, aws' = [aws EXCEPT ![d].enabled = b]
        PROVE  aws' \in Outputs
    BY <2>1 DEF Outputs
  <2>2. ASSUME NEW d \in Device, NEW n \in Typed[d], aws' = Moved(aws, d, n)
        PROVE  aws' \in Outputs
    BY <2>2, MovedOutput, PinAssumption
  <2>3. aws' \in Outputs
    BY <1>1, <2>1, <2>2 DEF Configure
  <2> QED BY <1>1, <2>3 DEF Configure
<1>2. CASE StartStop
  BY <1>2 DEF StartStop
<1>3. CASE Create
  BY <1>3 DEF Create, SaveThen
<1>4. CASE Load
  BY <1>4 DEF Load, SaveThen
<1>5. CASE Exit
  BY <1>5 DEF Exit, SaveThen
<1>6. CASE Save
  BY <1>6 DEF Save, SaveThen
<1>7. CASE SaveTo
  BY <1>7 DEF SaveTo
<1>8. CASE OpenWriter
  BY <1>8, <1>k DEF OpenWriter
<1>9. CASE NoDirectory
  BY <1>9, <1>k DEF NoDirectory, Terminate, Finish
<1>10. CASE OpenConfig
  BY <1>10 DEF OpenConfig
<1>11. CASE CloseConfig
  BY <1>11 DEF CloseConfig, ControlOK, Saving, hasProject
<1>12. CASE CloseWriter
  <2>1. FlowOf(aws) \in Flow
    BY FlowOfOutputs
  <2>2. Saved(FlowOf(aws)) \in File
    BY <2>1, FilesAreFiles
  <2> QED BY <1>12, <1>k, <2>1, <2>2 DEF CloseWriter, Finish
<1>13. CASE Switch
  BY <1>13, <1>k DEF Switch, Finish
<1>14. CASE ReadProject
  <2>1. target \in Path
    BY <1>14 DEF ReadProject, ControlOK
  <2>2. node' \in File
    BY <1>14, <2>1, FilesAreFiles DEF ReadProject
  <2> QED BY <1>14, <2>1, <2>2 DEF ReadProject
<1>15. CASE ReadFails
  BY <1>15, <1>k DEF ReadFails, Finish
<1>16. CASE ReadThrows
  BY <1>16, <1>k DEF ReadThrows, Terminate, Finish
<1>17. CASE Apply
  BY <1>17, <1>k, AppliedOutputs DEF Apply, Finish, File
<1>18. CASE ApplyThrows
  BY <1>18, <1>k, AppliedOutputs DEF ApplyThrows, Terminate, Finish, File
<1>19. CASE Restart
  BY <1>19, FilesAreFiles DEF Restart
<1>20. CASE CachedProject
  BY <1>20 DEF CachedProject
<1>21. CASE NoCachedProject
  BY <1>21, <1>k DEF NoCachedProject, Finish
<1>22. CASE Edit
  BY <1>22, EditsAssumption DEF Edit
<1>23. CASE Crash
  BY <1>23, <1>k DEF Crash, Finish
<1>24. CASE NullUsed
  BY <1>24, <1>k DEF NullUsed, Terminate, Finish
<1>25. CASE LineRefused
  BY <1>25, <1>k DEF LineRefused, Terminate, Finish
<1> QED
  BY <1>0, <1>1, <1>2, <1>3, <1>4, <1>5, <1>6, <1>7, <1>8, <1>9, <1>10, <1>11,
     <1>12, <1>13, <1>14, <1>15, <1>16, <1>17, <1>18, <1>19, <1>20, <1>21,
     <1>22, <1>23, <1>24, <1>25 DEF Next

\* Every step keeps the rest of the invariant: one step of the proof per
\* action, and one per conjunct where an action disturbs more than the control.
LEMMA LifecycleStep ==
  ASSUME IInv, [Next]_vars
  PROVE  ControlOK' /\ ConfigNamesIt' /\ OldIsSaved'
<1> USE DEF IInv, ControlOK, ConfigNamesIt, OldIsSaved, Saving, hasProject,
            process, disk
<1>0. CASE UNCHANGED vars
  BY <1>0 DEF vars
<1>1. CASE Configure
  BY <1>1 DEF Configure
<1>2. CASE StartStop
  BY <1>2 DEF StartStop
<1>3. CASE Create
  BY <1>3 DEF Create, SaveThen
<1>4. CASE Load
  BY <1>4 DEF Load, SaveThen
<1>5. CASE Exit
  BY <1>5 DEF Exit, SaveThen
<1>6. CASE Save
  BY <1>6 DEF Save, SaveThen
<1>7. CASE SaveTo
  BY <1>7, PathAssumption DEF SaveTo
<1>8. CASE OpenWriter
  BY <1>8 DEF OpenWriter
<1>9. CASE NoDirectory
  BY <1>9 DEF NoDirectory, Terminate, Finish
<1>10. CASE OpenConfig
  BY <1>10 DEF OpenConfig
<1>11. CASE CloseConfig
  BY <1>11 DEF CloseConfig
<1>12. CASE CloseWriter
  <2>1. ControlOK' /\ ConfigNamesIt'
    BY <1>12 DEF CloseWriter, Finish
  <2>2. OldIsSaved'
    <3>1. CASE op \in {"create", "load"} /\ failed = {}
      <4>1. file' = [file EXCEPT ![path] = Saved(FlowOf(aws))]
             /\ UNCHANGED <<config, path, aws>>
        BY <1>12, <3>1 DEF CloseWriter
      <4>2. path \in Path /\ file \in [Path -> File]
        BY <1>12 DEF CloseWriter, TypeOK
      <4>3. file'[path'] = Saved(FlowOf(aws'))
        BY <4>1, <4>2, Zenon DEF Saved, FlowOf
      <4>4. config' = path'
        BY <1>12, <3>1, <4>1 DEF CloseWriter
      <4> QED BY <4>3, <4>4
    <3>2. CASE op \in {"create", "load"} /\ failed # {}
      BY <1>12, <3>2 DEF CloseWriter
    <3>3. CASE op \notin {"create", "load"}
      BY <1>12, <3>3 DEF CloseWriter, Finish
    <3> QED BY <3>1, <3>2, <3>3
  <2> QED BY <2>1, <2>2
<1>13. CASE Switch
  BY <1>13 DEF Switch, Finish
<1>14. CASE ReadProject
  BY <1>14 DEF ReadProject
<1>15. CASE ReadFails
  BY <1>15 DEF ReadFails, Finish
<1>16. CASE ReadThrows
  BY <1>16 DEF ReadThrows, Terminate, Finish
<1>17. CASE Apply
  BY <1>17 DEF Apply, Finish
<1>18. CASE ApplyThrows
  BY <1>18 DEF ApplyThrows, Terminate, Finish
<1>19. CASE Restart
  BY <1>19 DEF Restart
<1>20. CASE CachedProject
  BY <1>20 DEF CachedProject
<1>21. CASE NoCachedProject
  BY <1>21 DEF NoCachedProject, Finish
<1>22. CASE Edit
  BY <1>22 DEF Edit
<1>23. CASE Crash
  BY <1>23 DEF Crash, Finish
<1>24. CASE NullUsed
  BY <1>24 DEF NullUsed, Terminate, Finish
<1>25. CASE LineRefused
  BY <1>25 DEF LineRefused, Terminate, Finish
<1> QED
  BY <1>0, <1>1, <1>2, <1>3, <1>4, <1>5, <1>6, <1>7, <1>8, <1>9, <1>10, <1>11,
     <1>12, <1>13, <1>14, <1>15, <1>16, <1>17, <1>18, <1>19, <1>20, <1>21,
     <1>22, <1>23, <1>24, <1>25 DEF Next

\* Every step keeps the outputs apart, and both of them where they are needed.
LEMMA OutputsStep == ASSUME IInv, [Next]_vars PROVE OutputsOK'
<1> USE DEF IInv, OutputsOK, Apart, process, disk
<1>d. "valve" \in Device /\ "pump" \in Device /\ Device = {"valve", "pump"}
      /\ Other("valve") = "pump" /\ Other("pump") = "valve"
  BY DEF Device, Other
<1>a. aws \in Outputs
  BY DEF TypeOK
<1>0. CASE UNCHANGED vars
  BY <1>0 DEF vars
<1>1. CASE Configure
  <2>1. pc' = "ready" /\ op' = op
    BY <1>1 DEF Configure
  <2>2. ASSUME NEW d \in Device, NEW b \in BOOLEAN, aws' = [aws EXCEPT ![d].enabled = b]
        PROVE  Apart(aws')
    BY <2>2, <1>a, <1>d DEF Outputs
  <2>3. ASSUME NEW d \in Device, NEW n \in Typed[d], aws' = Moved(aws, d, n)
        PROVE  Apart(aws')
    <3>1. n \in Pin
      BY PinAssumption
    <3>2. /\ Moved(aws, d, n)[d].pin = n /\ Moved(aws, d, n)[d].live = Free(aws, d, n)
          /\ Moved(aws, d, n)[Other(d)] = aws[Other(d)]
      BY <3>1, <1>a, MovedOutput
    <3> QED BY <2>3, <3>2, <1>d DEF Free
  <2>4. Apart(aws')
    BY <1>1, <2>2, <2>3 DEF Configure
  <2> QED BY <1>1, <2>1, <2>4 DEF Configure
<1>2. CASE StartStop \/ Edit
  BY <1>2 DEF StartStop, Edit
<1>3. CASE Create \/ Load \/ Exit \/ Save
  BY <1>3 DEF Create, Load, Exit, Save, SaveThen
<1>4. CASE SaveTo
  BY <1>4 DEF SaveTo
<1>5. CASE OpenWriter
  BY <1>5 DEF OpenWriter
<1>6. CASE OpenConfig
  BY <1>6 DEF OpenConfig
<1>7. CASE CloseConfig
  BY <1>7 DEF CloseConfig
<1>8. CASE CloseWriter
  BY <1>8 DEF CloseWriter, Finish
<1>9. CASE Switch \/ ReadFails \/ NoCachedProject
  BY <1>9 DEF Switch, ReadFails, NoCachedProject, Finish
<1>10. CASE ReadProject
  BY <1>10 DEF ReadProject
<1>11. CASE NoDirectory \/ ReadThrows \/ NullUsed \/ LineRefused
  BY <1>11 DEF NoDirectory, ReadThrows, NullUsed, LineRefused, Terminate, Finish
<1>12. CASE Apply
  <2>1. node.flow \in Flow
    BY DEF TypeOK, File
  <2>2. Apart(aws')
    BY <1>12, <1>a, <2>1, AppliedOutputs DEF Apply
  <2> QED BY <1>12, <2>2 DEF Apply, Finish
<1>13. CASE ApplyThrows
  <2>1. node.flow \in Flow
    BY DEF TypeOK, File
  <2>2. Apart(aws')
    BY <1>13, <1>a, <2>1, AppliedOutputs DEF ApplyThrows, Terminate
  <2> QED BY <1>13, <2>2 DEF ApplyThrows, Terminate, Finish
<1>14. CASE Restart
  BY <1>14, <1>d, PinAssumption DEF Restart, DefaultOutputs
<1>15. CASE CachedProject
  BY <1>15 DEF CachedProject
<1>16. CASE Crash
  BY <1>16 DEF Crash, Finish
<1> QED
  BY <1>0, <1>1, <1>2, <1>3, <1>4, <1>5, <1>6, <1>7, <1>8, <1>9, <1>10, <1>11,
     <1>12, <1>13, <1>14, <1>15, <1>16 DEF Next

\* The strengthening of TypeOK is an invariant.
THEOREM Invariance == Spec => []IInv
<1>1. Init => IInv
  <2>1. Init => TypeOK
    BY FilesAreFiles DEF Init, TypeOK, PC, Kind
  <2>2. Init => ControlOK /\ ConfigNamesIt /\ OldIsSaved
    BY DEF Init, ControlOK, ConfigNamesIt, OldIsSaved, Saving
  <2>3. Init => OutputsOK
    BY PinAssumption DEF Init, OutputsOK, Apart, DefaultOutputs, Device
  <2> QED BY <2>1, <2>2, <2>3 DEF IInv
<1>2. IInv /\ [Next]_vars => IInv'
  BY TypeStep, LifecycleStep, OutputsStep DEF IInv
<1> QED BY <1>1, <1>2, PTL DEF Spec

\* Type correctness of the project files, the config file and the process
\* (project-controller.hpp, commands-factory.cpp).
THEOREM TypeCorrect == Spec => []TypeOK
<1>1. IInv => TypeOK
  BY DEF IInv
<1> QED BY <1>1, Invariance, PTL

\* A project that is replaced by another one has been saved as it was, and is
\* the last used project (commands-factory.cpp's create and load handlers).
THEOREM OldProjectIsSaved == Spec => ClosedProjectIsSaved
<1>1. ASSUME IInv, [Next]_vars
      PROVE  [hasProject /\ path' # path /\ op \in {"create", "load"} /\ failed = {}
                => file[path] = Saved(FlowOf(aws)) /\ config = path]_vars
  <2> SUFFICES ASSUME Next, hasProject, path' # path, op \in {"create", "load"},
                      failed = {}
               PROVE  file[path] = Saved(FlowOf(aws)) /\ config = path
    BY <1>1
  <2> USE DEF IInv, ControlOK, Saving
  <2>1. CASE pc \in {"switch", "read"}
    BY <1>1, <2>1 DEF OldIsSaved
  <2>2. CASE pc \notin {"switch", "read"}
    <3>1. pc \in Saving \cup {"apply"}
      BY <1>1, <2>2
    <3>2. path' = path
      BY <1>1, <3>1 DEF Next, Configure, StartStop, Create, Load, Save, Exit,
         SaveThen, SaveTo, OpenWriter, NoDirectory, OpenConfig, CloseConfig,
         CloseWriter, Switch, ReadProject, ReadFails, ReadThrows, Apply,
         ApplyThrows, NullUsed, LineRefused, Terminate, Restart, CachedProject,
         NoCachedProject, Edit, Crash, process
    <3> QED BY <3>2
  <2> QED BY <2>1, <2>2
<1> QED BY <1>1, Invariance, PTL DEF Spec, ClosedProjectIsSaved

-----------------------------------------------------------------------------
(* A restart, and a load *)

\* What a save left is what reading it gives.
LEMMA SavedIsRead ==
  ASSUME NEW f \in Flow
  PROVE  /\ Saved(f).kind = "flow" /\ Saved(f).flow = f
         /\ IntegrityFixes(Saved(f)) = Saved(f)
<1>1. Saved(f).kind = "flow" /\ Saved(f).flow = f /\ Saved(f).titled
  BY DEF Saved
<1> QED BY <1>1 DEF IntegrityFixes

\* From an exit whose save succeeded to the end of a start that comes to one,
\* the config file names the file that has the saved flow, the start is on its
\* way to it, and the flow's pins are two.
KeptInv ==
  \A f \in kept :
    /\ pc \in {"down", "terminated", "config", "read", "apply"}
    /\ pc \notin {"down", "terminated"} => op = "startup"
    /\ config \in Path /\ file[config] = Saved(f)
    /\ pc = "read" => target = config
    /\ pc = "apply" => node = Saved(f)
    /\ f["valve"].pin # f["pump"].pin

\* Every step keeps that: the exit's last step establishes it, and of the
\* other actions only those of a start leave something in kept.
LEMMA KeptStep == ASSUME IInv, KeptInv, [Next]_vars PROVE KeptInv'
<1> USE DEF KeptInv, process, disk
<1>k. \A f \in kept : f \in Flow
  BY DEF IInv, TypeOK
<1>0. CASE UNCHANGED vars
  BY <1>0 DEF vars
<1>1. CASE Configure \/ StartStop \/ Create \/ Load \/ Exit \/ Save \/ SaveTo
  <2>1. pc = "ready" /\ kept' = kept
    BY <1>1 DEF Configure, StartStop, Create, Load, Exit, Save, SaveTo, SaveThen
  <2> QED BY <2>1
<1>2. CASE OpenWriter \/ NoDirectory \/ OpenConfig \/ CloseConfig \/ Switch
  <2>1. pc \in Saving \cup {"switch"} /\ kept' = kept
    BY <1>2 DEF OpenWriter, NoDirectory, OpenConfig, CloseConfig, Switch, Saving
  <2> QED BY <2>1 DEF Saving
<1>10. CASE NullUsed \/ LineRefused \/ Crash
  BY <1>10 DEF NullUsed, LineRefused, Crash, Terminate, Finish
<1>3. CASE CloseWriter
  <2>1. CASE op = "exit" /\ failed = {}
    <3>1. kept' = {FlowOf(aws)} /\ pc' = "down" /\ config' = config
          /\ file' = [file EXCEPT ![path] = Saved(FlowOf(aws))]
      BY <1>3, <2>1 DEF CloseWriter, Finish
    <3>2. config = path /\ path \in Path /\ file \in [Path -> File]
      BY <1>3, <2>1 DEF CloseWriter, IInv, TypeOK, ConfigNamesIt, ControlOK,
         Saving, hasProject
    <3>3. file'[config'] = Saved(FlowOf(aws))
      BY <3>1, <3>2
    <3>4. FlowOf(aws)["valve"].pin # FlowOf(aws)["pump"].pin
      BY <1>3 DEF CloseWriter, FlowOf, Device, IInv, OutputsOK, Apart
    <3> QED BY <3>1, <3>2, <3>3, <3>4
  <2>2. CASE op = "exit" /\ failed # {}
    BY <1>3, <2>2 DEF CloseWriter
  <2>3. CASE op # "exit"
    BY <1>3, <2>3 DEF CloseWriter
  <2> QED BY <2>1, <2>2, <2>3
<1>4. CASE ReadProject
  <2> SUFFICES ASSUME NEW f \in kept
               PROVE  /\ pc' = "apply" /\ op' = "startup"
                      /\ config' \in Path /\ file'[config'] = Saved(f)
                      /\ node' = Saved(f)
    BY <1>4 DEF ReadProject
  <2>1. node' = IntegrityFixes(file[config])
    BY <1>4 DEF ReadProject
  <2> QED BY <1>4, <1>k, <2>1, SavedIsRead DEF ReadProject
<1>5. CASE ReadThrows
  BY <1>5, <1>k, SavedIsRead DEF ReadThrows
<1>6. CASE ApplyThrows
  BY <1>6, <1>k, SavedIsRead DEF ApplyThrows, Throwing
<1>7. CASE ReadFails \/ Apply \/ NoCachedProject \/ Edit
  BY <1>7 DEF ReadFails, Apply, NoCachedProject, Edit
<1>8. CASE Restart
  BY <1>8 DEF Restart
<1>9. CASE CachedProject
  BY <1>9 DEF CachedProject
<1> QED
  BY <1>0, <1>1, <1>2, <1>3, <1>4, <1>5, <1>6, <1>7, <1>8, <1>9, <1>10 DEF Next

\* A start restores the job the last exit saved
\* (initial-project-loader.cpp's tryLoadCachedProject, entry-point.cpp).
THEOREM JobIsRestored == Spec => RestartRestoresJob
<1>1. Init => KeptInv
  BY DEF Init, KeptInv
<1>2. IInv /\ KeptInv /\ [Next]_vars => KeptInv'
  BY KeptStep
<1>3. ASSUME IInv, KeptInv, [Next]_vars
      PROVE  [op = "startup" /\ pc' = "ready"
                => \A f \in kept : /\ SameJob(aws', f)
                                   /\ FreeAtStart(f) => HasOutputs(aws')]_vars
  <2> SUFFICES ASSUME Next, op = "startup", pc' = "ready", NEW f \in kept
               PROVE  SameJob(aws', f) /\ (FreeAtStart(f) => HasOutputs(aws'))
    BY <1>3
  <2>1. f \in Flow /\ aws \in Outputs
    BY <1>3 DEF IInv, TypeOK
  <2>2. pc \in {"down", "terminated", "config", "read", "apply"}
    BY <1>3 DEF KeptInv
  <2>3. pc = "read" => file[target].kind = "flow"
    BY <1>3, <2>1, SavedIsRead DEF KeptInv
  <2>4. config \in Path /\ file[config].kind # "absent"
    BY <1>3, <2>1, SavedIsRead DEF KeptInv
  <2>5. Apply
    BY <2>2, <2>3, <2>4 DEF Next, Configure, StartStop, Create, Load, Exit, Save,
       SaveTo, SaveThen, OpenWriter, NoDirectory, OpenConfig, CloseConfig,
       CloseWriter, Switch, ReadProject, ReadFails, Unreadable, ReadThrows,
       ApplyThrows, NullUsed, LineRefused, Terminate, Finish, Restart,
       CachedProject, NoCachedProject, Edit, Crash, process
  <2>6. node = Saved(f)
    BY <1>3, <2>5 DEF KeptInv, Apply
  <2>7. aws' = Applied(f, aws) /\ ~MoveMeetsNull(f, aws)
    BY <2>1, <2>5, <2>6, SavedIsRead DEF Apply, Moves
  <2>8. aws = DefaultOutputs
    BY <1>3 DEF IInv, OutputsOK
  <2>9. FreeAtStart(f) => PinsAreFree(f, aws)
    <3>1. f["valve"].pin # f["pump"].pin
      BY <1>3 DEF KeptInv
    <3> QED BY <3>1, <2>8 DEF FreeAtStart, PinsAreFree, DefaultOutputs, Device
  <2> QED BY <2>1, <2>7, <2>9, AppliedOutputs
<1> QED BY <1>1, <1>2, <1>3, Invariance, PTL DEF Spec, RestartRestoresJob

\* Every file has a title (a save gives it one), and what a load has just read
\* is the file of the project that has become the current one.
ReadInv ==
  /\ \A p \in Path : file[p].titled
  /\ pc = "apply" => path \in Path /\ node = file[path]

\* Every step keeps that, if whoever edits a file gives it a title.
LEMMA ReadStep ==
  ASSUME \A f \in Edits : f.titled, IInv, ReadInv, [Next]_vars
  PROVE  ReadInv'
<1> USE DEF ReadInv, process, disk
<1>k. file \in [Path -> File] /\ A("torn").titled /\ Saved(FlowOf(aws)).titled
  BY DEF IInv, TypeOK, A, Saved
<1>0. CASE UNCHANGED vars
  BY <1>0 DEF vars
<1>1. CASE \/ Configure \/ StartStop \/ Create \/ Load \/ Exit \/ Save \/ SaveTo
  <2>1. file' = file /\ pc' # "apply"
    BY <1>1 DEF Configure, StartStop, Create, Load, Exit, Save, SaveTo, SaveThen
  <2> QED BY <2>1
<1>2. CASE OpenWriter
  BY <1>2, <1>k DEF OpenWriter
<1>3. CASE CloseWriter
  <2>1. pc' # "apply"
    BY <1>3 DEF CloseWriter, Finish
  <2>2. \A p \in Path : file'[p].titled
    BY <1>3, <1>k DEF CloseWriter
  <2> QED BY <2>1, <2>2
<1>4. CASE ReadProject
  <2>1. target \in Path
    BY <1>4 DEF ReadProject, IInv, ControlOK
  <2>2. file' = file /\ path' = target /\ node' = IntegrityFixes(file[target])
    BY <1>4 DEF ReadProject
  <2>3. node' = file[target]
    BY <2>1, <2>2 DEF IntegrityFixes
  <2> QED BY <2>1, <2>2, <2>3
<1>5. CASE Edit
  <2>1. pc' # "apply"
    BY <1>5 DEF Edit
  <2>2. \A p \in Path : file'[p].titled
    BY <1>5, <1>k DEF Edit
  <2> QED BY <2>1, <2>2
<1>6. CASE \/ NoDirectory \/ OpenConfig \/ CloseConfig \/ Switch \/ ReadFails
           \/ ReadThrows \/ Apply \/ ApplyThrows \/ NullUsed \/ LineRefused
           \/ Restart \/ CachedProject \/ NoCachedProject \/ Crash
  <2>1. file' = file /\ pc' # "apply"
    BY <1>6 DEF NoDirectory, OpenConfig, CloseConfig, Switch, ReadFails,
       ReadThrows, Apply, ApplyThrows, NullUsed, LineRefused, Terminate, Finish,
       Restart, CachedProject, NoCachedProject, Crash
  <2> QED BY <2>1
<1> QED BY <1>0, <1>1, <1>2, <1>3, <1>4, <1>5, <1>6 DEF Next

\* A valid project with a title that is loaded is the job that is done, with its
\* outputs if their pins were free
\* (commands-factory.cpp's load handler, loadConfigFromProject).
THEOREM LoadIsApplied ==
  ASSUME \A f \in Edits : f.titled
  PROVE  Spec => LoadedFlowIsApplied
<1>1. Init => ReadInv
  BY DEF Init, ReadInv, A
<1>2. IInv /\ ReadInv /\ [Next]_vars => ReadInv'
  BY ReadStep
<1>3. ASSUME IInv, ReadInv, [Next]_vars
      PROVE  [pc = "apply" /\ pc' = "ready" /\ file[path].kind = "flow"
                => /\ SameJob(aws', file[path].flow)
                   /\ PinsAreFree(file[path].flow, aws) => HasOutputs(aws')]_vars
  <2> SUFFICES ASSUME Next, pc = "apply", pc' = "ready", file[path].kind = "flow"
               PROVE  /\ SameJob(aws', file[path].flow)
                      /\ PinsAreFree(file[path].flow, aws) => HasOutputs(aws')
    BY <1>3
  <2>1. path \in Path /\ node = file[path] /\ aws \in Outputs /\ node \in File
    BY <1>3 DEF ReadInv, IInv, TypeOK
  <2>2. Apply
    BY <2>1 DEF Next, Configure, StartStop, Create, Load, Exit, Save, SaveTo,
       SaveThen, OpenWriter, NoDirectory, OpenConfig, CloseConfig, CloseWriter,
       Switch, ReadProject, ReadFails, ReadThrows, ApplyThrows, Throwing,
       NullUsed, LineRefused, Terminate, Restart, CachedProject,
       NoCachedProject, Edit, Crash, Finish
  <2>3. /\ aws' = Applied(node.flow, aws) /\ node.flow \in Flow
        /\ ~MoveMeetsNull(node.flow, aws)
    BY <2>1, <2>2 DEF Apply, Moves, File
  <2> QED BY <2>1, <2>3, AppliedOutputs
<1> QED BY <1>1, <1>2, <1>3, Invariance, PTL DEF Spec, LoadedFlowIsApplied

=============================================================================
