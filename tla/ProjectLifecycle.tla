-------------------------- MODULE ProjectLifecycle --------------------------
(***************************************************************************)
(* Projects of rpi_gc: creating, saving and loading them, the files they   *)
(* are kept in, the application's config file that names the last one, and *)
(* the start and the end of the process, a crash included                  *)
(* (commands-factory.cpp, project-controller.cpp, project-loader.cpp,      *)
(* initial-project-loader.cpp, entry-point.cpp).                           *)
(*                                                                         *)
(* One command runs at a time.  A step of the model ends where a crash     *)
(* could leave something different on the disk.  Of a project's contents   *)
(* the model keeps what the properties tell apart: whether it has a title, *)
(* whether its watering node can be applied, and whether each device is    *)
(* enabled and on which pin (durations are copied whole).  Of the watering *)
(* system it keeps the devices' flags, pins and outputs, and whether it    *)
(* runs: its threads are the subject of DailyCycleAWS.  The build is a     *)
(* release build, in which no assertion catches an output that is missing. *)
(***************************************************************************)
CONSTANTS
  Path,         (* the project files; a title names the file title.json    *)
  NoPath,       (* the current file path while there is no project         *)
  Pin,          (* output pins                                             *)
  DefaultPin,   (* the pins the hardware controller is built with          *)
  Typed,        (* the pins an operator types for each device              *)
  Edits,        (* what somebody may put where a project file is           *)
  Faults        (* what may go wrong: see Fault                            *)

(* "refused": a file cannot be opened for writing.  "no_directory": the    *)
(* project's directory cannot be created.  "line": the kernel refuses a    *)
(* line.  "crash": the process is killed.                                  *)
Fault == {"refused", "no_directory", "line", "crash"}

Device == {"valve", "pump"}

Other(d) == IF d = "valve" THEN "pump" ELSE "valve"

(* What a project file says of the devices.                                *)
Flow == [Device -> [enabled : BOOLEAN, pin : Pin]]

(* The devices in memory: "live" is whether the pin of the (offset, pin)   *)
(* pair is there; it is null when the chip refused the offset.             *)
Outputs == [Device -> [enabled : BOOLEAN, pin : Pin, live : BOOLEAN]]

DefaultFlow == [d \in Device |-> [enabled |-> TRUE, pin |-> DefaultPin[d]]]

DefaultOutputs ==
  [d \in Device |-> [enabled |-> TRUE, pin |-> DefaultPin[d], live |-> TRUE]]

(* What is at a path, by what reading it gives.                            *)
(*   absent    nothing                                                     *)
(*   torn      truncated, empty or broken: the JSON parser rejects it      *)
(*   throws    reading it throws outside LoadProjectAndCheckIntegrity's    *)
(*             try block: a directory, or a 1.1 project without a flow     *)
(*   no_flow   a project without a watering flow                           *)
(*   no_mode   a watering node without a mode: getValue throws             *)
(*   rejected  a flow with an unknown device or an ill-typed value         *)
(*   bad_name  a flow, and a name that is not a string: getValue throws    *)
(*   flow      a well-formed flow, and a name that is a string or absent   *)
Kind == {"absent", "torn", "throws", "no_flow", "no_mode", "rejected",
         "bad_name", "flow"}

File == [kind : Kind, titled : BOOLEAN, flow : Flow]

ASSUME PathAssumption  == NoPath \notin Path
ASSUME NamesAssumption == {"absent", "torn", "none"} \cap (Path \cup {NoPath}) = {}
ASSUME PinAssumption   ==
  /\ DefaultPin \in [Device -> Pin] /\ DefaultPin["valve"] # DefaultPin["pump"]
  /\ Typed \in [Device -> SUBSET Pin]
ASSUME EditsAssumption == Edits \subseteq File
ASSUME FaultAssumption == Faults \subseteq Fault

VARIABLES
  (* the disk *)
  file,      (* file[p]: the project file at p                             *)
  config,    (* rpi_gc_config.json: "absent", "torn", "none" when it names *)
             (* no project, or the path it names                           *)
  (* the process *)
  pc,        (* where it is                                                *)
  op,        (* the command it executes, or "startup"                      *)
  target,    (* the path op is about                                       *)
  path,      (* m_currentProjectFilePath; NoPath without a project         *)
  aws,       (* the watering system's devices                              *)
  running,   (* the watering system runs                                   *)
  node,      (* the project just read, after its integrity fixes           *)
  failed,    (* the files the save in progress could not open              *)
  (* history *)
  kept       (* {the flow the last exit saved}, while nothing but starts   *)
             (* that came to no end have happened since; {} otherwise      *)

disk    == <<file, config>>
process == <<pc, op, target, path, aws, running, node, failed>>
vars    == <<disk, process, kept>>

Command == {"create", "save", "save_to", "load", "exit"}

PC == {"down", "terminated", "config", "read", "apply", "ready", "open_writer",
       "open_config", "close_config", "close_writer", "switch"}

A(kind) == [kind |-> kind, titled |-> TRUE, flow |-> DefaultFlow]

Init ==
  /\ file = [p \in Path |-> A("absent")]
  /\ config = "absent"
  /\ pc = "down" /\ op = "none" /\ target = NoPath
  /\ path = NoPath
  /\ aws = DefaultOutputs
  /\ node = A("absent")
  /\ running = FALSE
  /\ failed = {}
  /\ kept = {}

-----------------------------------------------------------------------------
(* Helpers *)

hasProject == path # NoPath

\* The command ends, at the terminal loop or with the process.
Finish(where) ==
  /\ pc' = where
  /\ op' = "none" /\ target' = NoPath
  /\ node' = A("absent") /\ failed' = {}

\* An exception leaves a noexcept function or main(): std::terminate.
Terminate ==
  /\ Finish("terminated")
  /\ running' = FALSE
  /\ UNCHANGED <<path, aws>>

SomeEnabled(c) == \E d \in Device : c[d].enabled

\* What saveToProject reads of the devices ...
FlowOf(c) == [d \in Device |-> [enabled |-> c[d].enabled, pin |-> c[d].pin]]

\* ... and what the JSON writer leaves of that in a file.
Saved(f) == [kind |-> "flow", titled |-> TRUE, flow |-> f]

\* LoadProjectAndCheckIntegrity returns no project for these ...
Unreadable == {"absent", "torn"}

\* loadConfigFromProject throws for these.
Throwing == {"no_mode", "bad_name"}

\* Mutant: a project that needs no fix loses its data too.
FixesDropData(f) == A("no_flow")

\* ... and applies the title fix, which keeps the creation time, the default
\* title and the version, and nothing else.
IntegrityFixes(f) == IF f.titled THEN f ELSE A("no_flow")

\* The chip grants an offset unless it has a request for it: the other's.
Free(c, d, n) == c[Other(d)].live => c[Other(d)].pin # n

\* change_digital_out: the own line is given back, the new one requested.
Moved(c, d, n) ==
  [c EXCEPT ![d] = [enabled |-> @.enabled, pin |-> n, live |-> Free(c, d, n)]]

\* The move of a device of a flow, which is made if the flow enables it.
MovedIfEnabled(f, c, d) == IF f[d].enabled THEN Moved(c, d, f[d].pin) ELSE c

\* Both flags are stored.
Flagged(f, c) == [d \in Device |-> [c[d] EXCEPT !.enabled = f[d].enabled]]

\* Mutant: a project that enables nothing is not looked at further.
AppliedIfEnabled(f, c) ==
  IF SomeEnabled(f)
    THEN MovedIfEnabled(f, MovedIfEnabled(f, Flagged(f, c), "valve"), "pump")
    ELSE c

\* Mutant: the pump's output is moved before the valve's.
AppliedPumpFirst(f, c) ==
  MovedIfEnabled(f, MovedIfEnabled(f, Flagged(f, c), "pump"), "valve")

\* loadConfigFromProject stores the flags and moves the outputs of the devices
\* the flow enables, the valve's first.
Applied(f, c) ==
  MovedIfEnabled(f, MovedIfEnabled(f, Flagged(f, c), "valve"), "pump")

\* It moves an output that is not there: a null pointer is used.
MoveMeetsNull(f, c) == \E d \in Device : f[d].enabled /\ ~c[d].live

-----------------------------------------------------------------------------
(* Commands at the terminal *)

\* auto-watering: a device's flag is changed, or its output moved.
Configure ==
  /\ pc = "ready"
  /\ \E d \in Device :
       \/ \E b \in BOOLEAN : aws' = [aws EXCEPT ![d].enabled = b]
       \/ aws[d].live /\ \E n \in Typed[d] : aws' = Moved(aws, d, n)
  /\ UNCHANGED <<disk, pc, op, target, path, running, node, failed, kept>>

\* auto-watering: the flow is started, or stopped.  A start with no device
\* enabled is refused.
StartStop ==
  /\ pc = "ready"
  /\ running \/ SomeEnabled(aws)
  /\ running' = ~running
  /\ UNCHANGED <<disk, pc, op, target, path, aws, node, failed, kept>>

\* A command that saves the current project, if any, before it goes on.
SaveThen(command, p, goOn) ==
  /\ pc = "ready"
  /\ op' = command /\ target' = p
  /\ pc' = IF hasProject THEN "open_writer" ELSE goOn
  /\ UNCHANGED <<disk, path, aws, node, failed, kept>>

\* Mutant: the project in memory is replaced without being saved.
CreateUnsaved ==
  /\ pc = "ready"
  /\ op' = "create" /\ target' \in Path
  /\ pc' = "switch"
  /\ UNCHANGED <<disk, path, aws, running, node, failed, kept>>

Create == UNCHANGED running /\ \E p \in Path : SaveThen("create", p, "switch")

Load == UNCHANGED running /\ \E p \in Path : SaveThen("load", p, "read")

Save == UNCHANGED running /\ hasProject /\ SaveThen("save", NoPath, "ready")

\* exit, or the end of the input: the watering stops, and main() saves.
Exit == running' = FALSE /\ SaveThen("exit", NoPath, "down")

\* The path is changed first.
SaveTo ==
  /\ pc = "ready" /\ hasProject
  /\ op' = "save_to" /\ target' \in Path /\ path' = target'
  /\ pc' = "open_writer"
  /\ UNCHANGED <<disk, aws, running, node, failed, kept>>

-----------------------------------------------------------------------------
(* SaveProjectAndUpdateConfigFile *)

\* createJsonProjectFileWriter makes the directories and truncates the file.
\* Whether that succeeded is not looked at.
OpenWriter ==
  /\ pc = "open_writer"
  /\ \/ /\ file' = [file EXCEPT ![path] = A("torn")]
        /\ UNCHANGED failed
     \/ /\ "refused" \in Faults
        /\ failed' = {"project"}
        /\ UNCHANGED file
  /\ pc' = "open_config"
  /\ UNCHANGED <<config, op, target, path, aws, running, node, kept>>

NoDirectory ==
  /\ pc = "open_writer" /\ "no_directory" \in Faults
  /\ Terminate
  /\ UNCHANGED <<disk, kept>>

\* The components' data is collected, which needs both outputs (NullUsed), and
\* serialised into the writer's buffer; the config file is truncated.  Whether
\* that succeeded is not looked at.
OpenConfig ==
  /\ pc = "open_config" /\ \A d \in Device : aws[d].live
  /\ \/ /\ config' = "torn"
        /\ UNCHANGED failed
     \/ /\ "refused" \in Faults
        /\ failed' = failed \cup {"config"}
        /\ UNCHANGED config
  /\ pc' = "close_config"
  /\ UNCHANGED <<file, op, target, path, aws, running, node, kept>>

\* Mutant: the config file gets the path given on the command line.
CloseConfigTarget ==
  /\ pc = "close_config"
  /\ config' = IF "config" \in failed THEN config ELSE target
  /\ pc' = "close_writer"
  /\ UNCHANGED <<file, op, target, path, aws, running, node, failed, kept>>

\* On return the config file is flushed before the project file is.
CloseConfig ==
  /\ pc = "close_config"
  /\ config' = IF "config" \in failed THEN config ELSE path
  /\ pc' = "close_writer"
  /\ UNCHANGED <<file, op, target, path, aws, running, node, failed, kept>>

\* The writer's destructor flushes its buffer, and the command goes on.
CloseWriter ==
  /\ pc = "close_writer"
  /\ file' = IF "project" \in failed THEN file
             ELSE [file EXCEPT ![path] = Saved(FlowOf(aws))]
  /\ \/ /\ op \in {"create", "load"}
        /\ pc' = IF op = "create" THEN "switch" ELSE "read"
        /\ UNCHANGED <<op, target, node, failed, kept>>
     \/ /\ op \in {"save", "save_to"}
        /\ Finish("ready")
        /\ UNCHANGED kept
     \/ /\ op = "exit"
        /\ Finish("down")
        /\ kept' = IF failed = {} THEN {FlowOf(aws)} ELSE {}
  /\ UNCHANGED <<config, path, aws, running>>

-----------------------------------------------------------------------------
(* Creating and loading a project *)

\* setCurrentProject: the new project's file is title.json, and is not written.
Switch ==
  /\ pc = "switch"
  /\ path' = target
  /\ Finish("ready")
  /\ UNCHANGED <<disk, aws, running, kept>>

\* LoadProjectAndCheckIntegrity gives a project, which becomes the current one
\* before any component has looked at it.
ReadProject ==
  /\ pc = "read" /\ file[target].kind \notin Unreadable \cup {"throws"}
  /\ node' = IntegrityFixes(file[target])
  /\ path' = target
  /\ pc' = "apply"
  /\ UNCHANGED <<disk, op, target, aws, running, failed, kept>>

\* It gives none: an error message.
ReadFails ==
  /\ pc = "read" /\ file[target].kind \in Unreadable
  /\ Finish("ready")
  /\ kept' = {}
  /\ UNCHANGED <<disk, path, aws, running>>

\* It throws, and is noexcept.
ReadThrows ==
  /\ pc = "read" /\ file[target].kind = "throws"
  /\ Terminate
  /\ UNCHANGED <<disk, kept>>

\* The watering node's flow is read whole, and applied.
Moves == node.kind \in {"flow", "bad_name"}

\* loadProjectData returns: a flow it cannot use is reported, and nothing is
\* applied; a system that ran has been stopped, and started again if a device
\* is enabled.
Apply ==
  /\ pc = "apply" /\ node.kind \notin Throwing
  /\ Moves => ~MoveMeetsNull(node.flow, aws)
  /\ aws' = IF Moves THEN Applied(node.flow, aws) ELSE aws
  /\ running' = (running /\ (node.kind # "no_flow" => SomeEnabled(aws')))
  /\ Finish("ready")
  /\ kept' = {}
  /\ UNCHANGED <<disk, path>>

\* It throws: before it changes anything, or after it stopped the system and
\* applied the flow.  The load command catches that, main() does not.
ApplyThrows ==
  /\ pc = "apply" /\ node.kind \in Throwing
  /\ Moves => ~MoveMeetsNull(node.flow, aws)
  /\ \/ /\ op = "load"
        /\ IF Moves
             THEN aws' = Applied(node.flow, aws) /\ running' = FALSE
             ELSE UNCHANGED <<aws, running>>
        /\ Finish("ready")
        /\ UNCHANGED path
     \/ op = "startup" /\ Terminate
  /\ UNCHANGED <<disk, kept>>

-----------------------------------------------------------------------------
(* Outputs *)

\* An output that is null is used, and the process dies: by a pin command or
\* status, by the worker, by a save, or by a load that moves it.
NullUsed ==
  /\ \/ pc = "ready" \/ pc = "open_config"
     \/ running /\ \E d \in Device : aws[d].enabled /\ ~aws[d].live
     \/ pc = "apply" /\ Moves /\ MoveMeetsNull(node.flow, aws)
  /\ \E d \in Device : ~aws[d].live
  /\ Terminate
  /\ UNCHANGED <<disk, kept>>

\* The kernel refuses the line of a pin command, of a load or of a start: the
\* exception leaves a noexcept function.
LineRefused ==
  /\ "line" \in Faults
  /\ \/ pc = "ready"
     \/ pc = "apply" /\ (op = "startup" \/ (Moves /\ SomeEnabled(node.flow)))
  /\ Terminate
  /\ UNCHANGED <<disk, kept>>

-----------------------------------------------------------------------------
(* The start of the process: tryLoadCachedProject *)

Restart ==
  /\ pc \in {"down", "terminated"}
  /\ pc' = "config" /\ op' = "startup"
  /\ path' = NoPath /\ target' = NoPath
  /\ aws' = DefaultOutputs
  /\ UNCHANGED <<disk, running, node, failed, kept>>

\* The config file names a project that exists.
CachedProject ==
  /\ pc = "config" /\ config \in Path /\ file[config].kind # "absent"
  /\ target' = config
  /\ pc' = "read"
  /\ UNCHANGED <<disk, op, path, aws, running, node, failed, kept>>

\* It cannot be parsed, or it is written anew: it is missing, it names no
\* project, or one that is gone.
NoCachedProject ==
  /\ pc = "config" /\ (config \in Path => file[config].kind = "absent")
  /\ config' = IF config = "torn" THEN "torn" ELSE "none"
  /\ Finish("ready")
  /\ kept' = {}
  /\ UNCHANGED <<file, path, aws, running>>

-----------------------------------------------------------------------------
(* The environment *)

\* Somebody edits a project file, or puts something else in its place.
Edit ==
  /\ pc \in {"ready", "down"}
  /\ \E p \in Path, f \in Edits : file' = [file EXCEPT ![p] = f]
  /\ kept' = {}
  /\ UNCHANGED <<config, process>>

\* The process is killed.
Crash ==
  /\ "crash" \in Faults /\ pc \notin {"down", "terminated"}
  /\ Finish("down")
  /\ running' = FALSE
  /\ UNCHANGED <<disk, path, aws, kept>>

Next ==
  \/ Configure \/ StartStop
  \/ Create \/ Load \/ Exit \/ Save \/ SaveTo
  \/ OpenWriter \/ NoDirectory \/ OpenConfig \/ CloseConfig \/ CloseWriter
  \/ Switch \/ ReadProject \/ ReadFails \/ ReadThrows \/ Apply \/ ApplyThrows
  \/ NullUsed \/ LineRefused
  \/ Restart \/ CachedProject \/ NoCachedProject
  \/ Edit \/ Crash

Spec == Init /\ [][Next]_vars

-----------------------------------------------------------------------------
(* Properties *)

TypeOK ==
  /\ file \in [Path -> File]
  /\ config \in {"absent", "torn", "none"} \cup Path
  /\ pc \in PC
  /\ op \in Command \cup {"none", "startup"}
  /\ target \in Path \cup {NoPath}
  /\ path \in Path \cup {NoPath}
  /\ aws \in Outputs
  /\ running \in BOOLEAN
  /\ node \in File
  /\ failed \subseteq {"project", "config"}
  /\ kept \in SUBSET Flow

\* The devices are configured as the flow says; the pin of a device it disables
\* does not matter.
SameJob(c, f) ==
  \A d \in Device : /\ c[d].enabled = f[d].enabled
                    /\ f[d].enabled => c[d].pin = f[d].pin

\* Every enabled device has its output.
HasOutputs(c) == \A d \in Device : c[d].enabled => c[d].live

\* The flow can be applied where the outputs are now: the valve's pin is not
\* the one the pump has, the pump's not the one the valve then has.
PinsAreFree(f, c) ==
  /\ f["valve"].enabled => f["valve"].pin # c["pump"].pin
  /\ f["pump"].enabled =>
       f["pump"].pin # (IF f["valve"].enabled THEN f ELSE c)["valve"].pin

\* The same where the outputs are at a start, for a flow that was saved, whose
\* pins are two: only the pin the other is built with can be in the way.
FreeAtStart(f) ==
  /\ f["valve"].enabled => f["valve"].pin # DefaultPin["pump"]
  /\ f["pump"].enabled /\ ~f["valve"].enabled => f["pump"].pin # DefaultPin["valve"]

\* project-management.md: a start restores the job the last exit saved, if
\* that save succeeded and nobody touched the files in between, however many
\* starts failed meanwhile; and it can do that job, unless a saved pin is the
\* one the other device is built with.
RestartRestoresJob ==
  [][op = "startup" /\ pc' = "ready" =>
       \A f \in kept : /\ SameJob(aws', f)
                       /\ FreeAtStart(f) => HasOutputs(aws')]_vars

\* project-command.md: when another project is created or loaded the old one
\* has been saved as it was, and is the last used project.
ClosedProjectIsSaved ==
  [][hasProject /\ path' # path /\ op \in {"create", "load"} /\ failed = {}
       => file[path] = Saved(FlowOf(aws)) /\ config = path]_vars

\* project-command.md: a valid project that is loaded is the job that is done,
\* after the integrity checkers updated what they update; and it can be done if
\* its pins are free where the outputs were.
LoadedFlowIsApplied ==
  [][pc = "apply" /\ pc' = "ready" /\ file[path].kind = "flow"
       => /\ SameJob(aws', file[path].flow)
          /\ PinsAreFree(file[path].flow, aws) => HasOutputs(aws')]_vars

=============================================================================
