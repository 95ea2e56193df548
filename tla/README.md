# A formal model of the Fish and Plants greenhouse controller

TLA+ modules, TLC configurations and TLAPS proofs about `rpi_gc`, the greenhouse controller of this
repository: a terminal program for a Raspberry Pi that waters plants by opening a valve and starting a
pump in cycles. `PROJECT.json` lists the runs, the definitions with the source lines they translate,
the hazards and the theorems. Source paths below are relative to `src/`.

## 1. The system

One process, two kinds of threads.

* The **command thread** is `main()`: it loads the last project, opens the GPIO chip, builds the
  objects and runs the terminal loop, one command line at a time.
* A **worker** is the `std::jthread` `m_workerThread` of the watering system: it runs the irrigation
  cycle until its stop token is set or both devices are disabled.

They share the watering system's atomics (state, enabled flags, cycles counter), two mutexes
(`m_stopMutex`, `m_hardwareAccessMutex`), a condition variable (`m_stopListener`), the hardware
controller and its output pins, and the time provider.

### Components

| component | state it keeps | operations | talks to |
|---|---|---|---|
| daily-cycle watering system (`src/rpi_gc/automatic-watering/daily-cycle-automatic-watering-system.*`) | `m_state`, enabled flags, `m_cyclesCounter`, `m_workerThread`, `m_stopMutex`, `m_stopListener`, the flow's name | start, requestShutdown, emergencyAbort, enable/disable a device, loadConfigFromProject, saveToProject, printDiagnostic; the worker's run_automatic_watering | hardware controller, time provider, project |
| hardware controller (`.../hardware-controllers`) | the valve's and the pump's (offset, pin) pairs | move an output to another pin | board chip, the hardware mutex |
| time provider (`.../time-providers`) | three atomic durations | get, set | |
| board chip, line requests, pins (`src/wrappers/gh_hal`) | the list of line requests | request a pin, release it, activate, deactivate | libgpiod, or a simulated backend |
| terminal loop (`greenhouse-controller-application.*`) | the command table | read a line, dispatch, exit and tear down | commands, terminable systems |
| commands (`src/rpi_gc/commands`) and the option parser (`gh_cmd`, popl) | the options set by the line being executed | parse, fire the events of the set options, clear | watering system, project controller |
| project controller and project command (`gc-project`, `commands-factory.cpp`) | the current project and its file path | create, save, save to, load; collect and load the components' data | disk, watering system |
| project loading, integrity checkers, upgraders (`project-loader.cpp`, `src/modules/project-management`) | none | read JSON, fix the title and the version, upgrade 1.1 to 1.2 | disk |
| initial project loader and config file (`initial-project-loader.cpp`, `application-configuration.hpp`) | `rpi_gc_config.json` | find and load the last project at startup | disk |
| workflows library (`src/modules/workflows`) | loop counters | run a sequence or a loop of steps | not used by `rpi_gc` at this commit |
| help, version, status, logging, folder provider, hardware initializer | none that matters | print, log, open | |

### What is hard here, and what makes each part correct

* **Watering system.** The command thread decides by `isRunning()`, that is by `m_state`, while what
  it commands is `m_workerThread`; the two are not changed together. `startAutomaticWatering` does not
  set the state (the worker does, at its first activation) and the worker may end on its own, leaving
  `TearingDown` behind. So a stop, an abort, a load or a second start can arrive while a worker exists
  that the state does not show, and a second start displaces that worker by move assignment. Correct
  means: never two workers inside the cycle; every thread owned by something that stops and joins it;
  no stop request lost between a predicate's evaluation and the wait; no command waiting for ever; a
  load restarting what it stopped; water flowing only while a worker is irrigating, and never for ever.
* **Devices.** The enabled flags are read at the activation, after the irrigation and at the shut-off,
  and may change in between. Correct means that what was turned on is turned off, and that valve and
  pump follow the documented order.
* **Hardware controller and chip.** A pin command deactivates, releases and re-requests an output that
  the worker may be using; a request for an offset already taken fails. Correct means that the chip's
  list of requests and the controller's pairs agree, that no line is left on once it is given back, that
  the worker's locked writes go to pins that are requested, and that moving one output leaves the other
  alone. (That both outputs always exist is not true of this code: a refused request leaves none, and the
  next use of it ends the process.)
* **Projects.** A save truncates before it writes, the config file points at a project that may not be
  complete yet, loading saves first, fixes and upgrades rewrite what was read, and values pass through
  JSON's types. Correct means that a project that is loaded is the job that is done, that what is saved
  can be read and is the same job again, that whatever else a file holds stays in it, and that a project
  is safe on the disk before another replaces it.
* **Command line.** Options are kept until cleared, so each line must clear what it set, on its error
  paths too. Correct means that what a line calls is what was typed on it, neither less nor more, and
  that a stop is never outweighed by the rest of its line.

`PROJECT.json` lists each hazard at its line with the property that covers it, or the reason why none
does.

## 2. Modules

| module | what it is |
|---|---|
| `DailyCycleAWS` | the watering system, step by step: command thread, workers, mutexes, condition variable; its properties |
| `MCDailyCycleAWS` | the sets of commands TLC uses |
| `IrrigationFlow` | abstract specification: what the documentation promises of a job, without threads |
| `FlowRefinement`, `MCFlowRefinement` | the refinement mapping from `DailyCycleAWS` to `IrrigationFlow` |
| `DailyCycleAWSProofs` | the inductive invariant of every use, and the safety theorems |
| `CarefulUseProofs` | the inductive invariant of careful use: outputs and their order |
| `IrrigationFlowProofs` | what the abstract flow guarantees |
| `FlowRefinementProofs` | the inductive invariant of settled use, and that every step of the threads is a step of the flow or a stutter |
| `ProjectLifecycle` | projects, their files and the config file, starts, ends and crashes of the process; its properties |
| `MCProjectLifecycle` | the pins, the hand-edited files and the symmetry TLC uses |
| `ProjectLifecycleProofs` | that a replaced project has been saved, that a start restores the last exit's job, that a valid project that is loaded is applied, with its outputs if the pins are free |
| `WateringOutputs` | the hardware controller over the board chip: line requests, pins, and moves of an output in the middle of a worker's cycle |
| `MCWateringOutputs` | the lines TLC uses |
| `WateringOutputsProofs` | its inductive invariant, and all its safety properties |
| `CommandLine` | from typed words to calls: the terminal loop, the commands, the options and what they keep |
| `MCCommandLine` | the lines an operator types |
| `CommandLineProofs` | its inductive invariant, and all its safety properties |
| `ProjectData` | what is in a project: nodes and JSON, upgrades, what the watering system reads from and writes into it |
| `ProjectTrees` | the recursion of the reader and the writer below the levels `ProjectData` writes out |
| `MCProjectData` | the files an operator writes |
| `ProjectDataProofs` | its inductive invariant, and its safety properties |

### How `DailyCycleAWS` corresponds to the code

A step is one access to shared state: an atomic load or store, a lock acquisition, a wait, a
notification. A lock's acquisition is joined to the access it precedes and its release to the access
it follows, which changes nothing another thread could see. Output accesses are joined to the load
that decides them, because an output is only written by the thread holding `m_stopMutex` or
`m_hardwareAccessMutex`.

| variable | code |
|---|---|
| `state`, `enabled`, `counter` | `m_state`, `m_bWaterValveEnabled` and `m_bWaterPumpEnabled`, `m_cyclesCounter` (modulo `CounterModulus`) |
| `output` | whether the pin the controller currently holds for the device is active |
| `stopMutex`, `hwMutex` | the worker holding the mutex. The command thread holds them within one step only |
| `stop` | the stop state of each `std::jthread` |
| `handle` | the thread `m_workerThread` owns; `NoWorker` when it is not joinable |
| `replaced` | the thread that `m_workerThread = thread_type{...}` is stopping and joining |
| `cpc`, `op`, `returned`, `wasRunning` | where the command thread is, the command being executed, the last one that returned, `bWasRunning` |
| `wpc`, `cont` | where each worker is, and what follows the wait or the shut-off it is in |
| `was`, `off` | the worker's locals: flags remembered from the last look, flags read by the shut-off |

| code | actions |
|---|---|
| `startAutomaticWatering` | `StartCommand`, then `StartRefused` or `StartWorker`; `ReplaceStop` and `ReplaceJoin` are `std::jthread`'s move assignment onto a joinable thread |
| `requestShutdown`, `emergencyAbort`, exit | `BeginShutdown` (the test of `isRunning()`), `RequestStop`, `NotifyOne`, `JoinWorker`, `ResetState` |
| `setWaterValveEnabled`, `setWaterPumpEnabled` | `SetEnabled` |
| `setWaterValveDigitalOutputID`, `setWaterPumpDigitalOutputID` | `SetDigitalOutputID` (`MoveOutput`) |
| `loadConfigFromProject` | `LoadCommand`, the shutdown's steps, `LoadRejected` or `LoadValveEnabled`, `LoadPumpEnabled`, `LoadValveOutput`, `LoadPumpOutput`, then `ReadName`, and a start if a job was running, or `NameThrows`: a name that is no string throws outside the `try` block and nothing is restarted |
| `run_automatic_watering` | `ReadWasValve` to `Teardown` |
| `wait_for` with a predicate | `WaitCheck`, `WaitBlock`, then `WaitTimeout`, `SpuriousWakeup` or a notification, then `WaitReturn` |
| `activate_watering_hardware` | `Activate`, `ValveOn`, `PumpOn` |
| `update_devices_status` | `UpdateValve`, `UpdatePump` |
| `disable_watering_hardware` | `OffLock`, `ValveOff`, `PumpOff` |

Several options on one command line are several commands in a row; a project loaded at startup is a
load as the first command. `SpuriousWakeup` and the choice among waiting threads in `NotifyOne` are
what the standard allows of a condition variable. The model ends at the exit: a worker that a shutdown
missed then meets the destruction of the object, which has no state in the model.

Definitions marked as mutants are variants of an action with a plausible mistake in it. No
specification uses them; each is what one property is there to catch.

### How `ProjectLifecycle` corresponds to the code

The command thread alone, over a disk that survives it. A step ends where a crash could leave something
else on the disk: a save is `OpenWriter` (the project file is truncated), `OpenConfig` (so is the config
file), `CloseConfig` and `CloseWriter` (the two streams are flushed as they are destroyed, in that
order). A crash in between leaves what has been truncated, or, for a file larger than the stream's
buffer, a part of it: `torn` either way.

| variable | code |
|---|---|
| `file` | what reading each project file gives: nothing, something the parser rejects, a project with or without a usable flow, ... (`Kind`) |
| `config` | `rpi_gc_config.json`: absent, torn, naming no project, or the path of one |
| `path` | `m_currentProjectFilePath`; `hasProject` is that there is one |
| `aws`, `running` | each device's enabled flag and pin, and whether its output is there (`live`); whether the system runs |
| `pc`, `op`, `target`, `node`, `failed` | where the process is, the command, the path it was given, the project just read, the files the save could not open |
| `kept` | history: the configuration saved by the last exit, while only starts that failed have followed it |

| code | actions |
|---|---|
| the `project` command's options | `Create`, `Save`, `SaveTo`, `Load` |
| `SaveProjectAndUpdateConfigFile` | `OpenWriter` or `NoDirectory`, `OpenConfig`, `CloseConfig`, `CloseWriter` |
| `setCurrentProject` | `Switch`, and part of `ReadProject` |
| `LoadProjectAndCheckIntegrity` | `ReadProject` (with the integrity fixes), `ReadFails`, `ReadThrows` |
| `loadProjectData` | `Apply`, `ApplyThrows`; `Applied` stores both flags and moves the valve's output, then the pump's, if the flow enables them |
| `change_digital_out`, `requestDigitalPin` | `Moved`: the own line is given back, and the new one is granted unless the other device has it (`Free`); otherwise the pin is null |
| the uses of a null pin; a line the kernel refuses | `NullUsed`, `LineRefused` |
| `tryLoadCachedProject` | `CachedProject`, `NoCachedProject` |
| the end of `main()` | `Exit` |

`Terminate` is `std::terminate`: `ProjectCommand::execute` and `LoadProjectAndCheckIntegrity` are
`noexcept`, and nothing in `main()` catches what the load at the start or the save at the end throws.
Simplifications: durations and the name are `ProjectData`'s; a start or a stop of the watering takes effect at
once (how it does is `DailyCycleAWS`'s subject); a project file is not edited while a command runs; the
config file is not edited, and the few bytes the start itself may write into it are one step.

### How `WateringOutputs` corresponds to the code

`DailyCycleAWS` gives every device one output that always exists. Here an output is a pin over a line
request, and the interleaving is that of a move with the worker's cycle. A step is one access of shared
state, as there. One worker stands for all, because `AtMostOneInCycle` holds; when it stops is a choice.

| variable | code |
|---|---|
| `requests`, `line` | `m_lineRequests` of the chip, and the lines that are driven active |
| `output` | `m_waterValveDigitalOut`, `m_waterPumpDigitalOut`: the offset, and whether the pin is there (`live`), is null, or has lost its request (`dead`) |
| `mutex` | `m_hardwareAccessMutex` |
| `cpc`, `move`, `enabled` | where the command thread is, what it moves where, the enabled flags |
| `wpc`, `was`, `held`, `off` | where the worker is and its locals; `held` is the pin whose pointer `update_devices_status` has read without the mutex |
| `alive` | FALSE once a null or a freed pin has ended the process |

| code | actions |
|---|---|
| `setWaterValveDigitalOutputID`, `setWaterPumpDigitalOutputID` | `PinCommand`, `LockForMove` |
| `change_digital_out` | `DeactivateOld`, `ReleaseOld`, then `RequestGranted`, `RequestRefused` (the chip has the offset) or `RequestFails` (the kernel refuses) |
| `activate_watering_hardware`, `disable_watering_hardware` | `OnLock` to `PumpOn`, `OffLock` to `PumpOff` |
| `update_devices_status` | `ReadPointer`, then `UsePointer`, or, if the pin was moved in between, `UseDeadPointer` or `DeadPointerDies`: what freed memory does is a choice |

The build is a release build: the assertions that a refused request would trip are not there.

### How `CommandLine` corresponds to the code

The command thread alone, one word or one option at a step. What makes it intricate is popl: an option
keeps every value it is given, `clear()` gives the wrapper's `Value` and `ImplicitValue` an empty one, and
`isSet()` counts them.

| variable | code |
|---|---|
| `pc`, `stream` | where the terminal thread is, whether the input has ended |
| `command`, `words`, `next` | the command and `lineTokens`, the word or option that is next |
| `options` | for each option how many values it holds, and the last |
| `given`, `typed` | history: what was typed for an option since it was cleared, and on this line |
| `calls` | what the line has called |

| code | actions |
|---|---|
| `GreenhouseControllerApplication::run` | `ReadNothing`, `ReadBlanks`, `ReadExit`, `ReadCommand`, `Teardown` |
| `OptionParser::parse` | `Skip`, `EndOptions`, `IgnoreWord`, `TakeSwitch`, `TakeImplicit`, `TakeValue`, `RefuseLine`, `EndOfWords` |
| the commands' `execute` | `ShowHelp`, `Stop`, `BeginEvents`, `FireEvent`, `PassOption`, `EndEvents`, `Status`, `Abort`, `RunApplication` |
| `ClearAllOptions` | `ClearAll`, part of the step that ends the command |

An argument is a number, zero, a negative number, a text, or a text that looks like an option. A group of
short options is words of their own.

### How `ProjectData` corresponds to the code

The data, with each command as one step. A JSON value is a pair of its type and what it holds, a project
node the record of its four maps. Names and keys are the code's own, because the code compares them.

| variable | code |
|---|---|
| `up`, `project` | whether the process runs; `m_currentProject`: its version and its nodes |
| `aws` | each device's enabled flag, pin and polarity; the three durations; the flow's name |
| `file` | the current project's file: version and JSON members |
| `live` | which devices have an output: a move to an offset that the other device holds leaves none |
| `origin` | history: who wrote the file, and the configurations it may stand for |
| `foreign` | history: what its author put beside the watering system |

| code | definitions |
|---|---|
| `JsonProjectReader` | `ReadableFrom` (what it throws for), `NodeFrom`, `Variant`; `Readable`, `ReadNode` for a project |
| `JsonProjectWriter` | `MembersFrom`, `Text`; `MembersOf` for a project |
| `ProjectUpgrader_V1_1ToV1_2`, `VersionIntegrityChecker` | `UpgradeThrows`, `Upgraded`, `Fixed` |
| `loadConfigFromProject` | `IsApplied`, `LoadThrows`, `AfterLoad`; `OutputsAfter`, by `Moved` and `Granted`, for the outputs |
| `saveToProject` | `AWSNode`, `Collected` |
| the `project` command, start and exit | `Save`, `Create`, `Load`, `LoadRefused`, `LoadTerminates`, `Exit`, `StartWith`, `StartWithout`; `NullUsed` when a device without an output is used |

The reader and the writer recurse over the objects in a project. `NodeFrom` and its like are one level of
that, and take the level below as an argument. The watering system's data is on four levels (project,
system, flow, device), which `ProjectData` writes out; below them the recursion goes on in constant operators
(`DeepRead` and its like), to which TLC's configuration gives the recursive operators of `ProjectTrees`. So
the model that is proved about has no recursion, and TLC checks trees of any depth.

The documents are JSON of any shape, with objects to any depth: empty objects, empty arrays, arrays that mix
objects with other values, nulls and arrays in arrays included. What the reader drops (`NodeFrom`) and the writer
turns into null (`ObjectText`) is in the model, and the properties name what is then lost.

Where the file is, crashes and the title fix are `ProjectLifecycle`'s subject. A file's header has the types it
should have.

### Four kinds of use

These are uses of `DailyCycleAWS`. Each restricts the operator's choice of the next command (`Operator`) and
never a step of a thread; the flags that a load stores are a thread's steps.

* **Every use** (`Spec`): any command at any moment.
* **Documented use** (`DocumentedSpec`): the options that enable or disable a device are typed only while no
  worker exists. `docs/reference/commands/auto-watering.md:43` asks for that, and of these options only: a project
  load may be typed at any moment.
* **Careful use** (`CarefulSpec`): documented use by an operator who also types no project load between a start and
  its worker's first activation. In that window a load does not see the job, stops nothing and stores the flags
  under it. No document asks for this care; without it the outputs and their order are not safe (section 5).
* **Settled use** (`SettledSpec`): documented use by an operator who lets a start take effect before typing
  *any* other command.

The last two exist because the code does not keep its promises without them.

## 3. Runs

| run | question | result |
|---|---|---|
| `any_use` | Do the threads, the mutexes, the stop tokens and the counter stay consistent under every command at every moment, and does every command give the terminal back? | yes: type invariant, `AtMostOneInCycle`, `StopTokenIsFresh`, `NoThreadLost`, `StopWakesWorker`, `CounterCountsThisJob`, `LoadRestartsOrThrows`, `CommandsReturn` (no deadlock and no lost wakeup, displaced workers included) |
| `careful` | Under careful use, is an output on only while a worker irrigates, in the documented order, and not for ever? | yes: `OutputsNeedIrrigation`, `DeviceOrder`, `WateringStops` |
| `settled` | Under settled use, do the threads implement the documented flow? | yes: `StepsImplementFlow` (every step is the flow's or a stutter), `ImplementsFlow` (with its progress) |
| `stop_lost` | Does a stop leave no worker, as the header says? | no (section 5) |
| `output_left_on` | Under documented use, does an abort turn the outputs off, as the manual says? | no (section 5) |
| `projects` | With crashes, unwritable files and hand-edited projects, pins that meet included, is a project saved before another replaces it, is a valid project applied, and does a start restore the last exit's job? | yes, outputs only on pins that are free: type invariant, `ClosedProjectIsSaved`, `LoadedFlowIsApplied`, `RestartRestoresJob` |
| `untitled_lost` | Is a valid flow applied also when the title needs a fix? | no (section 5) |
| `outputs` | While outputs are moved to free, taken and refused lines at any moment of a cycle, do the books agree, are released lines off, locked writes safe and the other device left alone, and does the terminal come back? | yes: type invariant, `BooksAgree`, `ReleasedLinesAreOff`, `LockedWritesAreLive`, `MovesKeepTheOther`, `PinCommandReturns` |
| `command_line` | Over lines of every kind in any order, is what is called what was typed, and does the end of the input shut the system down? | yes, `--start` excepted: type invariant, `SetIffTyped`, `StopWins`, `TypedOptionsFire`, `InputEndsLoop` |
| `start_again` | Is no event called that was not typed? | no (section 5) |
| `project_data` | Is a project that is loaded the job that is done, can what is saved be read, is it the same job, and does the rest of the file stay? | yes, with the exceptions stated in them: type invariant, `LoadedAsMeant`, `SavedCanBeLoaded`, `SavedIsRestored`, `OthersAreKept` |
| `last_job` | Does the start after a save do the job that was saved, as the manual says? | no (section 5) |

**Bounds.** Two worker identities. A third would never be used: a start returns only when the thread
it displaced is joined, so at most the one owned and the one being displaced exist, and an identity is
reused once joined. That is the invariant `NoThreadLost`, and it is proved for any set of identities.
The counter wraps at 2 cycles instead of 2^64, so that the wrap happens within the run. Nothing
else of `DailyCycleAWS` is bounded: the state space is finite, the runs are exhaustive, and sequences of commands are of
any length. Every command is in `any_use`, `careful` and `settled`; `any_use` has 206 505 states. The identities are
not declared symmetric, because the runs have liveness properties.

`projects` has two files, which is enough for the old and the new project of a load, the file a title
names and one a save-to names to coincide or differ, and three pins, the two defaults and another. An operator
moves the pump's output there and toggles both flags. Every fault may happen at every step it can, any number of
times. The hand-edited files are one of each kind with the default flow,
and flows with the valve on the pump's default pin and the pump on the valve's (swapped), on the same or on the third;
other flows come from saves. Untitled
files are in `untitled_lost` only, because `LoadedFlowIsApplied` does not hold for them. The paths are symmetric,
and all properties of the run are invariants or action properties; 3 995 706 states.

`outputs` has four lines: the two defaults, a free one, and one the kernel refuses. Two outputs can then
be moved onto each other, onto themselves, apart and into a refusal; 381 072 states, any number of moves.

`command_line` has 20 lines: for every kind of option one that gives it in the word, after the word, twice,
not at all or misspelt, and a stop before and behind other options. The number of values an option holds
saturates at 2, above which nothing tells counts apart. Lines come in any order and number; 57 090 states.

`project_data` has these files: valid ones with no version, of 1.1, of 1.2 and of a later version, each
polarity and flag, with values of every type, nested objects and arrays beside the watering system; one
whose name has a wrong type; ones that mean nothing, for each kind of early return and each exception of the
load and the upgrade, one with an array in the watering system's place among them; and the awkward ones: empty
objects, and objects of nothing but empty arrays; empty arrays and arrays that mix objects with other values; the
polarity in the manual's words; a duration of 2^63; and flows whose valve is on the pump's default pin, with the
pump on the valve's (swapped) or on the same. `Half` is 4 instead of 2^63 and `PinModulus` 4 instead of 2^32; zero, the
largest signed duration and the first that is not occur. An operator types one duration, one pin (the pump's
default, for the valve) and one name, different from the defaults; 69 024 states. TLC evaluates the assumptions on
the files (`DocumentAssumption`, `TreeAssumption`, section 4) in this run.

**Deadlock** is checked except where the process may end: `outputs` (a dead or null pin), `command_line`
and `start_again` (the end of the process). In the others the only end is an explicit one (`Exited` of
`DailyCycleAWS`) or there is none, so that a deadlock would be found.

**Fairness** (`Fairness`). The command thread and each worker are strongly fair: both mutexes are
released again and again (the stop mutex for the whole of every rest and irrigation), and a thread
that waits for one gets it in the end. Weak fairness would let a worker that cycles for ever starve
the command thread, which no scheduler does over waits of seconds to minutes, though `std::mutex` does
not promise it. Each wait's deadline passes (`SF` on `WaitTimeout`: `wait_for` computes an absolute
deadline once, so being woken does not postpone it). Nothing is assumed of the operator, of spurious
wakeups, or of a notification. `IrrigationFlow` has weak fairness of the four steps of its cycle, and
none for starting or stopping a job. `WateringOutputs` has strong fairness of the steps of a move, because
the worker releases the mutex again and again, and weak fairness of a worker that is in a job.
`CommandLine` has weak fairness of parsing, executing and tearing down, and none for the operator: the
input need not end.

## 4. Proofs

TLAPS proves the following. The three parts on `DailyCycleAWS` are for any set of worker identities, any
set of commands and any counter width, from `WorkerAssumption` (`NoWorker` is not a worker),
`CommandsAssumption` and `CounterAssumption`.

**Every use** (`DailyCycleAWSProofs`). `TypeOK` is inductive by itself (`TypeCorrect`). The safety
invariants are not; `SafetyInv` strengthens them with what ties the two kinds of threads together:

* `CommandInv`: at each control point of the command thread, which of `handle` and `replaced` it
  holds, and what the state can be;
* `ThreadInv`: the threads that exist are exactly those two;
* `StopInv`: a stop token is set only for the thread a shutdown or a displacement is waiting for;
* `MutexInv`: `m_stopMutex` is held by exactly the worker in the cycle, `m_hardwareAccessMutex` by the
  one operating the devices;
* `WakeInv`: after the notification the worker being joined is neither blocking nor blocked. It holds
  because the token was set under the mutex that the worker holds from the predicate to the wait;
* `ActiveInv`: a worker past its first activation implies a state other than Disabled, which is what
  makes a reset state mean that no counted cycle belongs to a living worker.

There is one lemma per part, and the frame lemmas say once what a worker's step leaves alone and what
the command thread's does. From `SafetyInv` follow `MutualExclusion`, `RequestStopSucceeds` (the code's
assertion), `ThreadsAreOwned`, `StopsAreNotLost`, `CounterRestarts` and `LoadsRestartOrThrow`.

**Careful use** (`CarefulUseProofs`). `CarefulInv` adds that what a worker remembers of the
enabled flags is still true, that an active output belongs to an enabled device and to an
irrigating worker, and that a load is past its first step only with no worker left: a worker therefore turns off
what it turned on. It gives `OutputsOnlyWhileIrrigating` and the action property `ValveBeforePump`. The
hypothesis on loads is needed: `output_left_on` is the counterexample without it.

**The flow** (`IrrigationFlowProofs`). Nothing is active at rest, and only devices in use are ever active.

**The refinement** (`FlowRefinementProofs`). `ThreadsImplementFlow` proves `StepsImplementFlow`: under the
mapping of `FlowRefinement`, a state of the threads that begins is one of the flow that begins, and each step
of the threads is a step of the flow or leaves it as it was (`StepRefines`, one case per action of the threads).
It needs `SettledInv`, which holds only because the operator waits for a start to take effect: no
worker is ever displaced (`NoneDisplaced`), so that the flow's job is the one worker's; a job that is under
way has a device (`JobHasDevice`); and a worker's shut-off outside an irrigation is followed by a rest or the end
(`ShutOffInv`). With the invariants of every use and of careful use (settled use is careful) it is inductive.
`ThreadsAreDryAtRest` then carries the flow's two theorems to the threads.

**Projects** (`ProjectLifecycleProofs`), for any set of paths, pins, edits and faults. `TypeOK` needs that
a save is of a current project and a load is of a path (`ControlOK`). `OldProjectIsSaved` proves the
action property `ClosedProjectIsSaved`: the save ends with the config file naming the current path
(`ConfigNamesIt`, established before the project file is closed) and nothing changes between that and
the replacement (`OldIsSaved`). The assumptions are those on the constants: `NoPath` is not a path, the
two default pins are pins and differ, the edits are files.

`JobIsRestored` proves `RestartRestoresJob` from `KeptInv`: from the exit's save on, `kept` is in the file
that the config file names, through any number of starts that fail, or has been dropped because something touched a
file; and applying a saved flow to the default outputs gives the same job. The second half, that the outputs are
there, rests on the two pins of a saved flow being different when both outputs are, which is part of the invariant (`OutputsOK`),
and on neither being the other device's default (`FreeAtStart`); without that it is false (section 5).
`LoadIsApplied` proves `LoadedFlowIsApplied` from `ReadInv`: the node read is what the file holds until it is
applied. It assumes that every edited file has a title, without which it is false (section 5).

**Outputs** (`WateringOutputsProofs`), for any offsets, unavailable lines and default pins
(`OffsetAssumption`: the defaults are available and differ). `OutputsInv` joins to `BooksAgree` and
`ReleasedLinesAreOff` who holds the mutex at which control point (`MutexInv`), that an output is dead only
between the release and the request of its own move (`DeadInv`), and that the output being moved is off from
its deactivation on (`MoveInv`). The last is the delicate one: the worker's unlocked write in
`update_devices_status` may come between the deactivation and the release only as another deactivation. It
gives `BooksAlwaysAgree`, `ReleasedLinesStayOff`, `LockedWritesStayLive` and the action property
`MovesKeepTheOtherDevice`.

**Project data** (`ProjectDataProofs`), for any files and any widths of the numbers. The lemmas follow a
text through the reader and the writer.

* *One level* of it, whatever reads and writes the objects in it: `WrittenBack` says what comes back, and
  `SameIfPlain` when that is what was there.
* *Trees*: from `TreeAssumption` (the objects are finite trees, and the operators for the deep levels are one level
  applied to the level below) induction over the depth, by the well-foundedness of the natural numbers
  (`FromInside`), gives that every object comes back as `Again` says (`ObjectAgain`), that a whole object comes back
  as it was (`WholeAgain`), and that a solid one is whole once it was written (`SolidAgain`).
* *The watering system's own data* is known key by key (`SystemWritten`), the reader does not throw on it
  (`SystemReadable`), finds each value with the type the load asks for (`SystemRead`, `FlowRead`, `DeviceRead`), and
  the load gives the job that was saved (`SavedSystem`) and, if the pins are free, both outputs (`MovedServes`).
* *The project*: neither the upgrade (`FixedNode`) nor a save (`CollectedIsProject`) touches what is beside the
  watering system (`OthersFirst`, `OthersNext`).

The invariant `IInv` says of the file that it is an operator's, truncated, or the text of a configuration that was
saved with the rest of its members; of the project, that it will be written with those; of the configuration, that
it has the code's types. It gives `TypeCorrect`, `SavedFilesLoad`, `OthersSurvive` and the action property
`SavedJobIsRestored`. The exceptions are in the statements: `SavedCanBeLoaded` and `SavedIsRestored` hold while the
author's file has no empty object (`AreSolid`) and the system's key is the system's (`HasSystem`: an array of objects
that an author put there is written over it), `SavedIsRestored` of durations that are not negative and, for the
outputs, of pins free of the default ones; `OthersAreKept` of each value whose text the reader and the writer keep
(`WillBeKept`), and it says besides that nothing is ever added.

`DocumentAssumption` is only that a file has a known version, JSON in it, and numbers a file can have.

**Command line** (`CommandLineProofs`), for any lines and arguments (`InputAssumption`). `CommandInv` says
what an option holds against what was typed for it (`HeldInv`: the count and the last value of each kind,
after a clear and before the first), that what is typed on the line is part of that (`TypedInv`), and, while
events fire, which options have fired (`FireInv`, `PassedInv`). It gives `SetExactlyIfTyped`,
`StopAlwaysWins` and the action property `AllTypedOptionsFire`.

Each inductive invariant was checked with TLC before it was proved. Only model-checked: the liveness
properties `CommandsReturn`, `WateringStops`, `PinCommandReturns` and `InputEndsLoop` and the progress part
of `ImplementsFlow`, since the prover does not reason about fairness and ENABLED; and `LoadedAsMeant`, which
compares a load with a table of what each file of `MCProjectData` means, written by hand beside the file.

## 5. Where the code and the documentation differ

Shown by a run, whose property is what the documentation says:

* **A stop can be lost** (`stop_lost`). The header says that `requestShutdown` waits for the completion
  of a worker that is running. Between a start and the worker's first activation the state is still
  `Disabled`, so a stop, an abort or the shutdown at the exit returns at once and the worker goes on to
  irrigate. A second start in that window displaces the first worker instead of being refused.
* **An abort can leave an output on** (`output_left_on`). The abort's manual page says that active outputs are
  deactivated. The shut-off of a worker that is being stopped deactivates the devices enabled at that moment. A project
  loaded between a start and its worker's first activation, which no document advises against, stops nothing and
  stores the enabled flags under the worker: a device it disables once the worker has turned it on stays on with no
  worker left, after a stop (`auto-watering.md:51` says that it disables all the output hardware) as after an abort.
  An operator who disables a device while it is active, which `auto-watering.md:43` advises against, gets the same. Such
  a load can also enable the valve after the worker has passed it and before it starts the pump.
* **The last job is not always back** (`last_job`). The manual says that the last used project is loaded at the next
  start. An object without members is written as null, for which the reader throws: what the save wrote is read by no
  start. The property is violated as well with the files `LongDuration` (2^63 ms or more becomes negative, around the
  clamp of durations that are typed, is saved as a negative number and refused by the next load), and with the files
  `Good`, where the operator puts the valve on the pump's default pin: the saved pins are applied one after the other
  over those the hardware controller is built with, the chip refuses the valve's and gives a null pin (in a debug
  build an assertion fails), and the next use of it ends the process.
* **The title fix drops the project** (`untitled_lost`). It assigns a new project with the default title,
  so the flow of an untitled project is not applied, and is lost from its file at the next save.
* **A second line starts the watering** (`start_again`). The header says that an option is not set after
  `clear()`. `ImplicitValue::clear()` gives it an empty value, which counts: once an auto-watering line has
  been executed, each later one, a stop or a help excepted, also fires `--start`.

Met while modelling, in the models and named as exceptions by the properties that hold:

* A load can leave the job stopped, where `project-command.md:33-34` says that it is restarted: the flow's name is read
  outside the `try` block, after the shutdown, and if it is no string the exception leaves the system stopped, with the
  new flow applied (`LoadRestartsOrThrows`).
* A load of a project whose pins are swapped against the current ones, or meet the other device's, loses an output
  (`PinsAreFree` in `LoadedFlowIsApplied` and `LoadedAsMeant`, `FreeAtStart` in `RestartRestoresJob`).
* `activationState` is compared with "Active High" and "Active Low"; `active-high`, as `project-management.md:30`
  spells it, is taken for active-low without an error (`IsUnderstood` in `LoadedAsMeant`).
* Of the rest of a file, an empty array is not written again, nor are the other values of an array that has objects
  (`WillBeKept` in `OthersAreKept`).
* A disabled device's pin is saved, but a load applies only an enabled device's: after a restart the device is
  on its default pin, and the next save overwrites the file. `RestartRestoresJob` and `SavedIsRestored` state
  what does hold: what an enabled device does comes back.

## 6. Not modelled, and why

* **Workflows library.** `rpi_gc` does not use it at this commit; there is no caller whose use a model could
  be checked against.
* **Logging, wording, help, status and version output, the folder provider, the hardware initializer**: output
  or pure I/O, without a state that anything else depends on. The initializer succeeds or ends the process.
* **The kernel's GPIO driver**: a request is granted or refused. `requestDigitalPinPool` has no caller.
* **Time.** A wait ends at some time after its deadline was computed; that `now + duration` overflows for
  durations near the largest is not modelled, nor is any bound on how long a command takes.
* **The config file's version** and a config file edited by hand: the version decides nothing. A project
  file's header is always of the right types, and numbers above 64 bits, which become floating point, do not
  occur.
* **Destruction at the exit.** `DailyCycleAWS` ends there; what a worker that a shutdown missed then meets is
  the order in which members are destroyed.
* **One composed model.** The modules meet in what they take from each other: `WateringOutputs` takes from
  `DailyCycleAWS` that one worker at a time is in its cycle (`AtMostOneInCycle`, proved), `DailyCycleAWS` from
  `WateringOutputs` that a move leaves the other output alone and the moved one off (`MovesKeepTheOther`,
  `ReleasedLinesAreOff`, proved) when the request is granted (a load whose request is refused ends in `NullUsed` of
  `ProjectLifecycle` and `ProjectData`), and `ProjectLifecycle` from `ProjectData` what
  reading a file gives and that a saved flow is read as it was (`SavedIsRestored`, proved). A product of them
  is beyond an exhaustive run.
