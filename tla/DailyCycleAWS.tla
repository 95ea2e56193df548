---------------------------- MODULE DailyCycleAWS ----------------------------
(***************************************************************************)
(* The daily-cycle automatic watering system (AWS) of rpi_gc:              *)
(* src/src/rpi_gc/automatic-watering/daily-cycle-automatic-watering-       *)
(* system.cpp, class DailyCycleAutomaticWateringSystem.                    *)
(*                                                                         *)
(* Two kinds of threads run this code.  The COMMAND THREAD (the terminal   *)
(* loop of GreenhouseControllerApplication::run) executes one command at a *)
(* time: start, stop, abort, load a project, enable or disable a device,   *)
(* move a device to another output pin, exit.  A WORKER (the std::jthread  *)
(* m_workerThread) runs run_automatic_watering: it opens the valve and the *)
(* pump, waits, closes them, waits, and so on until its stop token is set. *)
(*                                                                         *)
(* A step of the model is one access to shared state: an atomic load or    *)
(* store, a lock acquisition, a wait, a notification.  An acquisition is   *)
(* joined to the access it precedes and a release to the access it         *)
(* follows; an access to an output is joined to the load that decides it,  *)
(* because outputs are only touched under m_stopMutex or                   *)
(* m_hardwareAccessMutex.  Durations are abstracted to "the wait may time  *)
(* out"; log messages and the flow's name are left out.                    *)
(***************************************************************************)
EXTENDS Naturals

CONSTANTS
  Worker,          (* thread identities, reused once a thread is joined    *)
  NoWorker,        (* what m_workerThread holds when it is not joinable    *)
  Commands,        (* the terminal commands the operator issues            *)
  CounterModulus   (* m_cyclesCounter is unsigned: 2^64 in the code        *)

Device == {"valve", "pump"}

CommandName == {"start", "stop", "abort", "load", "exit", "toggle", "pin"}

ASSUME WorkerAssumption   == NoWorker \notin Worker
ASSUME CommandsAssumption == Commands \subseteq CommandName
ASSUME CounterAssumption  == CounterModulus \in Nat \ {0}

VARIABLES
  (* shared by the threads *)
  state,      (* m_state                                                   *)
  enabled,    (* m_bWaterValveEnabled, m_bWaterPumpEnabled                 *)
  output,     (* is the device's current output pin active?                *)
  counter,    (* m_cyclesCounter                                           *)
  stopMutex,  (* the worker holding m_stopMutex, or NoWorker               *)
  hwMutex,    (* the worker holding m_hardwareAccessMutex, or NoWorker     *)
  stop,       (* stop[w]: has w's stop token been set?                     *)
  (* the command thread *)
  cpc,        (* where it is                                               *)
  op,         (* the command it executes                                   *)
  returned,   (* the command that returned last                            *)
  wasRunning, (* bWasRunning of loadConfigFromProject                      *)
  handle,     (* the thread m_workerThread owns                            *)
  replaced,   (* the thread a move assignment to m_workerThread displaces  *)
  (* the workers *)
  wpc,        (* wpc[w]: where w is; "none" when there is no such thread   *)
  cont,       (* cont[w]: what follows the wait or the shut-off w is in    *)
  was,        (* bWasValveEnabled, bWasPumpEnabled                         *)
  off         (* bValveEnabled, bPumpEnabled of disable_watering_hardware  *)

sharedVars  == <<state, enabled, output, counter>>
mutexVars   == <<stopMutex, hwMutex>>
threadVars  == <<stop, handle, replaced>>
commandVars == <<cpc, op, returned, wasRunning>>
workerVars  == <<wpc, cont, was, off>>
vars == <<sharedVars, mutexVars, threadVars, commandVars, workerVars>>

State == {"Disabled", "Idling", "Irrigating", "TearingDown"}

CommandPC ==
  {"ready", "start", "replace_stop", "replace_join", "stop_token", "notify",
   "join", "reset", "parse", "load_pump", "move_valve", "move_pump", "load_name",
   "exited"}

WorkerPC ==
  {"none", "read_valve", "read_pump", "lock", "loop", "activate", "valve_on",
   "pump_on", "check", "block", "wait", "wake", "timeout", "irr_end",
   "branch", "upd_valve", "upd_pump", "off_lock", "off_valve", "off_pump",
   "count", "teardown", "done"}

AllOff == [d \in Device |-> FALSE]

Init ==
  /\ state = "Disabled"
  /\ enabled = [d \in Device |-> TRUE]
  /\ output = AllOff
  /\ counter = 0
  /\ stopMutex = NoWorker /\ hwMutex = NoWorker
  /\ stop = [w \in Worker |-> FALSE]
  /\ cpc = "ready" /\ op = "none" /\ returned = "none"
  /\ wasRunning = FALSE
  /\ handle = NoWorker /\ replaced = NoWorker
  /\ wpc = [w \in Worker |-> "none"]
  /\ cont = [w \in Worker |-> "irr_end"]
  /\ was = [w \in Worker |-> AllOff]
  /\ off = [w \in Worker |-> AllOff]

-----------------------------------------------------------------------------
(* Helpers *)

\* isRunning(): the only thing the command thread asks before it acts.
isRunning == state # "Disabled"

\* A thread that exists: created, and not yet joined.
Alive == {w \in Worker : wpc[w] # "none"}

\* The threads blocked in m_stopListener.wait_for.
Waiting == {w \in Worker : wpc[w] = "wait"}

\* The model ends when main() has left the terminal loop and torn down: what
\* a worker still alive then meets is the destruction of the AWS object.
Running == cpc # "exited"

\* Worker w moves from one control point to another.
Goto(w, from, to) ==
  Running /\ wpc[w] = from /\ wpc' = [wpc EXCEPT ![w] = to]

\* Thread w has ended and join() gives its identity back.
Join(w) ==
  /\ wpc[w] = "done"
  /\ wpc'  = [wpc EXCEPT ![w] = "none"]
  /\ stop' = [stop EXCEPT ![w] = FALSE]
  /\ cont' = [cont EXCEPT ![w] = "irr_end"]
  /\ was'  = [was EXCEPT ![w] = AllOff]
  /\ off'  = [off EXCEPT ![w] = AllOff]

\* The command in execution returns to the terminal loop.
Return ==
  /\ cpc' = IF op = "exit" THEN "exited" ELSE "ready"
  /\ returned' = op
  /\ op' = "none"
  /\ wasRunning' = FALSE

\* The command in execution goes on at control point `to'.
Continue(to) == cpc' = to /\ UNCHANGED <<op, returned, wasRunning>>

-----------------------------------------------------------------------------
(* The command thread: startAutomaticWatering *)

\* auto-watering --start reaches startAutomaticWatering.
StartCommand ==
  /\ cpc = "ready" /\ "start" \in Commands
  /\ cpc' = "start" /\ op' = "start" /\ returned' = "none"
  /\ UNCHANGED <<sharedVars, mutexVars, threadVars, wasRunning, workerVars>>

\* The two early returns: a job is running, or both devices are disabled.
StartRefused ==
  /\ cpc = "start"
  /\ isRunning \/ \A d \in Device : ~enabled[d]
  /\ Return
  /\ UNCHANGED <<sharedVars, mutexVars, threadVars, workerVars>>

\* A new thread is created and moved into m_workerThread.  m_state is not
\* set here: the worker sets it when it first activates the hardware.
StartWorker ==
  /\ cpc = "start"
  /\ ~isRunning /\ \E d \in Device : enabled[d]
  /\ \E w \in Worker \ Alive :
       /\ wpc' = [wpc EXCEPT ![w] = "read_valve"]
       /\ handle' = w
  /\ replaced' = handle
  /\ IF handle = NoWorker THEN Return ELSE Continue("replace_stop")
  /\ UNCHANGED <<sharedVars, mutexVars, stop, cont, was, off>>

\* Mutant: a displaced thread is not asked to stop (std::thread's manners).
ReplaceStopForgotten ==
  /\ cpc = "replace_stop"
  /\ Continue("replace_join")
  /\ UNCHANGED <<sharedVars, mutexVars, threadVars, workerVars>>

\* Move assignment to a joinable std::jthread: the displaced thread is asked
\* to stop (neither m_stopMutex nor m_stopListener is involved) ...
ReplaceStop ==
  /\ cpc = "replace_stop"
  /\ stop' = [stop EXCEPT ![replaced] = TRUE]
  /\ Continue("replace_join")
  /\ UNCHANGED <<sharedVars, mutexVars, handle, replaced, workerVars>>

\* ... and joined.
ReplaceJoin ==
  /\ cpc = "replace_join"
  /\ Join(replaced)
  /\ replaced' = NoWorker
  /\ Return
  /\ UNCHANGED <<sharedVars, mutexVars, handle>>

-----------------------------------------------------------------------------
(* The command thread: requestShutdown, emergencyAbort *)

\* isRunning() decides: ask the worker to stop, or say that nothing runs.
BeginShutdown(command) ==
  /\ cpc = "ready" /\ command \in Commands
  /\ IF isRunning
       THEN cpc' = "stop_token" /\ op' = command /\ returned' = "none"
       ELSE /\ cpc' = IF command = "exit" THEN "exited" ELSE "ready"
            /\ returned' = command
            /\ UNCHANGED op
  /\ UNCHANGED <<sharedVars, mutexVars, threadVars, wasRunning, workerVars>>

requestShutdown == BeginShutdown("stop")

emergencyAbort == BeginShutdown("abort")

\* exit leaves the terminal loop; teardown() shuts the AWS down.
Exit == BeginShutdown("exit")

\* Mutant: the stop token is set without m_stopMutex.
RequestStopUnlocked ==
  /\ cpc = "stop_token"
  /\ handle # NoWorker
  /\ stop' = [stop EXCEPT ![handle] = TRUE]
  /\ Continue("notify")
  /\ UNCHANGED <<sharedVars, mutexVars, handle, replaced, workerVars>>

\* The stop token is set under m_stopMutex.  (The model has no token to set
\* when m_workerThread is empty; StopTokenIsFresh says that never happens.)
RequestStop ==
  /\ cpc = "stop_token"
  /\ stopMutex = NoWorker
  /\ handle # NoWorker
  /\ stop' = [stop EXCEPT ![handle] = TRUE]
  /\ Continue("notify")
  /\ UNCHANGED <<sharedVars, mutexVars, handle, replaced, workerVars>>

\* m_stopListener.notify_one() wakes one of the waiting threads, if any.
NotifyOne ==
  /\ cpc = "notify"
  /\ IF Waiting = {}
       THEN UNCHANGED wpc
       ELSE \E w \in Waiting : wpc' = [wpc EXCEPT ![w] = "wake"]
  /\ Continue("join")
  /\ UNCHANGED <<sharedVars, mutexVars, threadVars, cont, was, off>>

\* Mutant: the worker is detached instead of joined.
DetachWorker ==
  /\ cpc = "join"
  /\ handle' = NoWorker
  /\ Continue("reset")
  /\ UNCHANGED <<sharedVars, mutexVars, stop, replaced, workerVars>>

\* m_workerThread.join()
JoinWorker ==
  /\ cpc = "join"
  /\ Join(handle)
  /\ handle' = NoWorker
  /\ Continue("reset")
  /\ UNCHANGED <<sharedVars, mutexVars, replaced>>

\* Mutant: the state is left to the worker's TearingDown.
ResetCounterOnly ==
  /\ cpc = "reset"
  /\ counter' = 0
  /\ IF op = "load" THEN Continue("parse") ELSE Return
  /\ UNCHANGED <<state, enabled, output, mutexVars, threadVars, workerVars>>

\* Mutant: the cycles counter keeps the previous job's value.
ResetStateOnly ==
  /\ cpc = "reset"
  /\ state' = "Disabled"
  /\ IF op = "load" THEN Continue("parse") ELSE Return
  /\ UNCHANGED <<enabled, output, counter, mutexVars, threadVars, workerVars>>

\* The state and the counter are reset once the worker is gone.
ResetState ==
  /\ cpc = "reset"
  /\ state' = "Disabled"
  /\ counter' = 0
  /\ IF op = "load" THEN Continue("parse") ELSE Return
  /\ UNCHANGED <<enabled, output, mutexVars, threadVars, workerVars>>

-----------------------------------------------------------------------------
(* The command thread: device settings and loadConfigFromProject *)

\* setWaterValveEnabled, setWaterPumpEnabled: one atomic store, no lock.
SetEnabled(d, b) ==
  /\ cpc = "ready" /\ "toggle" \in Commands
  /\ enabled' = [enabled EXCEPT ![d] = b]
  /\ returned' = "toggle"
  /\ UNCHANGED <<state, output, counter, mutexVars, threadVars, cpc, op,
                 wasRunning, workerVars>>

\* change_digital_out: the old pin is deactivated and released, and the new
\* one is requested (inactive) under m_hardwareAccessMutex.
MoveOutput(d) ==
  /\ hwMutex = NoWorker
  /\ output' = [output EXCEPT ![d] = FALSE]
  /\ UNCHANGED <<state, enabled, counter, mutexVars, threadVars, workerVars>>

\* setWaterValveDigitalOutputID, setWaterPumpDigitalOutputID as commands.
SetDigitalOutputID(d) ==
  /\ cpc = "ready" /\ "pin" \in Commands
  /\ MoveOutput(d)
  /\ returned' = "pin"
  /\ UNCHANGED <<cpc, op, wasRunning>>

\* A project with a cycled flow is loaded: a running job is stopped first.  (A
\* project without one returns before it touches anything.)
LoadCommand ==
  /\ cpc = "ready" /\ "load" \in Commands
  /\ op' = "load" /\ returned' = "none"
  /\ wasRunning' = isRunning
  /\ cpc' = IF isRunning THEN "stop_token" ELSE "parse"
  /\ UNCHANGED <<sharedVars, mutexVars, threadVars, workerVars>>

\* How loadConfigFromProject ends unless it throws: restart what was running.
RestartOrReturn == IF wasRunning THEN Continue("start") ELSE Return

\* Mutant: the rejected load does not restart the job it stopped.
LoadRejectedNoRestart ==
  /\ cpc = "parse"
  /\ Return
  /\ UNCHANGED <<sharedVars, mutexVars, threadVars, workerVars>>

\* An unknown device, a wrong type, a missing value: nothing is applied.
LoadRejected ==
  /\ cpc = "parse"
  /\ RestartOrReturn
  /\ UNCHANGED <<sharedVars, mutexVars, threadVars, workerVars>>

\* A well-formed flow: its devices' enabled flags are stored, one by one ...
LoadValveEnabled ==
  /\ cpc = "parse"
  /\ \E b \in BOOLEAN : enabled' = [enabled EXCEPT !["valve"] = b]
  /\ Continue("load_pump")
  /\ UNCHANGED <<state, output, counter, mutexVars, threadVars, workerVars>>

LoadPumpEnabled ==
  /\ cpc = "load_pump"
  /\ \E b \in BOOLEAN : enabled' = [enabled EXCEPT !["pump"] = b]
  /\ Continue("move_valve")
  /\ UNCHANGED <<state, output, counter, mutexVars, threadVars, workerVars>>

\* ... and the outputs of the enabled devices are moved to the flow's pins.
LoadValveOutput ==
  /\ cpc = "move_valve"
  /\ IF enabled["valve"]
       THEN MoveOutput("valve")
       ELSE UNCHANGED <<sharedVars, mutexVars, threadVars, workerVars>>
  /\ Continue("move_pump")

LoadPumpOutput ==
  /\ cpc = "move_pump"
  /\ IF enabled["pump"]
       THEN MoveOutput("pump")
       ELSE UNCHANGED <<sharedVars, mutexVars, threadVars, workerVars>>
  /\ Continue("load_name")

\* The flow's name is read last, outside the try block: it is text or missing ...
ReadName ==
  /\ cpc = "load_name"
  /\ RestartOrReturn
  /\ UNCHANGED <<sharedVars, mutexVars, threadVars, workerVars>>

\* ... or a value of another type, for which getValue throws.  The command
\* catches the exception; nobody restarts the job that was stopped.
NameThrows ==
  /\ cpc = "load_name"
  /\ Return
  /\ UNCHANGED <<sharedVars, mutexVars, threadVars, workerVars>>

-----------------------------------------------------------------------------
(* The worker: run_automatic_watering *)

\* bWasValveEnabled, then bWasPumpEnabled.
ReadWasValve(w) ==
  /\ Goto(w, "read_valve", "read_pump")
  /\ was' = [was EXCEPT ![w]["valve"] = enabled["valve"]]
  /\ UNCHANGED <<sharedVars, mutexVars, threadVars, commandVars, cont, off>>

ReadWasPump(w) ==
  /\ Goto(w, "read_pump", "lock")
  /\ was' = [was EXCEPT ![w]["pump"] = enabled["pump"]]
  /\ UNCHANGED <<sharedVars, mutexVars, threadVars, commandVars, cont, off>>

\* unique_lock stopLock{m_stopMutex}
LockStopMutex(w) ==
  /\ Goto(w, "lock", "loop")
  /\ stopMutex = NoWorker
  /\ stopMutex' = w
  /\ UNCHANGED <<sharedVars, hwMutex, threadVars, commandVars, cont, was, off>>

\* while (!stopToken.stop_requested())
LoopTest(w) ==
  /\ Goto(w, "loop", IF stop[w] THEN "teardown" ELSE "activate")
  /\ UNCHANGED <<sharedVars, mutexVars, threadVars, commandVars, cont, was, off>>

\* activate_watering_hardware: the state, the valve, then the pump.
Activate(w) ==
  /\ Goto(w, "activate", "valve_on")
  /\ hwMutex = NoWorker
  /\ hwMutex' = w
  /\ state' = "Irrigating"
  /\ UNCHANGED <<enabled, output, counter, stopMutex, threadVars, commandVars,
                 cont, was, off>>

\* Mutant: the pump is started in the valve's place.
PumpOnFirst(w) ==
  /\ Goto(w, "valve_on", "pump_on")
  /\ output' = [output EXCEPT !["pump"] = @ \/ enabled["pump"]]
  /\ UNCHANGED <<state, enabled, counter, mutexVars, threadVars, commandVars,
                 cont, was, off>>

ValveOn(w) ==
  /\ Goto(w, "valve_on", "pump_on")
  /\ output' = [output EXCEPT !["valve"] = @ \/ enabled["valve"]]
  /\ UNCHANGED <<state, enabled, counter, mutexVars, threadVars, commandVars,
                 cont, was, off>>

PumpOn(w) ==
  /\ Goto(w, "pump_on", "check")
  /\ output' = [output EXCEPT !["pump"] = @ \/ enabled["pump"]]
  /\ hwMutex' = NoWorker
  /\ cont' = [cont EXCEPT ![w] = "irr_end"]
  /\ UNCHANGED <<state, enabled, counter, stopMutex, threadVars, commandVars,
                 was, off>>

-----------------------------------------------------------------------------
(* The worker: m_stopListener.wait_for(stopLock, time, predicate) *)

\* The predicate is read under m_stopMutex ...
WaitCheck(w) ==
  /\ Goto(w, "check", IF stop[w] THEN cont[w] ELSE "block")
  /\ UNCHANGED <<sharedVars, mutexVars, threadVars, commandVars, cont, was, off>>

\* ... and while it is false the thread blocks, releasing the mutex.
WaitBlock(w) ==
  /\ Goto(w, "block", "wait")
  /\ stopMutex' = NoWorker
  /\ UNCHANGED <<sharedVars, hwMutex, threadVars, commandVars, cont, was, off>>

\* Mutant: a wait without a deadline (wait in the place of wait_for).
WaitForever(w) ==
  /\ Goto(w, "wait", "wake")
  /\ UNCHANGED <<sharedVars, mutexVars, threadVars, commandVars, cont, was, off>>

\* The wait's deadline passes.
WaitTimeout(w) ==
  /\ Goto(w, "wait", "timeout")
  /\ UNCHANGED <<sharedVars, mutexVars, threadVars, commandVars, cont, was, off>>

\* A condition variable may wake a thread nobody notified.
SpuriousWakeup(w) ==
  /\ Goto(w, "wait", "wake")
  /\ UNCHANGED <<sharedVars, mutexVars, threadVars, commandVars, cont, was, off>>

\* Mutant: a thread whose wait timed out does not take the mutex back.
WaitReturnUnlocked(w) ==
  /\ \/ Goto(w, "wake", "check") /\ stopMutex = NoWorker /\ stopMutex' = w
     \/ Goto(w, "timeout", cont[w]) /\ UNCHANGED stopMutex
  /\ UNCHANGED <<sharedVars, hwMutex, threadVars, commandVars, cont, was, off>>

\* Awake, the thread takes m_stopMutex again and, unless the deadline has
\* passed, reads the predicate again.
WaitReturn(w) ==
  /\ \/ Goto(w, "wake", "check")
     \/ Goto(w, "timeout", cont[w])
  /\ stopMutex = NoWorker
  /\ stopMutex' = w
  /\ UNCHANGED <<sharedVars, hwMutex, threadVars, commandVars, cont, was, off>>

-----------------------------------------------------------------------------
(* The worker: the end of the irrigation *)

IrrigationEnd(w) ==
  /\ Goto(w, "irr_end", "branch")
  /\ state' = "Idling"
  /\ UNCHANGED <<enabled, output, counter, mutexVars, threadVars, commandVars,
                 cont, was, off>>

\* Mutant: a stop request leaves the loop at once, the hardware as it is.
BranchToTeardown(w) ==
  /\ Goto(w, "branch", IF stop[w] THEN "teardown" ELSE "upd_valve")
  /\ UNCHANGED <<sharedVars, mutexVars, threadVars, commandVars, cont, was, off>>

\* A stop request shuts the hardware off and leaves the loop.
Branch(w) ==
  /\ IF stop[w]
       THEN /\ Goto(w, "branch", "off_lock")
            /\ cont' = [cont EXCEPT ![w] = "teardown"]
       ELSE Goto(w, "branch", "upd_valve") /\ UNCHANGED cont
  /\ UNCHANGED <<sharedVars, mutexVars, threadVars, commandVars, was, off>>

\* update_devices_status for one device: a device that was enabled and no
\* longer is gets its output deactivated.  m_hardwareAccessMutex isn't taken.
UpdateDevice(w, d) ==
  /\ was' = [was EXCEPT ![w][d] = enabled[d]]
  /\ output' = [output EXCEPT ![d] = @ /\ ~(was[w][d] /\ ~enabled[d])]
  /\ UNCHANGED <<state, enabled, counter, mutexVars, threadVars, commandVars, off>>

UpdateValve(w) ==
  /\ Goto(w, "upd_valve", "upd_pump")
  /\ UpdateDevice(w, "valve")
  /\ UNCHANGED cont

\* Both devices disabled end the job; otherwise the cycle goes on to rest.
UpdatePump(w) ==
  /\ UpdateDevice(w, "pump")
  /\ IF \A d \in Device : ~was'[w][d]
       THEN Goto(w, "upd_pump", "teardown") /\ UNCHANGED cont
       ELSE /\ Goto(w, "upd_pump", "off_lock")
            /\ cont' = [cont EXCEPT ![w] = "count"]

-----------------------------------------------------------------------------
(* The worker: disable_watering_hardware *)

\* m_hardwareAccessMutex is taken and the valve's flag read ...
OffLock(w) ==
  /\ Goto(w, "off_lock", "off_valve")
  /\ hwMutex = NoWorker
  /\ hwMutex' = w
  /\ off' = [off EXCEPT ![w]["valve"] = enabled["valve"]]
  /\ UNCHANGED <<sharedVars, stopMutex, threadVars, commandVars, cont, was>>

\* ... then the pump's; an enabled valve is closed first.
ValveOff(w) ==
  /\ Goto(w, "off_valve", "off_pump")
  /\ off' = [off EXCEPT ![w]["pump"] = enabled["pump"]]
  /\ output' = [output EXCEPT !["valve"] = @ /\ ~off[w]["valve"]]
  /\ UNCHANGED <<state, enabled, counter, mutexVars, threadVars, commandVars,
                 cont, was>>

\* Mutant: the pump is stopped only together with the valve.
PumpOffWithValve(w) ==
  /\ Goto(w, "off_pump", IF cont[w] = "count" THEN "check" ELSE cont[w])
  /\ output' = [output EXCEPT !["pump"] = @ /\ ~(off[w]["pump"] /\ off[w]["valve"])]
  /\ hwMutex' = NoWorker
  /\ off' = [off EXCEPT ![w] = AllOff]
  /\ UNCHANGED <<state, enabled, counter, stopMutex, threadVars, commandVars,
                 cont, was>>

\* After the separation time (both mutexes held) the pump is stopped; the
\* function's locals go out of scope.
PumpOff(w) ==
  /\ Goto(w, "off_pump", IF cont[w] = "count" THEN "check" ELSE cont[w])
  /\ output' = [output EXCEPT !["pump"] = @ /\ ~off[w]["pump"]]
  /\ hwMutex' = NoWorker
  /\ off' = [off EXCEPT ![w] = AllOff]
  /\ UNCHANGED <<state, enabled, counter, stopMutex, threadVars, commandVars,
                 cont, was>>

\* Mutant: the counter is not a fixed-width unsigned integer.
CountCycleUnbounded(w) ==
  /\ Goto(w, "count", "loop")
  /\ counter' = counter + 1
  /\ UNCHANGED <<state, enabled, output, mutexVars, threadVars, commandVars,
                 cont, was, off>>

\* m_cyclesCounter++, also when a stop request cut the rest short.
CountCycle(w) ==
  /\ Goto(w, "count", "loop")
  /\ counter' = (counter + 1) % CounterModulus
  /\ UNCHANGED <<state, enabled, output, mutexVars, threadVars, commandVars,
                 cont, was, off>>

\* The last store, under m_stopMutex, which the function's return releases.
Teardown(w) ==
  /\ Goto(w, "teardown", "done")
  /\ state' = "TearingDown"
  /\ stopMutex' = NoWorker
  /\ UNCHANGED <<enabled, output, counter, hwMutex, threadVars, commandVars,
                 cont, was, off>>

-----------------------------------------------------------------------------
\* What the operator decides to do next.
Operator ==
  \/ StartCommand
  \/ requestShutdown
  \/ emergencyAbort
  \/ Exit
  \/ LoadCommand
  \/ \E d \in Device, b \in BOOLEAN : SetEnabled(d, b)
  \/ \E d \in Device : SetDigitalOutputID(d)

\* The command thread carrying out a command.
CommandStep ==
  \/ StartRefused \/ StartWorker \/ ReplaceStop \/ ReplaceJoin
  \/ RequestStop \/ NotifyOne \/ JoinWorker \/ ResetState
  \/ LoadRejected \/ LoadValveEnabled \/ LoadPumpEnabled
  \/ LoadValveOutput \/ LoadPumpOutput \/ ReadName \/ NameThrows

\* A worker's own steps; SpuriousWakeup and WaitTimeout are its environment's.
WorkerStep(w) ==
  \/ ReadWasValve(w) \/ ReadWasPump(w) \/ LockStopMutex(w) \/ LoopTest(w)
  \/ Activate(w) \/ ValveOn(w) \/ PumpOn(w)
  \/ WaitCheck(w) \/ WaitBlock(w) \/ WaitReturn(w)
  \/ IrrigationEnd(w) \/ Branch(w) \/ UpdateValve(w) \/ UpdatePump(w)
  \/ OffLock(w) \/ ValveOff(w) \/ PumpOff(w) \/ CountCycle(w) \/ Teardown(w)

Threads ==
  \/ CommandStep
  \/ \E w \in Worker : WorkerStep(w) \/ WaitTimeout(w) \/ SpuriousWakeup(w)

Exited == ~Running /\ UNCHANGED vars

Next == Operator \/ Threads \/ Exited

Spec == Init /\ [][Next]_vars

(***************************************************************************)
(* Fairness.  The operator and spurious wakeups are not fair.  A thread is *)
(* strongly fair because it competes for two mutexes: while the other      *)
(* threads release them again and again, it gets them in the end.  Every   *)
(* wait has a finite duration, so its deadline passes however often the    *)
(* thread is woken before.                                                 *)
(***************************************************************************)
Fairness ==
  /\ SF_vars(CommandStep)
  /\ \A w \in Worker : /\ SF_vars(WorkerStep(w))
                       /\ SF_vars(WaitTimeout(w))

FairSpec == Spec /\ Fairness

(***************************************************************************)
(* Documented use.  docs/reference/commands/auto-watering.md asks that the *)
(* options that enable or disable a device be used only while no job runs. *)
(* It asks nothing of a project load, which stores the same flags.         *)
(***************************************************************************)
DocumentedUse == enabled' # enabled => Alive = {}

DocumentedNext ==
  \/ Operator /\ DocumentedUse
  \/ Threads
  \/ Exited

DocumentedSpec == Init /\ [][DocumentedNext]_vars

(***************************************************************************)
(* Careful use.  The operator also types no project load in the window     *)
(* between a start and its worker's first activation: in it the load finds *)
(* the system Disabled, stops nothing, and stores the flags under the      *)
(* worker's feet.  Every other command may be typed in the window.         *)
(***************************************************************************)
Settled == handle # NoWorker => isRunning

LoadWhenSettled == op' = "load" => Settled

CarefulNext ==
  \/ Operator /\ DocumentedUse /\ LoadWhenSettled
  \/ Threads
  \/ Exited

CarefulSpec == Init /\ [][CarefulNext]_vars

FairCarefulSpec == CarefulSpec /\ Fairness

(***************************************************************************)
(* Settled use.  The operator waits, after a start, for the worker to      *)
(* report its first activation before typing any other command.            *)
(***************************************************************************)
SettledNext ==
  \/ Operator /\ DocumentedUse /\ Settled
  \/ Threads
  \/ Exited

SettledSpec == Init /\ [][SettledNext]_vars /\ Fairness

-----------------------------------------------------------------------------
(* Properties of every use *)

TypeOK ==
  /\ state \in State
  /\ enabled \in [Device -> BOOLEAN]
  /\ output \in [Device -> BOOLEAN]
  /\ counter \in 0 .. (CounterModulus - 1)
  /\ stopMutex \in Worker \cup {NoWorker}
  /\ hwMutex \in Worker \cup {NoWorker}
  /\ stop \in [Worker -> BOOLEAN]
  /\ cpc \in CommandPC
  /\ op \in CommandName \cup {"none"}
  /\ returned \in CommandName \cup {"none"}
  /\ wasRunning \in BOOLEAN
  /\ handle \in Worker \cup {NoWorker}
  /\ replaced \in Worker \cup {NoWorker}
  /\ wpc \in [Worker -> WorkerPC]
  /\ cont \in [Worker -> {"irr_end", "count", "teardown"}]
  /\ was \in [Worker -> [Device -> BOOLEAN]]
  /\ off \in [Worker -> [Device -> BOOLEAN]]

\* Where a worker is inside the cycle proper, which m_stopMutex protects.
InCycle(w) ==
  wpc[w] \in {"loop", "activate", "valve_on", "pump_on", "check", "block",
              "irr_end", "branch", "upd_valve", "upd_pump", "off_lock",
              "off_valve", "off_pump", "count", "teardown"}

\* Two workers can exist (a start that displaces one), and each leaves and
\* re-enters the cycle at every wait: never are two of them in it together.
AtMostOneInCycle ==
  \A v, w \in Worker : InCycle(v) /\ InCycle(w) => v = w

\* assert(bRequestStopSucceded), and the join that follows: when a shutdown
\* decides to stop the worker there is one to join, and its token isn't set.
StopTokenIsFresh ==
  cpc = "stop_token" => handle \in Worker /\ ~stop[handle]

\* Every thread that exists is owned by m_workerThread or is the one a start
\* is displacing: no worker outlives what could stop it.
NoThreadLost == Alive = {handle, replaced} \ {NoWorker}

\* No stop is lost: once notify_one has been called the worker being joined is
\* not, and will not be, asleep in a wait it was to be woken from.
StopWakesWorker == cpc = "join" => wpc[handle] \notin {"block", "wait"}

\* m_cyclesCounter counts the cycles of the current job: it is zero whenever
\* the system is Disabled, even while a worker is about to begin.
CounterCountsThisJob == ~isRunning => counter = 0

\* A load that stopped a job ends with a new worker, or with both devices
\* disabled; the one that ends without either, at the exception of the flow's
\* name, leaves no worker and the system Disabled, ready for a start.
LoadRestartsOrThrows ==
  [][op = "load" /\ wasRunning /\ cpc' = "ready"
       => IF cpc = "load_name"
            THEN Alive = {} /\ ~isRunning
            ELSE handle' # NoWorker \/ \A d \in Device : ~enabled[d]]_vars

\* Every command gives the terminal back: no shutdown, start or load waits
\* for ever for a worker or a mutex.
CommandsReturn == cpc # "ready" ~> cpc \in {"ready", "exited"}

-----------------------------------------------------------------------------
(* Properties of careful use *)

\* Worker w is between its turning d on and its turning d off.
Irrigates(w, d) ==
  \/ wpc[w] \in {"irr_end", "branch", "upd_valve", "upd_pump", "off_lock",
                 "off_valve"}
  \/ wpc[w] \in {"check", "block", "wait", "wake", "timeout"} /\ cont[w] = "irr_end"
  \/ wpc[w] = IF d = "valve" THEN "pump_on" ELSE "off_pump"

\* An output is on only while some worker is irrigating: never at rest, never
\* after a stop, an abort or an exit, at whatever moment they and the starts,
\* the moves to other pins and the loads outside the start window are typed.
OutputsNeedIrrigation ==
  \A d \in Device : output[d] => \E w \in Worker : Irrigates(w, d)

\* The pump never starts against a closed valve that is in use, and no worker
\* stops the pump while the valve is still open.
DeviceOrder ==
  [][/\ ~output["pump"] /\ output'["pump"]
          => output["valve"] \/ ~enabled["valve"]
     /\ output["pump"] /\ ~output'["pump"] /\ hwMutex # NoWorker
          => ~output["valve"]]_vars

\* The watering of the greenhouse always comes to an end.
WateringStops == \A d \in Device : output[d] ~> ~output[d]

-----------------------------------------------------------------------------
(* What the documentation says and the code does not do *)

\* daily-cycle-automatic-watering-system.hpp: requestShutdown waits for the
\* completion of a worker that is running.
StopLeavesNoWorker == returned = "stop" => Alive = {}

\* abort.md: outputs that are active are deactivated once the flows are halted.
AbortTurnsOutputsOff == returned = "abort" /\ Alive = {} => output = AllOff

=============================================================================
