-------------------------- MODULE WateringOutputs --------------------------
(***************************************************************************)
(* The outputs of the watering system over the board chip: line requests,  *)
(* the pins they give out, the hardware controller's two (offset, pin)     *)
(* pairs, the command thread that moves an output to another line and the  *)
(* worker that operates the pins meanwhile                                 *)
(* (daily-cycle-aws-hardware-controller.cpp, board-chip-impl.cpp,          *)
(* line-request.cpp, board-digital-pin-impl.cpp, and the part of           *)
(* daily-cycle-automatic-watering-system.cpp that uses them).              *)
(*                                                                         *)
(* DailyCycleAWS has one output per device that always exists; here an     *)
(* output is a pin that can be given back, refused or used after it is     *)
(* gone.  One worker stands for all: DailyCycleAWS shows that at most one  *)
(* is in its cycle.  Stops and waits are choices.  The build is a release  *)
(* build, in which a refused request is not caught by its assertion.       *)
(***************************************************************************)
EXTENDS Naturals

CONSTANTS
  Offset,        (* the offsets an operator may type                       *)
  Unavailable,   (* those the kernel does not grant: other programs' lines *)
                 (* and lines the chip has not (none with the simulated    *)
                 (* backend, which grants everything)                      *)
  DefaultOffset  (* the offset each device is built with                   *)

Device == {"valve", "pump"}

ASSUME OffsetAssumption ==
  /\ Unavailable \subseteq Offset
  /\ DefaultOffset \in [Device -> Offset \ Unavailable]
  /\ DefaultOffset["valve"] # DefaultOffset["pump"]

VARIABLES
  (* the chip *)
  requests,  (* m_lineRequests, by their one offset                        *)
  line,      (* the lines that are driven active                           *)
  (* the hardware controller *)
  output,    (* the (offset, pin) pair of each device                      *)
  mutex,     (* m_hardwareAccessMutex: who holds it                        *)
  (* the command thread *)
  cpc,       (* where it is                                                *)
  move,      (* the device being moved, and its new offset                 *)
  enabled,   (* m_bWaterValveEnabled, m_bWaterPumpEnabled                  *)
  (* the worker *)
  wpc,       (* where it is                                                *)
  was,       (* bWasValveEnabled, bWasPumpEnabled                          *)
  held,      (* the pin update_devices_status has read the pointer of      *)
  off,       (* bValveEnabled, bPumpEnabled of disable_watering_hardware   *)
  alive      (* the process runs                                           *)

chip    == <<requests, line>>
command == <<cpc, move>>
worker  == <<wpc, was, held, off>>
vars    == <<chip, output, mutex, command, enabled, worker, alive>>

(* "null": no pin.  "live": its request is granted.  "dead": its request   *)
(* was released, under it.                                                 *)
Pin == {"null", "live", "dead"}

WorkerPC == {"idle", "started", "on_lock", "valve_on", "pump_on", "irrigating",
             "update_valve", "use_valve", "update_pump", "use_pump", "branch",
             "off_lock", "off_read", "valve_off", "pump_off", "resting"}

\* What the local variables are written as while they do not exist.
NoMove == [device |-> "valve", offset |-> DefaultOffset["valve"]]
AllOn == [d \in Device |-> TRUE]

Init ==
  /\ requests = {DefaultOffset[d] : d \in Device}
  /\ line = [o \in Offset |-> FALSE]
  /\ output = [d \in Device |-> [offset |-> DefaultOffset[d], pin |-> "live"]]
  /\ mutex = "free"
  /\ cpc = "ready" /\ move = NoMove
  /\ enabled = AllOn
  /\ wpc = "idle" /\ was = AllOn /\ off = AllOn /\ held = "null"
  /\ alive = TRUE

\* Dereferencing a null pin ends the process.
Die == alive' = FALSE /\ UNCHANGED <<chip, output, mutex, command, enabled, worker>>

-----------------------------------------------------------------------------
(* The command thread *)

\* --valve-pin-id, --pump-pin-id, or the pins of a project that is loaded.
PinCommand ==
  /\ cpc = "ready"
  /\ move' \in [device : Device, offset : Offset]
  /\ cpc' = "lock"
  /\ UNCHANGED <<chip, output, mutex, enabled, worker, alive>>

\* --enable-valve, --disable-valve, --enable-pump, --disable-pump
SetEnabled ==
  /\ cpc = "ready"
  /\ \E d \in Device : enabled' = [enabled EXCEPT ![d] = ~@]
  /\ UNCHANGED <<chip, output, mutex, command, worker, alive>>

LockForMove ==
  /\ cpc = "lock" /\ mutex = "free"
  /\ mutex' = "command" /\ cpc' = "deactivate"
  /\ UNCHANGED <<chip, output, move, enabled, worker, alive>>

\* Mutant: the old pin is left as it is.
LeaveOldOn ==
  /\ cpc = "deactivate"
  /\ IF output[move.device].pin = "null" THEN Die ELSE
     /\ cpc' = "release"
     /\ UNCHANGED <<chip, output, mutex, move, enabled, worker, alive>>

\* change_digital_out turns the old pin off; it does not look whether there
\* is one.
DeactivateOld ==
  /\ cpc = "deactivate"
  /\ IF output[move.device].pin = "null" THEN Die ELSE
     /\ line' = [line EXCEPT ![output[move.device].offset] = FALSE]
     /\ cpc' = "release"
     /\ UNCHANGED <<requests, output, mutex, move, enabled, worker, alive>>

\* The pointer update_devices_status has read is the moved device's.
HeldIsMoved == held # "null" /\ wpc = IF move.device = "valve" THEN "use_valve" ELSE "use_pump"

\* Mutant: the request of the new offset is released.
ReleaseNew ==
  /\ cpc = "release"
  /\ requests' = requests \ {move.offset}
  /\ output' = [output EXCEPT ![move.device].pin = "dead"]
  /\ held' = IF HeldIsMoved THEN "dead" ELSE held
  /\ cpc' = "request"
  /\ UNCHANGED <<line, mutex, move, enabled, wpc, was, off, alive>>

\* releaseRequest destroys what the old pin refers to.
ReleaseOld ==
  /\ cpc = "release"
  /\ requests' = requests \ {output[move.device].offset}
  /\ output' = [output EXCEPT ![move.device].pin = "dead"]
  /\ held' = IF HeldIsMoved THEN "dead" ELSE held
  /\ cpc' = "request"
  /\ UNCHANGED <<line, mutex, move, enabled, wpc, was, off, alive>>

\* Mutant: the pair is made without its pin.
StoreOffset(pin) ==
  /\ output' = [output EXCEPT ![move.device] = [offset |-> move.offset]]
  /\ mutex' = "free" /\ cpc' = "ready" /\ move' = NoMove

\* The controller stores what it was given, destroys the old pin, unlocks.
Store(pin) ==
  /\ output' = [output EXCEPT ![move.device] = [offset |-> move.offset, pin |-> pin]]
  /\ mutex' = "free" /\ cpc' = "ready" /\ move' = NoMove

\* Mutant: the list of requests is not looked at.
GrantedUnseen ==
  /\ cpc = "request" /\ move.offset \notin Unavailable
  /\ requests' = requests \cup {move.offset}
  /\ line' = [line EXCEPT ![move.offset] = FALSE]
  /\ Store("live")
  /\ UNCHANGED <<enabled, worker, alive>>

\* requestDigitalPin: a new request, of a line that is then inactive ...
RequestGranted ==
  /\ cpc = "request" /\ move.offset \notin requests \cup Unavailable
  /\ requests' = requests \cup {move.offset}
  /\ line' = [line EXCEPT ![move.offset] = FALSE]
  /\ Store("live")
  /\ UNCHANGED <<enabled, worker, alive>>

\* Mutant: the early return leaves the mutex locked.
RefusedLocked ==
  /\ cpc = "request" /\ move.offset \in requests
  /\ output' = [output EXCEPT ![move.device] = [offset |-> move.offset, pin |-> "null"]]
  /\ cpc' = "ready" /\ move' = NoMove
  /\ UNCHANGED <<chip, mutex, enabled, worker, alive>>

\* ... no pin for an offset that is in the list already ...
RequestRefused ==
  /\ cpc = "request" /\ move.offset \in requests
  /\ Store("null")
  /\ UNCHANGED <<chip, enabled, worker, alive>>

\* ... and the end of the process when the kernel refuses: requestLinesImpl is
\* noexcept, the exception does not reach request_lines' catch block.
RequestFails ==
  /\ cpc = "request" /\ move.offset \in Unavailable
  /\ Die

-----------------------------------------------------------------------------
(* The worker *)

Goto(to) == wpc' = to

\* A job reads the valve's flag ...
StartJob ==
  /\ wpc = "idle"
  /\ was' = [was EXCEPT !["valve"] = enabled["valve"]]
  /\ Goto("started")
  /\ UNCHANGED <<chip, output, mutex, command, enabled, held, off, alive>>

\* ... then the pump's, and may find that it is to stop already.
ReadPumpFlag ==
  /\ wpc = "started"
  /\ was' = [was EXCEPT !["pump"] = enabled["pump"]]
  /\ wpc' \in {"on_lock", "idle"}
  /\ UNCHANGED <<chip, output, mutex, command, enabled, held, off, alive>>

\* Mutant: the outputs are activated without the mutex.
OnUnlocked ==
  /\ wpc = "on_lock"
  /\ mutex' = "worker"
  /\ Goto("valve_on")
  /\ UNCHANGED <<chip, output, command, enabled, was, held, off, alive>>

\* activate_watering_hardware takes the hardware mutex ...
OnLock ==
  /\ wpc = "on_lock" /\ mutex = "free"
  /\ mutex' = "worker"
  /\ Goto("valve_on")
  /\ UNCHANGED <<chip, output, command, enabled, was, held, off, alive>>

\* Operates the pin of a device the caller found enabled, and goes on.
Operate(d, isEnabled, level, to) ==
  IF isEnabled /\ output[d].pin = "null" THEN Die ELSE
    /\ line' = IF isEnabled THEN [line EXCEPT ![output[d].offset] = level] ELSE line
    /\ Goto(to)
    /\ mutex' = IF to \in {"irrigating", "resting"} THEN "free" ELSE mutex
    /\ off' = IF to = "resting" THEN AllOn ELSE off
    /\ UNCHANGED <<requests, output, command, enabled, was, held, alive>>

\* ... and turns on the valve, then the pump, each as its flag says by then.
ValveOn == wpc = "valve_on" /\ Operate("valve", enabled["valve"], TRUE, "pump_on")

PumpOn == wpc = "pump_on" /\ Operate("pump", enabled["pump"], TRUE, "irrigating")

\* The wait ends: at a stop the outputs are shut off, else the flags are read.
EndIrrigation ==
  /\ wpc = "irrigating"
  /\ wpc' \in {"off_lock", "update_valve"}
  /\ UNCHANGED <<chip, output, mutex, command, enabled, was, held, off, alive>>

\* update_devices_status reads the pointer of a device that has been disabled,
\* without the mutex.
ReadPointer(d, use, next) ==
  /\ was' = [was EXCEPT ![d] = enabled[d]]
  /\ IF was[d] /\ ~enabled[d]
     THEN held' = output[d].pin /\ Goto(use)
     ELSE Goto(next) /\ UNCHANGED held
  /\ UNCHANGED <<chip, output, mutex, command, enabled, off, alive>>

UpdateValve == wpc = "update_valve" /\ ReadPointer("valve", "use_valve", "update_pump")
UpdatePump == wpc = "update_pump" /\ ReadPointer("pump", "use_pump", "branch")

\* Then it turns that pin off.
UsePointer(d, next) ==
  /\ held = "live"
  /\ line' = [line EXCEPT ![output[d].offset] = FALSE]
  /\ held' = "null"
  /\ Goto(next)
  /\ UNCHANGED <<requests, output, mutex, command, enabled, was, off, alive>>

\* If the pin is gone: nothing, a line written to that whatever took its place
\* refers to, or the end of the process.
UseDeadPointer(next) ==
  /\ held = "dead"
  /\ \/ line' = line
     \/ \E o \in requests : line' = [line EXCEPT ![o] = FALSE]
  /\ held' = "null"
  /\ Goto(next)
  /\ UNCHANGED <<requests, output, mutex, command, enabled, was, off, alive>>

DeadPointerDies == held \in {"dead", "null"} /\ Die

UseValve ==
  /\ wpc = "use_valve"
  /\ UsePointer("valve", "update_pump") \/ UseDeadPointer("update_pump") \/ DeadPointerDies

UsePump ==
  /\ wpc = "use_pump"
  /\ UsePointer("pump", "branch") \/ UseDeadPointer("branch") \/ DeadPointerDies

\* With both devices disabled the job ends here.
Branch ==
  /\ wpc = "branch"
  /\ Goto(IF \E d \in Device : was[d] THEN "off_lock" ELSE "idle")
  /\ UNCHANGED <<chip, output, mutex, command, enabled, was, held, off, alive>>

\* disable_watering_hardware takes the mutex and reads the valve's flag ...
OffLock ==
  /\ wpc = "off_lock" /\ mutex = "free"
  /\ mutex' = "worker"
  /\ off' = [off EXCEPT !["valve"] = enabled["valve"]]
  /\ Goto("off_read")
  /\ UNCHANGED <<chip, output, command, enabled, was, held, alive>>

\* ... then the pump's ...
OffRead ==
  /\ wpc = "off_read"
  /\ off' = [off EXCEPT !["pump"] = enabled["pump"]]
  /\ Goto("valve_off")
  /\ UNCHANGED <<chip, output, mutex, command, enabled, was, held, alive>>

\* ... and turns off the valve, then, after the separation time, the pump.
ValveOff == wpc = "valve_off" /\ Operate("valve", off["valve"], FALSE, "pump_off")
PumpOff == wpc = "pump_off" /\ Operate("pump", off["pump"], FALSE, "resting")

\* The rest ends: the next cycle, or a stop.
EndRest ==
  /\ wpc = "resting"
  /\ wpc' \in {"on_lock", "idle"}
  /\ UNCHANGED <<chip, output, mutex, command, enabled, was, held, off, alive>>

-----------------------------------------------------------------------------

Command ==
  PinCommand \/ SetEnabled \/ LockForMove \/ DeactivateOld \/ ReleaseOld
  \/ RequestGranted \/ RequestRefused \/ RequestFails

Worker ==
  StartJob \/ ReadPumpFlag \/ OnLock \/ ValveOn \/ PumpOn \/ EndIrrigation
  \/ UpdateValve \/ UseValve \/ UpdatePump \/ UsePump \/ Branch
  \/ OffLock \/ OffRead \/ ValveOff \/ PumpOff \/ EndRest

Next == alive /\ (Command \/ Worker)

Spec == Init /\ [][Next]_vars

(* The threads run; who waits for the mutex gets it in the end, if it is   *)
(* released again and again.  Only operators type commands and start jobs. *)
Moving == LockForMove \/ DeactivateOld \/ ReleaseOld
          \/ RequestGranted \/ RequestRefused \/ RequestFails

FairSpec ==
  /\ Spec
  /\ SF_vars(alive /\ Moving)
  /\ WF_vars(alive /\ Worker /\ wpc # "idle")

-----------------------------------------------------------------------------
(* Properties *)

TypeOK ==
  /\ requests \subseteq Offset
  /\ line \in [Offset -> BOOLEAN]
  /\ output \in [Device -> [offset : Offset, pin : Pin]]
  /\ mutex \in {"free", "command", "worker"}
  /\ cpc \in {"ready", "lock", "deactivate", "release", "request"}
  /\ move \in [device : Device, offset : Offset]
  /\ enabled \in [Device -> BOOLEAN]
  /\ wpc \in WorkerPC
  /\ was \in [Device -> BOOLEAN]
  /\ held \in Pin
  /\ off \in [Device -> BOOLEAN]
  /\ alive \in BOOLEAN

Other(d) == IF d = "valve" THEN "pump" ELSE "valve"

Live(d) == output[d].pin = "live"

(* The chip's list and the controller's pairs agree: the requests held are *)
(* those of the outputs that have a pin, and no two outputs share a line   *)
(* (board-chip-impl.cpp:50, "there shouldn't be any offset inside the      *)
(* requests map").                                                         *)
BooksAgree ==
  /\ requests = {output[d].offset : d \in {e \in Device : Live(e)}}
  /\ Live("valve") /\ Live("pump") => output["valve"].offset # output["pump"].offset

(* A line no request holds is inactive, however the moves of an output and *)
(* the worker's cycle fall: an output that is moved while it waters does   *)
(* not leave its old line on (auto-watering.md:112, "the old PINs are      *)
(* deactivated and disabled").                                             *)
ReleasedLinesAreOff == \A o \in Offset \ requests : ~line[o]

(* Where the worker operates the pins under the mutex, no pin is one whose *)
(* request was released under it.                                          *)
LockedWritesAreLive ==
  wpc \in {"valve_on", "pump_on", "off_read", "valve_off", "pump_off"} =>
    /\ mutex = "worker"
    /\ \A d \in Device : output[d].pin # "dead"

(* Moving one device's output does not change what the other device does.  *)
MovesKeepTheOther ==
  [][Moving => LET d == Other(move.device)
               IN  output'[d] = output[d]
                   /\ (Live(d) => line'[output[d].offset] = line[output[d].offset])]_vars

(* A pin command comes to its end, in the middle of any cycle, unless it   *)
(* ends the process.                                                       *)
PinCommandReturns == cpc # "ready" ~> (cpc = "ready" \/ ~alive)

=============================================================================
