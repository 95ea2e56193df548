----------------------- MODULE WateringOutputsProofs -----------------------
(***************************************************************************)
(* The safety of WateringOutputs, proved for any set of offsets, any of    *)
(* them refused by the kernel, and any two default offsets.                *)
(*                                                                         *)
(* That a released line is off needs to know where the moving thread is:   *)
(* between the deactivation and the release the old line is held and off,  *)
(* and stays off because the worker turns a line on only under the mutex   *)
(* the mover has (MutexInv).  The worker's late write through a pointer it *)
(* read before the move only turns lines off, so it breaks none of this.   *)
(***************************************************************************)
EXTENDS WateringOutputs, TLAPS

\* The mutex is held exactly where it protects the outputs.
MutexInv ==
  /\ mutex = "command" <=> cpc \in {"deactivate", "release", "request"}
  /\ mutex = "worker" <=>
       wpc \in {"valve_on", "pump_on", "off_read", "valve_off", "pump_off"}

\* A dead pin is that of the device being moved, before its new request.
DeadInv == \A d \in Device :
  output[d].pin = "dead" <=> cpc = "request" /\ d = move.device

\* What is released has been turned off.
MoveInv ==
  cpc = "release" => /\ output[move.device].pin = "live"
                     /\ ~line[output[move.device].offset]

\* The inductive invariant.
OutputsInv ==
  /\ TypeOK /\ MutexInv /\ DeadInv /\ MoveInv
  /\ BooksAgree /\ ReleasedLinesAreOff

-----------------------------------------------------------------------------

LEMMA OutputsInit == Init => OutputsInv
BY OffsetAssumption
   DEF Init, NoMove, AllOn, OutputsInv, TypeOK, Pin, WorkerPC, Device, Live, MutexInv,
       DeadInv, MoveInv, BooksAgree, ReleasedLinesAreOff

\* Steps that touch neither the books nor the lines, the end of the process
\* among them.
LEMMA NothingMoves ==
  OutputsInv /\ alive' \in BOOLEAN
    /\ UNCHANGED <<chip, output, mutex, command, enabled, worker>> => OutputsInv'
BY DEF OutputsInv, TypeOK, MutexInv, DeadInv, MoveInv, BooksAgree, Live,
       ReleasedLinesAreOff, chip, command, worker

\* The steps of the command thread.
LEMMA CommandKeeps == OutputsInv /\ alive /\ Command => OutputsInv'
<1> SUFFICES ASSUME OutputsInv, alive, Command PROVE OutputsInv'
  OBVIOUS
<1> USE OffsetAssumption
    DEF OutputsInv, TypeOK, Pin, WorkerPC, Device, Live, MutexInv, DeadInv, MoveInv,
        BooksAgree, ReleasedLinesAreOff, chip, command, worker
<1>1. CASE PinCommand
  BY <1>1 DEF PinCommand
<1>2. CASE SetEnabled
  BY <1>2 DEF SetEnabled
<1>3. CASE LockForMove
  BY <1>3 DEF LockForMove
<1>4. CASE DeactivateOld
  <2>1. CASE output[move.device].pin = "null"
    BY <1>4, <2>1, NothingMoves DEF DeactivateOld, Die
  <2>2. CASE output[move.device].pin # "null"
    <3>1. requests' = requests /\ output' = output
      BY <1>4, <2>2 DEF DeactivateOld
    <3>2. BooksAgree'
      BY <3>1
    <3>3. ReleasedLinesAreOff' /\ MoveInv'
      BY <1>4, <2>2 DEF DeactivateOld
    <3>4. TypeOK' /\ MutexInv' /\ DeadInv'
      BY <1>4, <2>2 DEF DeactivateOld
    <3> QED
      BY <3>2, <3>3, <3>4
  <2> QED
    BY <2>1, <2>2
<1>5. CASE ReleaseOld
  BY <1>5 DEF ReleaseOld
<1>6. CASE RequestGranted
  BY <1>6 DEF RequestGranted, Store, NoMove
<1>7. CASE RequestRefused
  BY <1>7 DEF RequestRefused, Store, NoMove
<1>8. CASE RequestFails
  BY <1>8, NothingMoves DEF RequestFails, Die
<1> QED
  BY <1>1, <1>2, <1>3, <1>4, <1>5, <1>6, <1>7, <1>8 DEF Command

\* The worker keeps the mutex where it operates the outputs, and leaves the
\* chip's list and the controller's pairs alone.
LEMMA WorkerKeepsTypes ==
  TypeOK /\ MutexInv /\ Worker =>
    TypeOK' /\ MutexInv' /\ UNCHANGED <<requests, output, command>>
<1> SUFFICES ASSUME TypeOK, MutexInv, Worker
             PROVE  TypeOK' /\ MutexInv' /\ UNCHANGED <<requests, output, command>>
  OBVIOUS
<1> USE DEF TypeOK, MutexInv, Pin, WorkerPC, Device, chip, command, worker, Goto
<1>1. CASE StartJob
  BY <1>1 DEF StartJob
<1>2. CASE ReadPumpFlag
  BY <1>2 DEF ReadPumpFlag
<1>3. CASE OnLock
  BY <1>3 DEF OnLock
<1>4. CASE ValveOn
  BY <1>4 DEF ValveOn, Operate, Die
<1>5. CASE PumpOn
  BY <1>5 DEF PumpOn, Operate, Die
<1>6. CASE EndIrrigation
  BY <1>6 DEF EndIrrigation
<1>7. CASE UpdateValve
  BY <1>7 DEF UpdateValve, ReadPointer
<1>8. CASE UpdatePump
  BY <1>8 DEF UpdatePump, ReadPointer
<1>9. CASE UseValve
  BY <1>9 DEF UseValve, UsePointer, UseDeadPointer, DeadPointerDies, Die
<1>10. CASE UsePump
  BY <1>10 DEF UsePump, UsePointer, UseDeadPointer, DeadPointerDies, Die
<1>11. CASE Branch
  BY <1>11 DEF Branch
<1>12. CASE OffLock
  BY <1>12 DEF OffLock
<1>13. CASE OffRead
  BY <1>13 DEF OffRead
<1>14. CASE ValveOff
  BY <1>14 DEF ValveOff, Operate, Die
<1>15. CASE PumpOff
  BY <1>15 DEF PumpOff, Operate, Die, AllOn
<1>16. CASE EndRest
  BY <1>16 DEF EndRest
<1> QED
  BY <1>1, <1>2, <1>3, <1>4, <1>5, <1>6, <1>7, <1>8, <1>9, <1>10, <1>11, <1>12,
     <1>13, <1>14, <1>15, <1>16 DEF Worker

\* The worker turns a line on only through a pin, under the mutex.
LEMMA WorkerTurnsOn ==
  ASSUME TypeOK, MutexInv, Worker, NEW o \in Offset, line'[o], ~line[o]
  PROVE  mutex = "worker" /\ \E d \in Device : output[d].pin # "null" /\ o = output[d].offset
<1> USE DEF TypeOK, MutexInv, Pin, Device, chip
<1>1. CASE ValveOn
  BY <1>1 DEF ValveOn, Operate, Die
<1>2. CASE PumpOn
  BY <1>2 DEF PumpOn, Operate, Die
<1>3. CASE ValveOff \/ PumpOff
  BY <1>3 DEF ValveOff, PumpOff, Operate, Die
<1>4. CASE UseValve \/ UsePump
  BY <1>4 DEF UseValve, UsePump, UsePointer, UseDeadPointer, DeadPointerDies, Die
<1>5. CASE UNCHANGED line
  BY <1>5
<1> QED
  BY <1>1, <1>2, <1>3, <1>4, <1>5
  DEF Worker, StartJob, ReadPumpFlag, OnLock, EndIrrigation, UpdateValve, UpdatePump,
      ReadPointer, Branch, OffLock, OffRead, EndRest

LEMMA WorkerKeeps == OutputsInv /\ Worker => OutputsInv'
<1> SUFFICES ASSUME OutputsInv, Worker PROVE OutputsInv'
  OBVIOUS
<1>1. TypeOK' /\ MutexInv' /\ UNCHANGED <<requests, output, command>>
  BY WorkerKeepsTypes DEF OutputsInv
<1>2. DeadInv' /\ BooksAgree'
  BY <1>1 DEF OutputsInv, DeadInv, BooksAgree, Live, command
<1>3. \A o \in Offset : line'[o] /\ ~line[o] =>
        mutex = "worker" /\ \E d \in Device : output[d].pin # "null" /\ o = output[d].offset
  BY WorkerTurnsOn DEF OutputsInv
<1>4. MoveInv'
  <2> SUFFICES ASSUME cpc = "release"
               PROVE  /\ output[move.device].pin = "live"
                      /\ ~line'[output[move.device].offset]
    BY <1>1 DEF MoveInv, command
  <2>1. mutex # "worker"
    BY DEF OutputsInv, MutexInv
  <2>2. output[move.device].offset \in Offset
    BY DEF OutputsInv, TypeOK
  <2> QED
    BY <1>3, <2>1, <2>2 DEF OutputsInv, MoveInv
<1>5. ReleasedLinesAreOff'
  <2> SUFFICES ASSUME NEW o \in Offset \ requests PROVE ~line'[o]
    BY <1>1 DEF ReleasedLinesAreOff
  <2>1. ASSUME line'[o], ~line[o] PROVE FALSE
    <3>1. PICK d \in Device : output[d].pin # "null" /\ o = output[d].offset
      BY <1>3, <2>1
    <3>2. output[d].pin # "dead"
      BY <1>3, <2>1 DEF OutputsInv, MutexInv, DeadInv
    <3>3. Live(d)
      BY <3>1, <3>2 DEF OutputsInv, TypeOK, Pin, Live
    <3> QED
      BY <3>1, <3>3 DEF OutputsInv, BooksAgree
  <2> QED
    BY <2>1 DEF OutputsInv, ReleasedLinesAreOff
<1> QED
  BY <1>1, <1>2, <1>4, <1>5 DEF OutputsInv

-----------------------------------------------------------------------------

LEMMA OutputsInductive == Spec => []OutputsInv
<1>1. OutputsInv /\ UNCHANGED vars => OutputsInv'
  BY NothingMoves DEF vars, OutputsInv, TypeOK
<1> QED
  BY OutputsInit, CommandKeeps, WorkerKeeps, <1>1, PTL DEF Spec, Next

(* The variables keep their types, whatever offsets are typed and refused. *)
THEOREM OutputsTypeCorrect == Spec => []TypeOK
BY OutputsInductive, PTL DEF OutputsInv

(* The chip's list of requests and the controller's (offset, pin) pairs    *)
(* agree, and no two outputs share a line.                                 *)
THEOREM BooksAlwaysAgree == Spec => []BooksAgree
BY OutputsInductive, PTL DEF OutputsInv

(* A line whose request was released is off, whatever the worker was doing *)
(* while its output was moved.                                             *)
THEOREM ReleasedLinesStayOff == Spec => []ReleasedLinesAreOff
BY OutputsInductive, PTL DEF OutputsInv

(* Where the worker holds the hardware mutex it never meets a pin whose    *)
(* request is gone.                                                        *)
THEOREM LockedWritesStayLive == Spec => []LockedWritesAreLive
<1>1. OutputsInv => LockedWritesAreLive
  BY DEF OutputsInv, MutexInv, DeadInv, LockedWritesAreLive
<1> QED
  BY OutputsInductive, <1>1, PTL

(* Moving one device's output leaves the other device's pin and line as    *)
(* they are.                                                               *)
THEOREM MovesKeepTheOtherDevice == Spec => MovesKeepTheOther
<1>1. OutputsInv /\ Moving =>
        LET d == Other(move.device)
        IN  output'[d] = output[d]
            /\ (Live(d) => line'[output[d].offset] = line[output[d].offset])
  <2> SUFFICES ASSUME OutputsInv, Moving, NEW d \in Device, d = Other(move.device)
               PROVE  output'[d] = output[d]
                      /\ (Live(d) => line'[output[d].offset] = line[output[d].offset])
    BY DEF Other, Device
  <2> USE DEF Device, Other, OutputsInv, TypeOK, Pin, Live, BooksAgree, DeadInv, MoveInv
  <2>1. CASE LockForMove
    BY <2>1 DEF LockForMove, chip
  <2>2. CASE DeactivateOld
    BY <2>2 DEF DeactivateOld, Die, chip
  <2>3. CASE ReleaseOld
    BY <2>3 DEF ReleaseOld
  <2>4. CASE RequestGranted
    BY <2>4 DEF RequestGranted, Store
  <2>5. CASE RequestRefused
    BY <2>5 DEF RequestRefused, Store, chip
  <2>6. CASE RequestFails
    BY <2>6 DEF RequestFails, Die, chip
  <2> QED
    BY <2>1, <2>2, <2>3, <2>4, <2>5, <2>6 DEF Moving
<1> QED
  BY OutputsInductive, <1>1, PTL DEF Spec, MovesKeepTheOther

=============================================================================
