------------------------ MODULE FlowRefinementProofs ------------------------
(***************************************************************************)
(* The threads of DailyCycleAWS, under settled use, take only steps of     *)
(* IrrigationFlow: proved for any set of worker identities, any commands   *)
(* and any counter width.                                                  *)
(*                                                                         *)
(* Careful use alone does not give it: a start that displaces a worker     *)
(* ends a job in the middle of a cycle.  An operator who waits for the     *)
(* first activation never meets such a worker (SettledInv), so the one     *)
(* thread that exists is the flow's job from its creation to its join.     *)
(***************************************************************************)
EXTENDS FlowRefinement, CarefulUseProofs

\* While a command is executed, a worker that exists shows in the state; so a
\* start never finds one, and none is displaced.
NoneDisplaced ==
  /\ cpc \notin {"ready", "exited"} => Settled
  /\ replaced = NoWorker

\* A job has a device to water with, from its start to its join.
JobHasDevice == handle # NoWorker => \E d \in Device : enabled[d]

\* What a shut-off returns to is a rest or the end, not the irrigation.
ShutOffInv ==
  \A w \in Worker :
    wpc[w] \in {"off_lock", "off_valve", "off_pump"} => cont[w] # "irr_end"

\* The inductive invariant of settled use.
SettledInv ==
  /\ CarefulInv
  /\ NoneDisplaced /\ JobHasDevice /\ ShutOffInv

-----------------------------------------------------------------------------
(* The inductive invariant *)

\* Settled use is careful use, so its flags are stored between jobs only.
LEMMA SettledIsGuarded ==
  CarefulInv /\ [SettledNext]_vars => [CarefulNext]_vars /\ [GuardedNext]_vars
<1>1. [SettledNext]_vars => [CarefulNext]_vars
  BY DEF SettledNext, CarefulNext, LoadWhenSettled
<1>2. QED
  BY <1>1, CarefulIsGuarded DEF CarefulInv

\* A start returns with the worker it created, or does not get to create one.
LEMMA NoneDisplacedStep ==
  CarefulInv /\ NoneDisplaced /\ [SettledNext]_vars => NoneDisplaced'
<1> SUFFICES ASSUME CarefulInv, NoneDisplaced, [SettledNext]_vars
             PROVE  NoneDisplaced'
  OBVIOUS
<1> USE WorkerAssumption
    DEF NoneDisplaced, Settled, isRunning, CarefulInv, SafetyInv, TypeOK,
        CommandInv, threadVars
<1>1. CASE Operator /\ Settled
  BY <1>1 DEF Operator, StartCommand, requestShutdown, emergencyAbort, Exit,
     BeginShutdown, LoadCommand, SetEnabled, SetDigitalOutputID, MoveOutput,
     sharedVars
<1>2. CASE StartWorker
  BY <1>2 DEF StartWorker, Return
<1>3. CASE ReplaceStop \/ ReplaceJoin
  BY <1>3 DEF ReplaceStop, ReplaceJoin
<1>4. CASE RequestStop \/ NotifyOne \/ JoinWorker
  BY <1>4 DEF RequestStop, NotifyOne, JoinWorker, Continue, sharedVars
<1>5. CASE ResetState
  BY <1>5 DEF ResetState
<1>6. CASE CommandStep /\ ~ThreadAction /\ ~ResetState
  <2>1. UNCHANGED <<threadVars, state, counter>>
    BY <1>6, CommandFrame, ResetFrame
  <2>2. cpc # "ready"
    BY <1>6 DEF CommandStep, ThreadAction, StartRefused, ResetState, LoadRejected,
       LoadValveEnabled, LoadPumpEnabled, LoadValveOutput, LoadPumpOutput, ReadName,
       NameThrows
  <2>3. cpc # "exited"
    BY <1>6 DEF CommandStep, ThreadAction, StartRefused, ResetState, LoadRejected,
       LoadValveEnabled, LoadPumpEnabled, LoadValveOutput, LoadPumpOutput, ReadName,
       NameThrows
  <2>4. QED
    BY <2>1, <2>2, <2>3
<1>7. ASSUME NEW w \in Worker, WorkerMove(w)
      PROVE  NoneDisplaced'
  BY <1>7, WorkerFrame DEF commandVars
<1>8. CASE UNCHANGED vars
  BY <1>8 DEF vars, sharedVars, commandVars
<1>9. QED
  BY <1>1, <1>2, <1>3, <1>4, <1>5, <1>6, <1>7, <1>8
     DEF SettledNext, Threads, CommandStep, ThreadAction, WorkerMove, Exited

\* A job is given a device by the start's test, and keeps it because no flag
\* changes while a worker exists.
LEMMA JobHasDeviceStep ==
  CarefulInv /\ NoneDisplaced /\ JobHasDevice /\ [SettledNext]_vars
    => JobHasDevice'
<1> SUFFICES ASSUME CarefulInv, NoneDisplaced, JobHasDevice, [SettledNext]_vars
             PROVE  JobHasDevice'
  OBVIOUS
<1> USE WorkerAssumption
    DEF NoneDisplaced, JobHasDevice, CarefulInv, SafetyInv, TypeOK, ThreadInv,
        threadVars
<1>1. CASE StartWorker
  BY <1>1 DEF StartWorker, sharedVars
<1>2. CASE ReplaceStop \/ ReplaceJoin
  BY <1>2 DEF ReplaceStop, ReplaceJoin, CommandInv
<1>3. CASE RequestStop \/ NotifyOne \/ JoinWorker
  BY <1>3 DEF RequestStop, NotifyOne, JoinWorker, sharedVars
<1>4. CASE ConfigureAction /\ DocumentedUse
  BY <1>4, ConfigureFrame, CommandFrame
     DEF ConfigureAction, SetEnabled, LoadValveEnabled, LoadPumpEnabled
<1>5. CASE MoveAction
  BY <1>5, MoveFrame
     DEF MoveAction, SetDigitalOutputID, LoadValveOutput, LoadPumpOutput, MoveOutput
<1>6. CASE /\ Operator \/ CommandStep
           /\ ~ConfigureAction /\ ~MoveAction /\ ~ThreadAction
  BY <1>6, QuietFrame, CommandFrame
<1>7. ASSUME NEW w \in Worker, WorkerMove(w)
      PROVE  JobHasDevice'
  BY <1>7, WorkerFrame
<1>8. CASE UNCHANGED vars
  BY <1>8 DEF vars, sharedVars
<1>9. [GuardedNext]_vars
  BY SettledIsGuarded
<1>10. QED
  BY <1>1, <1>2, <1>3, <1>4, <1>5, <1>6, <1>7, <1>8, <1>9
     DEF GuardedNext, Next, Threads, ThreadAction, WorkerMove, Exited

\* A shut-off is entered with what follows it decided, at both of its entries.
LEMMA ShutOffInvStep ==
  CarefulInv /\ ShutOffInv /\ [SettledNext]_vars => ShutOffInv'
<1> SUFFICES ASSUME CarefulInv, ShutOffInv, [SettledNext]_vars
             PROVE  ShutOffInv'
  OBVIOUS
<1> USE DEF ShutOffInv, CarefulInv, SafetyInv, TypeOK
<1>1. CASE ThreadAction
  BY <1>1, ThreadFrame DEF Stays
<1>2. CASE (Operator \/ CommandStep) /\ ~ThreadAction
  BY <1>2, CommandFrame DEF workerVars
<1>3. ASSUME NEW w \in Worker,
             \/ ReadWasValve(w) \/ ReadWasPump(w) \/ LockStopMutex(w)
             \/ LoopTest(w) \/ Activate(w) \/ ValveOn(w) \/ WaitBlock(w)
             \/ WaitTimeout(w) \/ SpuriousWakeup(w) \/ IrrigationEnd(w)
             \/ CountCycle(w) \/ Teardown(w)
      PROVE  ShutOffInv'
  BY <1>3 DEF ReadWasValve, ReadWasPump, LockStopMutex, LoopTest, Activate,
     ValveOn, WaitBlock, WaitTimeout, SpuriousWakeup, IrrigationEnd, CountCycle,
     Teardown, Goto
<1>4. ASSUME NEW w \in Worker, PumpOn(w)
      PROVE  ShutOffInv'
  BY <1>4 DEF PumpOn, Goto
<1>5. ASSUME NEW w \in Worker, WaitCheck(w) \/ WaitReturn(w)
      PROVE  ShutOffInv'
  BY <1>5 DEF WaitCheck, WaitReturn, Goto
<1>6. ASSUME NEW w \in Worker, Branch(w)
      PROVE  ShutOffInv'
  BY <1>6 DEF Branch, Goto
<1>7. ASSUME NEW w \in Worker, UpdateValve(w) \/ UpdatePump(w)
      PROVE  ShutOffInv'
  BY <1>7 DEF UpdateValve, UpdatePump, UpdateDevice, Goto
<1>8. ASSUME NEW w \in Worker, OffLock(w) \/ ValveOff(w) \/ PumpOff(w)
      PROVE  ShutOffInv'
  BY <1>8 DEF OffLock, ValveOff, PumpOff, Goto
<1>9. CASE UNCHANGED vars
  BY <1>9 DEF vars, workerVars
<1>10. QED
  BY <1>1, <1>2, <1>3, <1>4, <1>5, <1>6, <1>7, <1>8, <1>9
     DEF SettledNext, Threads, WorkerStep, Exited

\* The invariant of settled use holds before the first command ...
LEMMA SettledInvInit == Init => SettledInv
<1> SUFFICES ASSUME Init PROVE SettledInv
  OBVIOUS
<1>1. CarefulInv
  BY CarefulInvInit
<1>2. NoneDisplaced /\ JobHasDevice /\ ShutOffInv
  BY DEF Init, NoneDisplaced, JobHasDevice, ShutOffInv
<1>3. QED
  BY <1>1, <1>2 DEF SettledInv

\* ... and every step of settled use keeps it.
LEMMA SettledInvStep == SettledInv /\ [SettledNext]_vars => SettledInv'
BY SettledIsGuarded, CarefulInvStep, NoneDisplacedStep, JobHasDeviceStep,
   ShutOffInvStep DEF SettledInv

\* Under settled use no worker is ever displaced, a job always has a device to
\* water with, and careful use's guarantees hold.
THEOREM SettledInvariant == SettledSpec => []SettledInv
BY SettledInvInit, SettledInvStep, PTL DEF SettledSpec

-----------------------------------------------------------------------------
(* The refinement mapping *)

\* The flow's phase, as the mapping defines it.
jobPhase == IF handle = NoWorker THEN "stopped" ELSE PhaseOf(handle)

\* A worker that exists is the flow's job.
LEMMA OnlyWorkerIsTheJob ==
  ASSUME SettledInv, NEW w \in Worker, wpc[w] # "none"
  PROVE  w = handle /\ handle # NoWorker /\ jobPhase = PhaseOf(w)
BY WorkerAssumption
   DEF SettledInv, CarefulInv, SafetyInv, TypeOK, ThreadInv, NoneDisplaced,
       jobPhase

\* With no device being operated, the job is in one of three phases.
LEMMA QuietPhases ==
  ASSUME SettledInv, hwMutex = NoWorker
  PROVE  jobPhase \in {"stopped", "resting", "watering"}
BY WorkerAssumption
   DEF SettledInv, CarefulInv, SafetyInv, TypeOK, MutexInv, Operating, PhaseOf,
       jobPhase

\* A worker's step that stays in one phase and touches no output is a stutter.
LEMMA WorkerStutter ==
  ASSUME SettledInv, NEW w \in Worker, WorkerMove(w), UNCHANGED output,
         PhaseOf(w)' = PhaseOf(w)
  PROVE  UNCHANGED Flow!flowVars
<1>1. /\ UNCHANGED <<threadVars, commandVars, enabled>>
      /\ wpc[w] # "none"
  BY WorkerFrame DEF SettledInv, CarefulInv, SafetyInv
<1>2. w = handle /\ handle # NoWorker
  BY <1>1, OnlyWorkerIsTheJob
<1>3. QED
  BY <1>1, <1>2 DEF Flow!flowVars, threadVars


\* Flags change only between jobs.
LEMMA ConfigureRefines ==
  ASSUME SettledInv, ConfigureAction, DocumentedUse
  PROVE  [Flow!FlowNext]_(Flow!flowVars)
<1>1. TypeOK /\ CommandInv /\ ThreadInv
  BY DEF SettledInv, CarefulInv, SafetyInv
<1>2. UNCHANGED <<output, handle, wpc, cont>>
  BY <1>1, ConfigureFrame
     DEF ConfigureAction, SetEnabled, LoadValveEnabled, LoadPumpEnabled, threadVars
<1>3. CASE enabled' = enabled
  BY <1>2, <1>3 DEF Flow!flowVars, PhaseOf, Irrigates
<1>4. CASE enabled' # enabled
  <2>1. handle = NoWorker
    BY <1>1, <1>4, ConfigureFrame DEF ThreadInv, TypeOK
  <2>2. \E d \in Device, b \in BOOLEAN : enabled' = [enabled EXCEPT ![d] = b]
    BY DEF ConfigureAction, SetEnabled, LoadValveEnabled, LoadPumpEnabled, Device
  <2>3. \E d \in Flow!Device, b \in BOOLEAN : Flow!Configure(d, b)
    BY <1>2, <2>1, <2>2 DEF Flow!Configure, Flow!Device, Device
  <2>4. QED
    BY <2>3 DEF Flow!FlowNext
<1>5. QED
  BY <1>3, <1>4

\* Outputs are moved while no device is being operated.
LEMMA MoveRefines ==
  ASSUME SettledInv, MoveAction
  PROVE  [Flow!FlowNext]_(Flow!flowVars)
<1>1. /\ UNCHANGED <<enabled, handle, wpc, cont>>
      /\ \/ output' = output
         \/ hwMutex = NoWorker /\ \E d \in Device : output' = [output EXCEPT ![d] = FALSE]
  BY DEF MoveAction, SetDigitalOutputID, LoadValveOutput, LoadPumpOutput, MoveOutput,
     sharedVars, threadVars, workerVars, Device
<1>2. CASE output' = output
  BY <1>1, <1>2 DEF Flow!flowVars, PhaseOf, Irrigates
<1>3. CASE hwMutex = NoWorker /\ \E d \in Device : output' = [output EXCEPT ![d] = FALSE]
  <2>1. jobPhase \in {"stopped", "resting", "watering"} /\ jobPhase' = jobPhase
    BY <1>1, <1>3, QuietPhases DEF jobPhase, PhaseOf, Irrigates
  <2>2. \E d \in Flow!Device : Flow!MoveToNewPin(d)
    BY <1>1, <1>3, <2>1 DEF Flow!MoveToNewPin, Flow!Set, Flow!Device, Device, jobPhase
  <2>3. QED
    BY <2>2 DEF Flow!FlowNext
<1>4. QED
  BY <1>1, <1>2, <1>3

\* A job begins with its thread and ends with its join.
LEMMA ThreadRefines ==
  ASSUME SettledInv, ThreadAction
  PROVE  [Flow!FlowNext]_(Flow!flowVars)
<1> USE WorkerAssumption
<1>1. TypeOK /\ CommandInv /\ NoneDisplaced
  BY DEF SettledInv, CarefulInv, SafetyInv
<1>2. UNCHANGED <<enabled, output>>
  BY <1>1, ThreadFrame
<1>3. CASE StartWorker
  <2>1. handle = NoWorker /\ \E d \in Device : enabled[d]
    BY <1>1, <1>3 DEF StartWorker, NoneDisplaced, Settled
  <2>2. handle' # NoWorker /\ wpc'[handle'] = "read_valve"
    BY <1>1, <1>3 DEF StartWorker, TypeOK, Alive
  <2>3. jobPhase = "stopped" /\ jobPhase' = "resting"
    BY <2>1, <2>2 DEF jobPhase, PhaseOf, Irrigates
  <2>4. Flow!Start
    BY <1>2, <2>1, <2>3 DEF Flow!Start, Flow!Move, Flow!Device, Device, jobPhase
  <2>5. QED
    BY <2>4 DEF Flow!FlowNext
<1>4. CASE JoinWorker
  <2>1. handle # NoWorker /\ handle' = NoWorker /\ wpc[handle] = "done"
    BY <1>1, <1>4 DEF JoinWorker, Join, CommandInv
  <2>2. jobPhase = "resting" /\ jobPhase' = "stopped"
    BY <2>1 DEF jobPhase, PhaseOf, Irrigates
  <2>3. Flow!Stop
    BY <1>2, <2>2 DEF Flow!Stop, Flow!Move, jobPhase
  <2>4. QED
    BY <2>3 DEF Flow!FlowNext
<1>5. CASE RequestStop
  BY <1>2, <1>5 DEF RequestStop, workerVars, Flow!flowVars, PhaseOf, Irrigates
<1>6. CASE NotifyOne
  <2>1. UNCHANGED <<handle, cont>> /\ handle \in Worker
    BY <1>1, <1>6 DEF NotifyOne, threadVars, CommandInv, TypeOK
  <2>2. \/ wpc'[handle] = wpc[handle]
        \/ wpc[handle] = "wait" /\ wpc'[handle] = "wake"
    BY <1>1, <1>6, <2>1 DEF NotifyOne, Waiting, TypeOK
  <2>3. jobPhase' = jobPhase
    BY <2>1, <2>2 DEF jobPhase, PhaseOf, Irrigates
  <2>4. QED
    BY <1>2, <2>3 DEF Flow!flowVars, jobPhase
<1>7. CASE ReplaceStop \/ ReplaceJoin
  BY <1>1, <1>7 DEF ReplaceStop, ReplaceJoin, CommandInv, NoneDisplaced
<1>8. QED
  BY <1>3, <1>4, <1>5, <1>6, <1>7 DEF ThreadAction


\* The worker's cycle is the flow's: its four accesses to the outputs are the
\* flow's four steps, all others leave the flow where it is.
LEMMA WorkerRefines ==
  ASSUME SettledInv, NEW w \in Worker, WorkerMove(w)
  PROVE  [Flow!FlowNext]_(Flow!flowVars)
<1> USE DEF TypeOK
<1>1. /\ TypeOK /\ MemoryInv /\ OutputsEnabled /\ JobHasDevice /\ ShutOffInv
      /\ UNCHANGED <<handle, enabled>>
      /\ w = handle /\ handle # NoWorker
      /\ jobPhase = PhaseOf(w) /\ jobPhase' = PhaseOf(w)'
  BY WorkerFrame, OnlyWorkerIsTheJob
     DEF SettledInv, CarefulInv, SafetyInv, threadVars, jobPhase
<1>2. CASE ValveOn(w)
  <2>1. PhaseOf(w) = "resting" /\ PhaseOf(w)' = "opening"
    BY <1>1, <1>2 DEF ValveOn, Goto, PhaseOf, Irrigates
  <2>2. output' = [output EXCEPT !["valve"] = enabled["valve"]]
    BY <1>1, <1>2 DEF ValveOn, OutputsEnabled, Device
  <2>3. Flow!OpenValve
    BY <1>1, <2>1, <2>2 DEF Flow!OpenValve, Flow!Move, Flow!Set, jobPhase
  <2>4. QED
    BY <2>3 DEF Flow!FlowNext
<1>3. CASE PumpOn(w)
  <2>1. PhaseOf(w) = "opening" /\ PhaseOf(w)' = "watering"
    BY <1>1, <1>3 DEF PumpOn, Goto, PhaseOf, Irrigates
  <2>2. output' = [output EXCEPT !["pump"] = enabled["pump"]]
    BY <1>1, <1>3 DEF PumpOn, OutputsEnabled, Device
  <2>3. Flow!StartPump
    BY <1>1, <2>1, <2>2 DEF Flow!StartPump, Flow!Move, Flow!Set, jobPhase
  <2>4. QED
    BY <2>3 DEF Flow!FlowNext
<1>4. CASE ValveOff(w)
  <2>1. PhaseOf(w) = "watering" /\ PhaseOf(w)' = "closing"
    BY <1>1, <1>4 DEF ValveOff, Goto, PhaseOf, Irrigates
  <2>2. output' = [output EXCEPT !["valve"] = FALSE]
    BY <1>1, <1>4 DEF ValveOff, Goto, MemoryInv, OutputsEnabled, Device
  <2>3. Flow!CloseValve
    BY <1>1, <2>1, <2>2 DEF Flow!CloseValve, Flow!Move, Flow!Set, jobPhase
  <2>4. QED
    BY <2>3 DEF Flow!FlowNext
<1>5. CASE PumpOff(w)
  <2>1. PhaseOf(w) = "closing" /\ PhaseOf(w)' = "resting"
    BY <1>1, <1>5 DEF PumpOff, Goto, PhaseOf, Irrigates, ShutOffInv
  <2>2. output' = [output EXCEPT !["pump"] = FALSE]
    BY <1>1, <1>5 DEF PumpOff, Goto, MemoryInv, OutputsEnabled, Device
  <2>3. Flow!StopPump
    BY <1>1, <2>1, <2>2 DEF Flow!StopPump, Flow!Move, Flow!Set, jobPhase
  <2>4. QED
    BY <2>3 DEF Flow!FlowNext
<1>6. CASE UpdateValve(w) \/ UpdatePump(w)
  <2>1. output' = output
    BY <1>1, <1>6
       DEF UpdateValve, UpdatePump, UpdateDevice, Goto, MemoryInv, OutputsEnabled, Device
  <2>2. wpc[w] \in {"upd_valve", "upd_pump"} /\ wpc'[w] \in {"upd_pump", "off_lock"}
    BY <1>1, <1>6
       DEF UpdateValve, UpdatePump, UpdateDevice, Goto, MemoryInv, JobHasDevice, Device
  <2>3. PhaseOf(w)' = PhaseOf(w)
    BY <2>2 DEF PhaseOf, Irrigates
  <2>4. QED
    BY <2>1, <2>3, WorkerStutter
<1>7. CASE \/ ReadWasValve(w) \/ ReadWasPump(w) \/ LockStopMutex(w)
           \/ LoopTest(w) \/ Activate(w) \/ CountCycle(w) \/ Teardown(w)
  <2>1. PhaseOf(w)' = PhaseOf(w) /\ output' = output
    BY <1>1, <1>7 DEF ReadWasValve, ReadWasPump, LockStopMutex, LoopTest, Activate,
       CountCycle, Teardown, Goto, PhaseOf, Irrigates, sharedVars
  <2>2. QED
    BY <2>1, WorkerStutter
<1>8. CASE \/ WaitCheck(w) \/ WaitBlock(w) \/ WaitReturn(w)
           \/ WaitTimeout(w) \/ SpuriousWakeup(w)
  <2>1. PhaseOf(w)' = PhaseOf(w) /\ output' = output
    BY <1>1, <1>8 DEF WaitCheck, WaitBlock, WaitReturn, WaitTimeout,
       SpuriousWakeup, Goto, PhaseOf, Irrigates, sharedVars
  <2>2. QED
    BY <2>1, WorkerStutter
<1>9. CASE IrrigationEnd(w) \/ Branch(w) \/ OffLock(w)
  <2>1. PhaseOf(w)' = PhaseOf(w) /\ output' = output
    BY <1>1, <1>9 DEF IrrigationEnd, Branch, OffLock, Goto, PhaseOf, Irrigates,
       sharedVars
  <2>2. QED
    BY <2>1, WorkerStutter
<1>10. QED
  BY <1>2, <1>3, <1>4, <1>5, <1>6, <1>7, <1>8, <1>9 DEF WorkerMove, WorkerStep

\* Every step of settled use is a step of the flow, or leaves it as it is.
LEMMA StepRefines ==
  SettledInv /\ [SettledNext]_vars => [Flow!FlowNext]_(Flow!flowVars)
<1> SUFFICES ASSUME SettledInv, [SettledNext]_vars
             PROVE  [Flow!FlowNext]_(Flow!flowVars)
  OBVIOUS
<1>1. CASE ConfigureAction /\ DocumentedUse
  BY <1>1, ConfigureRefines
<1>2. CASE MoveAction
  BY <1>2, MoveRefines
<1>3. CASE ThreadAction
  BY <1>3, ThreadRefines
<1>4. CASE /\ Operator \/ CommandStep
           /\ ~ConfigureAction /\ ~MoveAction /\ ~ThreadAction
  BY <1>4, QuietFrame, CommandFrame
     DEF SettledInv, CarefulInv, SafetyInv, threadVars, workerVars,
         Flow!flowVars, PhaseOf, Irrigates
<1>5. ASSUME NEW w \in Worker, WorkerMove(w)
      PROVE  [Flow!FlowNext]_(Flow!flowVars)
  BY <1>5, WorkerRefines
<1>6. CASE UNCHANGED vars
  BY <1>6 DEF vars, sharedVars, threadVars, workerVars, Flow!flowVars, PhaseOf,
     Irrigates
<1>7. [GuardedNext]_vars
  BY SettledIsGuarded DEF SettledInv
<1>8. QED
  BY <1>1, <1>2, <1>3, <1>4, <1>5, <1>6, <1>7
     DEF GuardedNext, Next, Threads, ThreadAction, WorkerMove, Exited

-----------------------------------------------------------------------------
(* The theorems *)

\* Under settled use the threads, the mutexes, the condition variable and the
\* commands in progress together do what the documented flow does, and no more.
THEOREM ThreadsImplementFlow == SettledSpec => StepsImplementFlow
<1>1. Init => Flow!FlowInit
  BY DEF Init, AllOff, Device, Flow!FlowInit, Flow!Device
<1>2. QED
  BY <1>1, SettledInvariant, StepRefines, PTL
     DEF SettledSpec, StepsImplementFlow, Flow!FlowSafety


\* What is proved of the flow, seen through the mapping.
FlowFacts == INSTANCE IrrigationFlowProofs WITH
               phase <- IF handle = NoWorker THEN "stopped" ELSE PhaseOf(handle),
               open  <- output

\* No water flows between jobs nor while the roots dry, and only through devices
\* in use: the flow's guarantees hold of the threads.
THEOREM ThreadsAreDryAtRest ==
  SettledSpec => [](Flow!DryAtRest /\ Flow!OnlyEnabledOpen)
<1>1. Flow!FlowInit => FlowFacts!FlowInit
  BY DEF Flow!FlowInit, FlowFacts!FlowInit, Flow!Device, FlowFacts!Device
<1>2. [Flow!FlowNext]_(Flow!flowVars) => [FlowFacts!FlowNext]_(FlowFacts!flowVars)
  BY Zenon DEF Flow!FlowNext, FlowFacts!FlowNext, Flow!flowVars, FlowFacts!flowVars,
     Flow!Configure, FlowFacts!Configure, Flow!Start, FlowFacts!Start,
     Flow!OpenValve, FlowFacts!OpenValve, Flow!StartPump, FlowFacts!StartPump,
     Flow!CloseValve, FlowFacts!CloseValve, Flow!StopPump, FlowFacts!StopPump,
     Flow!MoveToNewPin, FlowFacts!MoveToNewPin, Flow!Stop, FlowFacts!Stop,
     Flow!Move, FlowFacts!Move, Flow!Set, FlowFacts!Set, Flow!Device,
     FlowFacts!Device
<1>3. FlowFacts!DryAtRest /\ FlowFacts!OnlyEnabledOpen
        => Flow!DryAtRest /\ Flow!OnlyEnabledOpen
  BY DEF Flow!DryAtRest, FlowFacts!DryAtRest, Flow!OnlyEnabledOpen,
     FlowFacts!OnlyEnabledOpen, Flow!Device, FlowFacts!Device
<1>4. SettledSpec => FlowFacts!FlowSafety
  BY <1>1, <1>2, ThreadsImplementFlow, PTL
     DEF StepsImplementFlow, Flow!FlowSafety, FlowFacts!FlowSafety
<1>5. QED
  BY <1>3, <1>4, FlowFacts!FlowIsDryAtRest, FlowFacts!FlowOpensOnlyEnabled, PTL

=============================================================================
