-------------------------- MODULE CarefulUseProofs --------------------------
(***************************************************************************)
(* What careful use gives.  A load is not typed in the start window, so it *)
(* finds no worker once it has stopped what runs (LoadInv); with the       *)
(* careful use of the options, a device is then enabled or disabled     *)
(* only while no worker exists (GuardedNext).  So what a worker remembers  *)
(* of the devices is what they are (MemoryInv), whatever it turned on it   *)
(* turns off, and the mutexes (SafetyInv) keep a second worker from        *)
(* interfering meanwhile.                                                  *)
(***************************************************************************)
EXTENDS DailyCycleAWSProofs

\* What a worker remembers of the devices is what they are.
MemoryInv ==
  \A w \in Worker :
    /\ wpc[w] \notin {"none", "read_valve"} => was[w]["valve"] = enabled["valve"]
    /\ wpc[w] \notin {"none", "read_valve", "read_pump"}
         => was[w]["pump"] = enabled["pump"]
    /\ wpc[w] \in {"off_valve", "off_pump"} => off[w]["valve"] = enabled["valve"]
    /\ wpc[w] = "off_pump" => off[w]["pump"] = enabled["pump"]

\* Only a device in use is ever active.
OutputsEnabled == \A d \in Device : output[d] => enabled[d]

\* Between the two devices of one operation the valve is as it must be.
OrderInv ==
  \A w \in Worker :
    /\ wpc[w] = "pump_on" => output["valve"] \/ ~enabled["valve"]
    /\ wpc[w] = "off_pump" => ~output["valve"]

\* A load past its shutdown has no worker beside it, running before or not.
LoadInv == cpc \in LoadPC => handle = NoWorker

\* The inductive invariant of careful use.
CarefulInv ==
  /\ SafetyInv /\ LoadInv /\ MemoryInv /\ OutputsEnabled /\ OrderInv
  /\ OutputsNeedIrrigation

\* The three steps that store an enabled flag.
ConfigureAction ==
  \/ \E d \in Device, b \in BOOLEAN : SetEnabled(d, b)
  \/ LoadValveEnabled \/ LoadPumpEnabled

\* The three steps that move an output to another pin.
MoveAction ==
  (\E d \in Device : SetDigitalOutputID(d)) \/ LoadValveOutput \/ LoadPumpOutput

\* The steps that store a flag only while there is no worker.
GuardedNext == Next /\ DocumentedUse

-----------------------------------------------------------------------------
(* What the command thread's steps leave alone *)

\* A guarded step changes a flag only while there is no worker.
LEMMA ConfigureFrame ==
  ASSUME ConfigureAction, DocumentedUse, TypeOK
  PROVE  /\ UNCHANGED <<output, wpc, cont, was, off>>
         /\ enabled' = enabled \/ \A w \in Worker : wpc[w] = "none"
BY DEF ConfigureAction, SetEnabled, LoadValveEnabled, LoadPumpEnabled,
   DocumentedUse, Alive, workerVars

\* An output is moved with m_hardwareAccessMutex free, or not at all.
LEMMA MoveFrame ==
  ASSUME MoveAction, TypeOK
  PROVE  /\ UNCHANGED <<enabled, wpc, cont, was, off>>
         /\ \A d \in Device : output'[d] => output[d]
         /\ output' = output \/ hwMutex = NoWorker
<1> USE DEF MoveOutput, TypeOK, Device, sharedVars, workerVars
<1>1. CASE \E d \in Device : SetDigitalOutputID(d)
  BY <1>1 DEF SetDigitalOutputID
<1>2. CASE LoadValveOutput
  BY <1>2 DEF LoadValveOutput
<1>3. CASE LoadPumpOutput
  <2>1. CASE enabled["pump"]
    <3>1. MoveOutput("pump")
      BY <1>3, <2>1 DEF LoadPumpOutput
    <3>2. QED
      BY <3>1
  <2>2. CASE ~enabled["pump"]
    <3>1. UNCHANGED <<sharedVars, mutexVars, threadVars, workerVars>>
      BY <1>3, <2>2 DEF LoadPumpOutput
    <3>2. QED
      BY <3>1
  <2>3. QED
    BY <2>1, <2>2
<1>4. QED
  BY <1>1, <1>2, <1>3 DEF MoveAction

\* No other step touches an output or a flag; only a ThreadAction a thread.
LEMMA QuietFrame ==
  ASSUME TypeOK, Operator \/ CommandStep, ~ConfigureAction, ~MoveAction
  PROVE  /\ UNCHANGED <<enabled, output>>
         /\ ThreadAction \/ UNCHANGED <<wpc, cont, was, off>>
<1>1. UNCHANGED <<enabled, output>>
  BY DEF Operator, CommandStep, ConfigureAction, MoveAction, StartCommand,
     StartRefused, StartWorker, ReplaceStop, ReplaceJoin, requestShutdown,
     emergencyAbort, Exit, BeginShutdown, RequestStop, NotifyOne, JoinWorker,
     ResetState, LoadCommand, LoadRejected, ReadName, NameThrows, sharedVars
<1>2. ThreadAction \/ UNCHANGED <<wpc, cont, was, off>>
  BY CommandFrame DEF workerVars
<1>3. QED
  BY <1>1, <1>2

\* What worker w remembers does not change.
Stays(w) == UNCHANGED <<cont[w], was[w], off[w]>>

\* What a thread's creation, notification or join means for the threads: one
\* begins, is woken from its wait, or is gone after its end.
LEMMA ThreadFrame ==
  ASSUME TypeOK, ThreadAction
  PROVE  /\ UNCHANGED <<enabled, output>>
         /\ \A w \in Worker :
              \/ wpc'[w] = wpc[w] /\ Stays(w)
              \/ wpc[w] = "none" /\ wpc'[w] = "read_valve"
              \/ wpc[w] = "wait" /\ wpc'[w] = "wake" /\ Stays(w)
              \/ wpc[w] = "done" /\ wpc'[w] = "none"
<1> USE DEF TypeOK, Stays, sharedVars, workerVars
<1>1. CASE StartWorker
  BY <1>1 DEF StartWorker, Alive
<1>2. CASE ReplaceStop \/ RequestStop
  BY <1>2 DEF ReplaceStop, RequestStop
<1>3. CASE ReplaceJoin
  BY <1>3 DEF ReplaceJoin, Join
<1>4. CASE NotifyOne
  BY <1>4 DEF NotifyOne, Waiting
<1>5. CASE JoinWorker
  BY <1>5 DEF JoinWorker, Join
<1>6. QED
  BY <1>1, <1>2, <1>3, <1>4, <1>5 DEF ThreadAction

-----------------------------------------------------------------------------
(* The parts of the inductive invariant *)

\* What a worker has read stays true.
LEMMA MemoryInvStep ==
  SafetyInv /\ MemoryInv /\ [GuardedNext]_vars
    => MemoryInv'
<1> SUFFICES ASSUME SafetyInv, MemoryInv,
                    [GuardedNext]_vars
             PROVE  MemoryInv'
  OBVIOUS
<1> USE WorkerAssumption DEF MemoryInv, SafetyInv, TypeOK, Device, AllOff
<1>1. CASE ConfigureAction /\ DocumentedUse
  BY <1>1, ConfigureFrame
<1>2. CASE MoveAction
  BY <1>2, MoveFrame
<1>3. CASE ThreadAction
  BY <1>3, ThreadFrame DEF Stays
<1>4. CASE /\ Operator \/ CommandStep
           /\ ~ConfigureAction /\ ~MoveAction /\ ~ThreadAction
  BY <1>4, QuietFrame
<1>5. ASSUME NEW w \in Worker, ReadWasValve(w)
      PROVE  MemoryInv'
  BY <1>5 DEF ReadWasValve, Goto, sharedVars, workerVars
<1>6. ASSUME NEW w \in Worker, ReadWasPump(w)
      PROVE  MemoryInv'
  BY <1>6 DEF ReadWasPump, Goto, sharedVars, workerVars
<1>7. ASSUME NEW w \in Worker, LockStopMutex(w)
      PROVE  MemoryInv'
  BY <1>7 DEF LockStopMutex, Goto, sharedVars, workerVars
<1>8. ASSUME NEW w \in Worker, LoopTest(w)
      PROVE  MemoryInv'
  BY <1>8 DEF LoopTest, Goto, sharedVars, workerVars
<1>9. ASSUME NEW w \in Worker, Activate(w)
      PROVE  MemoryInv'
  BY <1>9 DEF Activate, Goto, sharedVars, workerVars
<1>10. ASSUME NEW w \in Worker, ValveOn(w)
      PROVE  MemoryInv'
  BY <1>10 DEF ValveOn, Goto, sharedVars, workerVars
<1>11. ASSUME NEW w \in Worker, PumpOn(w)
      PROVE  MemoryInv'
  BY <1>11 DEF PumpOn, Goto, sharedVars, workerVars
<1>12. ASSUME NEW w \in Worker, WaitCheck(w)
      PROVE  MemoryInv'
  BY <1>12 DEF WaitCheck, Goto, sharedVars, workerVars
<1>13. ASSUME NEW w \in Worker, WaitBlock(w)
      PROVE  MemoryInv'
  BY <1>13 DEF WaitBlock, Goto, sharedVars, workerVars
<1>14. ASSUME NEW w \in Worker, WaitTimeout(w)
      PROVE  MemoryInv'
  BY <1>14 DEF WaitTimeout, Goto, sharedVars, workerVars
<1>15. ASSUME NEW w \in Worker, SpuriousWakeup(w)
      PROVE  MemoryInv'
  BY <1>15 DEF SpuriousWakeup, Goto, sharedVars, workerVars
<1>16. ASSUME NEW w \in Worker, WaitReturn(w)
      PROVE  MemoryInv'
  BY <1>16 DEF WaitReturn, Goto, sharedVars, workerVars
<1>17. ASSUME NEW w \in Worker, IrrigationEnd(w)
      PROVE  MemoryInv'
  BY <1>17 DEF IrrigationEnd, Goto, sharedVars, workerVars
<1>18. ASSUME NEW w \in Worker, Branch(w)
      PROVE  MemoryInv'
  BY <1>18 DEF Branch, Goto, sharedVars, workerVars
<1>19. ASSUME NEW w \in Worker, UpdateValve(w)
      PROVE  MemoryInv'
  BY <1>19 DEF UpdateValve, Goto, UpdateDevice, sharedVars, workerVars
<1>20. ASSUME NEW w \in Worker, UpdatePump(w)
      PROVE  MemoryInv'
  BY <1>20 DEF UpdatePump, Goto, UpdateDevice, sharedVars, workerVars
<1>21. ASSUME NEW w \in Worker, OffLock(w)
      PROVE  MemoryInv'
  BY <1>21 DEF OffLock, Goto, sharedVars, workerVars
<1>22. ASSUME NEW w \in Worker, ValveOff(w)
      PROVE  MemoryInv'
  BY <1>22 DEF ValveOff, Goto, sharedVars, workerVars
<1>23. ASSUME NEW w \in Worker, PumpOff(w)
      PROVE  MemoryInv'
  BY <1>23 DEF PumpOff, Goto, sharedVars, workerVars
<1>24. ASSUME NEW w \in Worker, CountCycle(w)
      PROVE  MemoryInv'
  BY <1>24 DEF CountCycle, Goto, sharedVars, workerVars
<1>25. ASSUME NEW w \in Worker, Teardown(w)
      PROVE  MemoryInv'
  BY <1>25 DEF Teardown, Goto, sharedVars, workerVars
<1>26. CASE UNCHANGED vars
  BY <1>26 DEF vars, sharedVars, workerVars
<1>27. QED
  BY <1>1, <1>2, <1>3, <1>4, <1>5, <1>6, <1>7, <1>8, <1>9, <1>10, <1>11,
     <1>12, <1>13, <1>14, <1>15, <1>16, <1>17, <1>18, <1>19, <1>20, <1>21,
     <1>22, <1>23, <1>24, <1>25, <1>26
     DEF GuardedNext, Next, Threads, Exited, ThreadAction, WorkerStep

\* Only enabled devices are turned on, and a flag is cleared with its output off.
LEMMA OutputsEnabledStep ==
  SafetyInv /\ OutputsEnabled /\ OutputsNeedIrrigation /\ [GuardedNext]_vars
    => OutputsEnabled'
<1> SUFFICES ASSUME SafetyInv, OutputsEnabled, OutputsNeedIrrigation,
                    [GuardedNext]_vars
             PROVE  OutputsEnabled'
  OBVIOUS
<1> USE WorkerAssumption DEF OutputsEnabled, SafetyInv, TypeOK, Device
<1>1. CASE ConfigureAction /\ DocumentedUse
  BY <1>1, ConfigureFrame DEF OutputsNeedIrrigation, Irrigates
<1>2. CASE MoveAction
  BY <1>2, MoveFrame
<1>3. CASE ThreadAction
  BY <1>3, ThreadFrame DEF Stays
<1>4. CASE /\ Operator \/ CommandStep
           /\ ~ConfigureAction /\ ~MoveAction /\ ~ThreadAction
  BY <1>4, QuietFrame
<1>5. ASSUME NEW w \in Worker, ReadWasValve(w)
      PROVE  OutputsEnabled'
  BY <1>5 DEF ReadWasValve, Goto, sharedVars, workerVars
<1>6. ASSUME NEW w \in Worker, ReadWasPump(w)
      PROVE  OutputsEnabled'
  BY <1>6 DEF ReadWasPump, Goto, sharedVars, workerVars
<1>7. ASSUME NEW w \in Worker, LockStopMutex(w)
      PROVE  OutputsEnabled'
  BY <1>7 DEF LockStopMutex, Goto, sharedVars, workerVars
<1>8. ASSUME NEW w \in Worker, LoopTest(w)
      PROVE  OutputsEnabled'
  BY <1>8 DEF LoopTest, Goto, sharedVars, workerVars
<1>9. ASSUME NEW w \in Worker, Activate(w)
      PROVE  OutputsEnabled'
  BY <1>9 DEF Activate, Goto, sharedVars, workerVars
<1>10. ASSUME NEW w \in Worker, ValveOn(w)
      PROVE  OutputsEnabled'
  BY <1>10 DEF ValveOn, Goto, sharedVars, workerVars
<1>11. ASSUME NEW w \in Worker, PumpOn(w)
      PROVE  OutputsEnabled'
  BY <1>11 DEF PumpOn, Goto, sharedVars, workerVars
<1>12. ASSUME NEW w \in Worker, WaitCheck(w)
      PROVE  OutputsEnabled'
  BY <1>12 DEF WaitCheck, Goto, sharedVars, workerVars
<1>13. ASSUME NEW w \in Worker, WaitBlock(w)
      PROVE  OutputsEnabled'
  BY <1>13 DEF WaitBlock, Goto, sharedVars, workerVars
<1>14. ASSUME NEW w \in Worker, WaitTimeout(w)
      PROVE  OutputsEnabled'
  BY <1>14 DEF WaitTimeout, Goto, sharedVars, workerVars
<1>15. ASSUME NEW w \in Worker, SpuriousWakeup(w)
      PROVE  OutputsEnabled'
  BY <1>15 DEF SpuriousWakeup, Goto, sharedVars, workerVars
<1>16. ASSUME NEW w \in Worker, WaitReturn(w)
      PROVE  OutputsEnabled'
  BY <1>16 DEF WaitReturn, Goto, sharedVars, workerVars
<1>17. ASSUME NEW w \in Worker, IrrigationEnd(w)
      PROVE  OutputsEnabled'
  BY <1>17 DEF IrrigationEnd, Goto, sharedVars, workerVars
<1>18. ASSUME NEW w \in Worker, Branch(w)
      PROVE  OutputsEnabled'
  BY <1>18 DEF Branch, Goto, sharedVars, workerVars
<1>19. ASSUME NEW w \in Worker, UpdateValve(w)
      PROVE  OutputsEnabled'
  BY <1>19 DEF UpdateValve, Goto, UpdateDevice, sharedVars, workerVars
<1>20. ASSUME NEW w \in Worker, UpdatePump(w)
      PROVE  OutputsEnabled'
  BY <1>20 DEF UpdatePump, Goto, UpdateDevice, sharedVars, workerVars
<1>21. ASSUME NEW w \in Worker, OffLock(w)
      PROVE  OutputsEnabled'
  BY <1>21 DEF OffLock, Goto, sharedVars, workerVars
<1>22. ASSUME NEW w \in Worker, ValveOff(w)
      PROVE  OutputsEnabled'
  BY <1>22 DEF ValveOff, Goto, sharedVars, workerVars
<1>23. ASSUME NEW w \in Worker, PumpOff(w)
      PROVE  OutputsEnabled'
  BY <1>23 DEF PumpOff, Goto, sharedVars, workerVars
<1>24. ASSUME NEW w \in Worker, CountCycle(w)
      PROVE  OutputsEnabled'
  BY <1>24 DEF CountCycle, Goto, sharedVars, workerVars
<1>25. ASSUME NEW w \in Worker, Teardown(w)
      PROVE  OutputsEnabled'
  BY <1>25 DEF Teardown, Goto, sharedVars, workerVars
<1>26. CASE UNCHANGED vars
  BY <1>26 DEF vars, sharedVars, workerVars
<1>27. QED
  BY <1>1, <1>2, <1>3, <1>4, <1>5, <1>6, <1>7, <1>8, <1>9, <1>10, <1>11,
     <1>12, <1>13, <1>14, <1>15, <1>16, <1>17, <1>18, <1>19, <1>20, <1>21,
     <1>22, <1>23, <1>24, <1>25, <1>26
     DEF GuardedNext, Next, Threads, Exited, ThreadAction, WorkerStep

\* Between its two devices nothing disturbs an operation.
LEMMA OrderInvStep ==
  SafetyInv /\ OrderInv /\ MemoryInv /\ OutputsEnabled /\ [GuardedNext]_vars
    => OrderInv'
<1> SUFFICES ASSUME SafetyInv, OrderInv, MemoryInv, OutputsEnabled,
                    [GuardedNext]_vars
             PROVE  OrderInv'
  OBVIOUS
<1> USE WorkerAssumption DEF OrderInv, SafetyInv, TypeOK, MutexInv, Operating, MemoryInv, OutputsEnabled,
                            Device
<1>1. CASE ConfigureAction /\ DocumentedUse
  BY <1>1, ConfigureFrame
<1>2. CASE MoveAction
  BY <1>2, MoveFrame
<1>3. CASE ThreadAction
  BY <1>3, ThreadFrame DEF Stays
<1>4. CASE /\ Operator \/ CommandStep
           /\ ~ConfigureAction /\ ~MoveAction /\ ~ThreadAction
  BY <1>4, QuietFrame
<1>5. ASSUME NEW w \in Worker, ReadWasValve(w)
      PROVE  OrderInv'
  BY <1>5 DEF ReadWasValve, Goto, sharedVars, workerVars
<1>6. ASSUME NEW w \in Worker, ReadWasPump(w)
      PROVE  OrderInv'
  BY <1>6 DEF ReadWasPump, Goto, sharedVars, workerVars
<1>7. ASSUME NEW w \in Worker, LockStopMutex(w)
      PROVE  OrderInv'
  BY <1>7 DEF LockStopMutex, Goto, sharedVars, workerVars
<1>8. ASSUME NEW w \in Worker, LoopTest(w)
      PROVE  OrderInv'
  BY <1>8 DEF LoopTest, Goto, sharedVars, workerVars
<1>9. ASSUME NEW w \in Worker, Activate(w)
      PROVE  OrderInv'
  BY <1>9 DEF Activate, Goto, sharedVars, workerVars
<1>10. ASSUME NEW w \in Worker, ValveOn(w)
      PROVE  OrderInv'
  BY <1>10 DEF ValveOn, Goto, sharedVars, workerVars
<1>11. ASSUME NEW w \in Worker, PumpOn(w)
      PROVE  OrderInv'
  BY <1>11 DEF PumpOn, Goto, sharedVars, workerVars
<1>12. ASSUME NEW w \in Worker, WaitCheck(w)
      PROVE  OrderInv'
  BY <1>12 DEF WaitCheck, Goto, sharedVars, workerVars
<1>13. ASSUME NEW w \in Worker, WaitBlock(w)
      PROVE  OrderInv'
  BY <1>13 DEF WaitBlock, Goto, sharedVars, workerVars
<1>14. ASSUME NEW w \in Worker, WaitTimeout(w)
      PROVE  OrderInv'
  BY <1>14 DEF WaitTimeout, Goto, sharedVars, workerVars
<1>15. ASSUME NEW w \in Worker, SpuriousWakeup(w)
      PROVE  OrderInv'
  BY <1>15 DEF SpuriousWakeup, Goto, sharedVars, workerVars
<1>16. ASSUME NEW w \in Worker, WaitReturn(w)
      PROVE  OrderInv'
  BY <1>16 DEF WaitReturn, Goto, sharedVars, workerVars
<1>17. ASSUME NEW w \in Worker, IrrigationEnd(w)
      PROVE  OrderInv'
  BY <1>17 DEF IrrigationEnd, Goto, sharedVars, workerVars
<1>18. ASSUME NEW w \in Worker, Branch(w)
      PROVE  OrderInv'
  BY <1>18 DEF Branch, Goto, sharedVars, workerVars
<1>19. ASSUME NEW w \in Worker, UpdateValve(w)
      PROVE  OrderInv'
  BY <1>19 DEF UpdateValve, Goto, UpdateDevice, sharedVars, workerVars
<1>20. ASSUME NEW w \in Worker, UpdatePump(w)
      PROVE  OrderInv'
  BY <1>20 DEF UpdatePump, Goto, UpdateDevice, sharedVars, workerVars
<1>21. ASSUME NEW w \in Worker, OffLock(w)
      PROVE  OrderInv'
  BY <1>21 DEF OffLock, Goto, sharedVars, workerVars
<1>22. ASSUME NEW w \in Worker, ValveOff(w)
      PROVE  OrderInv'
  BY <1>22 DEF ValveOff, Goto, sharedVars, workerVars
<1>23. ASSUME NEW w \in Worker, PumpOff(w)
      PROVE  OrderInv'
  BY <1>23 DEF PumpOff, Goto, sharedVars, workerVars
<1>24. ASSUME NEW w \in Worker, CountCycle(w)
      PROVE  OrderInv'
  BY <1>24 DEF CountCycle, Goto, sharedVars, workerVars
<1>25. ASSUME NEW w \in Worker, Teardown(w)
      PROVE  OrderInv'
  BY <1>25 DEF Teardown, Goto, sharedVars, workerVars
<1>26. CASE UNCHANGED vars
  BY <1>26 DEF vars, sharedVars, workerVars
<1>27. QED
  BY <1>1, <1>2, <1>3, <1>4, <1>5, <1>6, <1>7, <1>8, <1>9, <1>10, <1>11,
     <1>12, <1>13, <1>14, <1>15, <1>16, <1>17, <1>18, <1>19, <1>20, <1>21,
     <1>22, <1>23, <1>24, <1>25, <1>26
     DEF GuardedNext, Next, Threads, Exited, ThreadAction, WorkerStep

\* Whatever a worker turned on it turns off when it stops irrigating.
LEMMA IrrigationStep ==
  SafetyInv /\ OutputsNeedIrrigation /\ OutputsEnabled /\ MemoryInv /\ [GuardedNext]_vars
    => OutputsNeedIrrigation'
<1> SUFFICES ASSUME SafetyInv, OutputsNeedIrrigation, OutputsEnabled, MemoryInv,
                    [GuardedNext]_vars
             PROVE  OutputsNeedIrrigation'
  OBVIOUS
<1> USE WorkerAssumption DEF SafetyInv, TypeOK, OutputsNeedIrrigation, Irrigates, Device
<1>1. CASE ConfigureAction /\ DocumentedUse
  BY <1>1, ConfigureFrame
<1>2. CASE MoveAction
  BY <1>2, MoveFrame
<1>3. CASE ThreadAction
  <2> SUFFICES ASSUME NEW d \in Device, output'[d]
               PROVE  \E v \in Worker : Irrigates(v, d)'
    OBVIOUS
  <2>1. PICK v \in Worker : Irrigates(v, d)
    BY <1>3, ThreadFrame
  <2>2. Irrigates(v, d)'
    BY <1>3, <2>1, ThreadFrame DEF Stays
  <2>3. QED
    BY <2>2
<1>4. CASE /\ Operator \/ CommandStep
           /\ ~ConfigureAction /\ ~MoveAction /\ ~ThreadAction
  BY <1>4, QuietFrame
<1>5. ASSUME NEW w \in Worker, ReadWasValve(w)
      PROVE  OutputsNeedIrrigation'
  BY <1>5 DEF ReadWasValve, Goto, sharedVars, workerVars
<1>6. ASSUME NEW w \in Worker, ReadWasPump(w)
      PROVE  OutputsNeedIrrigation'
  BY <1>6 DEF ReadWasPump, Goto, sharedVars, workerVars
<1>7. ASSUME NEW w \in Worker, LockStopMutex(w)
      PROVE  OutputsNeedIrrigation'
  BY <1>7 DEF LockStopMutex, Goto, sharedVars, workerVars
<1>8. ASSUME NEW w \in Worker, LoopTest(w)
      PROVE  OutputsNeedIrrigation'
  BY <1>8 DEF LoopTest, Goto, sharedVars, workerVars
<1>9. ASSUME NEW w \in Worker, Activate(w)
      PROVE  OutputsNeedIrrigation'
  BY <1>9 DEF Activate, Goto, sharedVars, workerVars
<1>10. ASSUME NEW w \in Worker, ValveOn(w)
      PROVE  OutputsNeedIrrigation'
  BY <1>10 DEF ValveOn, Goto, sharedVars, workerVars
<1>11. ASSUME NEW w \in Worker, PumpOn(w)
      PROVE  OutputsNeedIrrigation'
  BY <1>11 DEF PumpOn, Goto, sharedVars, workerVars
<1>12. ASSUME NEW w \in Worker, WaitCheck(w)
      PROVE  OutputsNeedIrrigation'
  BY <1>12 DEF WaitCheck, Goto, sharedVars, workerVars
<1>13. ASSUME NEW w \in Worker, WaitBlock(w)
      PROVE  OutputsNeedIrrigation'
  BY <1>13 DEF WaitBlock, Goto, sharedVars, workerVars
<1>14. ASSUME NEW w \in Worker, WaitTimeout(w)
      PROVE  OutputsNeedIrrigation'
  BY <1>14 DEF WaitTimeout, Goto, sharedVars, workerVars
<1>15. ASSUME NEW w \in Worker, SpuriousWakeup(w)
      PROVE  OutputsNeedIrrigation'
  BY <1>15 DEF SpuriousWakeup, Goto, sharedVars, workerVars
<1>16. ASSUME NEW w \in Worker, WaitReturn(w)
      PROVE  OutputsNeedIrrigation'
  BY <1>16 DEF WaitReturn, Goto, sharedVars, workerVars
<1>17. ASSUME NEW w \in Worker, IrrigationEnd(w)
      PROVE  OutputsNeedIrrigation'
  BY <1>17 DEF IrrigationEnd, Goto, sharedVars, workerVars
<1>18. ASSUME NEW w \in Worker, Branch(w)
      PROVE  OutputsNeedIrrigation'
  BY <1>18 DEF Branch, Goto, sharedVars, workerVars
<1>19. ASSUME NEW w \in Worker, UpdateValve(w)
      PROVE  OutputsNeedIrrigation'
  BY <1>19 DEF UpdateValve, Goto, UpdateDevice, sharedVars, workerVars
<1>20. ASSUME NEW w \in Worker, UpdatePump(w)
      PROVE  OutputsNeedIrrigation'
  <2> SUFFICES ASSUME NEW d \in Device, output'[d]
               PROVE  \E v \in Worker : Irrigates(v, d)'
    OBVIOUS
  <2>1. output[d] /\ (d = "pump" => enabled["pump"])
    BY <1>20 DEF UpdatePump, UpdateDevice, OutputsEnabled
  <2>2. PICK v \in Worker : Irrigates(v, d)
    BY <2>1
  <2>3. CASE v # w
    BY <1>20, <2>2, <2>3 DEF UpdatePump, Goto
  <2>4. CASE v = w
    <3>1. was'[w][d]
      BY <1>20, <2>1 DEF UpdatePump, UpdateDevice, Goto, MemoryInv, OutputsEnabled
    <3>2. wpc'[w] = "off_lock"
      BY <1>20, <3>1 DEF UpdatePump, Goto
    <3>3. QED
      BY <3>2
  <2>5. QED
    BY <2>3, <2>4
<1>21. ASSUME NEW w \in Worker, OffLock(w)
      PROVE  OutputsNeedIrrigation'
  BY <1>21 DEF OffLock, Goto, sharedVars, workerVars
<1>22. ASSUME NEW w \in Worker, ValveOff(w)
      PROVE  OutputsNeedIrrigation'
  <2> SUFFICES ASSUME NEW d \in Device, output'[d]
               PROVE  \E v \in Worker : Irrigates(v, d)'
    OBVIOUS
  <2>1. output[d] /\ d = "pump"
    BY <1>22 DEF ValveOff, Goto, MemoryInv, OutputsEnabled
  <2>2. Irrigates(w, "pump")'
    BY <1>22 DEF ValveOff, Goto
  <2>3. QED
    BY <2>1, <2>2
<1>23. ASSUME NEW w \in Worker, PumpOff(w)
      PROVE  OutputsNeedIrrigation'
  <2> SUFFICES ASSUME NEW d \in Device, output'[d]
               PROVE  \E v \in Worker : Irrigates(v, d)'
    OBVIOUS
  <2>1. output[d] /\ d = "valve"
    BY <1>23 DEF PumpOff, Goto, MemoryInv, OutputsEnabled
  <2>2. PICK v \in Worker : Irrigates(v, "valve")
    BY <2>1
  <2>3. v # w
    BY <1>23, <2>2 DEF PumpOff, Goto
  <2>4. Irrigates(v, "valve")'
    BY <1>23, <2>2, <2>3 DEF PumpOff, Goto
  <2>5. QED
    BY <2>1, <2>4
<1>24. ASSUME NEW w \in Worker, CountCycle(w)
      PROVE  OutputsNeedIrrigation'
  BY <1>24 DEF CountCycle, Goto, sharedVars, workerVars
<1>25. ASSUME NEW w \in Worker, Teardown(w)
      PROVE  OutputsNeedIrrigation'
  BY <1>25 DEF Teardown, Goto, sharedVars, workerVars
<1>26. CASE UNCHANGED vars
  BY <1>26 DEF vars, sharedVars, workerVars
<1>27. QED
  BY <1>1, <1>2, <1>3, <1>4, <1>5, <1>6, <1>7, <1>8, <1>9, <1>10, <1>11,
     <1>12, <1>13, <1>14, <1>15, <1>16, <1>17, <1>18, <1>19, <1>20, <1>21,
     <1>22, <1>23, <1>24, <1>25, <1>26
     DEF GuardedNext, Next, Threads, Exited, ThreadAction, WorkerStep

\* A load finds the system stopped, or stops and joins the worker it finds.
LEMMA LoadInvStep ==
  SafetyInv /\ LoadInv /\ [CarefulNext]_vars => LoadInv'
<1> SUFFICES ASSUME SafetyInv, LoadInv, [CarefulNext]_vars
             PROVE  LoadInv'
  OBVIOUS
<1> USE WorkerAssumption
    DEF LoadInv, LoadPC, SafetyInv, TypeOK, CommandInv, threadVars
<1>1. CASE LoadCommand /\ LoadWhenSettled
  BY <1>1 DEF LoadCommand, LoadWhenSettled, Settled, isRunning
<1>2. CASE Operator /\ ~LoadCommand
  BY <1>2 DEF Operator, StartCommand, requestShutdown, emergencyAbort, Exit,
     BeginShutdown, SetEnabled, SetDigitalOutputID
<1>3. CASE ThreadAction
  BY <1>3 DEF ThreadAction, StartWorker, ReplaceStop, ReplaceJoin, RequestStop,
     NotifyOne, JoinWorker, Return, Continue
<1>4. CASE ResetState
  BY <1>4 DEF ResetState, Continue, Return
<1>5. CASE \/ StartRefused \/ LoadRejected \/ LoadValveEnabled \/ LoadPumpEnabled
           \/ LoadValveOutput \/ LoadPumpOutput \/ ReadName \/ NameThrows
  <2>1. handle' = handle
    BY <1>5 DEF StartRefused, LoadRejected, LoadValveEnabled, LoadPumpEnabled,
       LoadValveOutput, LoadPumpOutput, MoveOutput, ReadName, NameThrows
  <2>2. cpc \in LoadPC \/ cpc' \notin LoadPC
    BY <1>5 DEF StartRefused, LoadRejected, LoadValveEnabled, LoadPumpEnabled,
       LoadValveOutput, LoadPumpOutput, ReadName, NameThrows, Return
  <2>3. QED
    BY <2>1, <2>2
<1>6. ASSUME NEW w \in Worker, WorkerMove(w)
      PROVE  LoadInv'
  BY <1>6, WorkerFrame DEF commandVars
<1>7. CASE UNCHANGED vars
  BY <1>7 DEF vars, commandVars
<1>8. QED
  BY <1>1, <1>2, <1>3, <1>4, <1>5, <1>6, <1>7
     DEF CarefulNext, Threads, CommandStep, ThreadAction, WorkerMove, Exited

\* Under careful use a flag is stored only while there is no worker: the
\* operator's options because the operator minds it, a load's flow because
\* of LoadInv, and nothing else stores one.
LEMMA CarefulIsGuarded ==
  SafetyInv /\ LoadInv /\ [CarefulNext]_vars => [GuardedNext]_vars
<1> SUFFICES ASSUME SafetyInv, LoadInv, CarefulNext
             PROVE  DocumentedUse
  BY DEF CarefulNext, GuardedNext, Next
<1> USE DEF SafetyInv, DocumentedUse
<1>1. CASE LoadValveEnabled \/ LoadPumpEnabled
  <2>1. handle = NoWorker /\ replaced = NoWorker
    BY <1>1 DEF LoadValveEnabled, LoadPumpEnabled, LoadInv, LoadPC, CommandInv
  <2>2. Alive = {}
    BY <2>1, WorkerAssumption DEF Alive, ThreadInv
  <2>3. QED
    BY <2>2
<1>2. CASE CommandStep /\ MoveAction
  BY <1>2, MoveFrame
<1>3. CASE CommandStep /\ ~MoveAction /\ ~(LoadValveEnabled \/ LoadPumpEnabled)
  <2>1. cpc # "ready"
    BY <1>3 DEF CommandStep, MoveAction, StartRefused, StartWorker, ReplaceStop,
       ReplaceJoin, RequestStop, NotifyOne, JoinWorker, ResetState, LoadRejected,
       ReadName, NameThrows
  <2>2. ~ConfigureAction
    BY <1>3, <2>1 DEF ConfigureAction, SetEnabled
  <2>3. QED
    BY <1>3, <2>2, QuietFrame
<1>4. ASSUME NEW w \in Worker, WorkerMove(w)
      PROVE  DocumentedUse
  BY <1>4, WorkerFrame
<1>5. CASE Exited
  BY <1>5 DEF Exited, vars, sharedVars
<1>6. QED
  BY <1>1, <1>2, <1>3, <1>4, <1>5 DEF CarefulNext, Threads, WorkerMove

-----------------------------------------------------------------------------
(* The theorems *)

\* The invariant of careful use holds before the first command.
LEMMA CarefulInvInit == Init => CarefulInv
<1> SUFFICES ASSUME Init PROVE CarefulInv
  OBVIOUS
<1>1. SafetyInv
  BY SafetyInvInit
<1>2. /\ LoadInv /\ MemoryInv /\ OutputsEnabled /\ OrderInv
      /\ OutputsNeedIrrigation
  BY DEF Init, AllOff, LoadInv, LoadPC, MemoryInv, OutputsEnabled, OrderInv,
     OutputsNeedIrrigation
<1>3. QED
  BY <1>1, <1>2 DEF CarefulInv

\* Every step of careful use keeps it.
LEMMA CarefulInvStep == CarefulInv /\ [CarefulNext]_vars => CarefulInv'
<1>1. CarefulInv /\ [CarefulNext]_vars => [GuardedNext]_vars
  BY CarefulIsGuarded DEF CarefulInv
<1>2. [GuardedNext]_vars => [Next]_vars
  BY DEF GuardedNext
<1>3. QED
  BY <1>1, <1>2, SafetyInvStep, LoadInvStep, MemoryInvStep, OutputsEnabledStep,
     OrderInvStep, IrrigationStep DEF CarefulInv

\* Under careful use what a worker remembers of the flags stays true, so it
\* turns off every output it turned on.
LEMMA CarefulInvariant == CarefulSpec => []CarefulInv
BY CarefulInvInit, CarefulInvStep, PTL DEF CarefulSpec

\* If no load is typed in the start window and the options are used as
\* documented, an output is active only while a worker irrigates: never at
\* rest, never after a stop, an abort or an exit has returned.
THEOREM OutputsOnlyWhileIrrigating == CarefulSpec => []OutputsNeedIrrigation
<1>1. CarefulInv => OutputsNeedIrrigation
  BY DEF CarefulInv
<1>2. QED
  BY <1>1, CarefulInvariant, PTL

\* Under the same use the pump starts after the valve has opened and stops after
\* it has closed.
THEOREM ValveBeforePump == CarefulSpec => DeviceOrder
<1> DEFINE Ordered ==
      /\ ~output["pump"] /\ output'["pump"]
           => output["valve"] \/ ~enabled["valve"]
      /\ output["pump"] /\ ~output'["pump"] /\ hwMutex # NoWorker
           => ~output["valve"]
<1>1. CarefulInv /\ [GuardedNext]_vars => [Ordered]_vars
  <2> SUFFICES ASSUME CarefulInv, GuardedNext PROVE Ordered
    OBVIOUS
  <2> USE DEF CarefulInv, SafetyInv, TypeOK, Device, OrderInv
  <2>1. CASE ConfigureAction
    BY <2>1, ConfigureFrame DEF GuardedNext
  <2>2. CASE MoveAction
    BY <2>2, MoveFrame
  <2>3. CASE (Operator \/ CommandStep) /\ ~ConfigureAction /\ ~MoveAction
    BY <2>3, QuietFrame
  <2>4. ASSUME NEW w \in Worker, UpdatePump(w)
        PROVE  Ordered
    BY <2>4 DEF UpdatePump, UpdateDevice, Goto, MemoryInv, OutputsEnabled
  <2>5. ASSUME NEW w \in Worker, ValveOn(w) \/ ValveOff(w) \/ UpdateValve(w)
        PROVE  Ordered
    BY <2>5 DEF ValveOn, ValveOff, UpdateValve, UpdateDevice
  <2>6. ASSUME NEW w \in Worker, PumpOn(w)
        PROVE  Ordered
    BY <2>6 DEF PumpOn, Goto
  <2>7. ASSUME NEW w \in Worker, PumpOff(w)
        PROVE  Ordered
    BY <2>7 DEF PumpOff, Goto
  <2>8. ASSUME NEW w \in Worker,
               \/ ReadWasValve(w) \/ ReadWasPump(w) \/ LockStopMutex(w)
               \/ LoopTest(w) \/ Activate(w) \/ WaitCheck(w) \/ WaitBlock(w)
               \/ WaitTimeout(w) \/ SpuriousWakeup(w) \/ WaitReturn(w)
               \/ IrrigationEnd(w) \/ Branch(w) \/ OffLock(w) \/ CountCycle(w)
               \/ Teardown(w)
        PROVE  Ordered
    BY <2>8 DEF ReadWasValve, ReadWasPump, LockStopMutex, LoopTest, Activate,
       WaitCheck, WaitBlock, WaitTimeout, SpuriousWakeup, WaitReturn,
       IrrigationEnd, Branch, OffLock, CountCycle, Teardown, sharedVars
  <2>9. CASE Exited
    BY <2>9 DEF Exited, vars, sharedVars
  <2>10. QED
    BY <2>1, <2>2, <2>3, <2>4, <2>5, <2>6, <2>7, <2>8, <2>9
       DEF GuardedNext, Next, Threads, WorkerStep
<1>2. CarefulInv /\ [CarefulNext]_vars => [GuardedNext]_vars
  BY CarefulIsGuarded DEF CarefulInv
<1>3. QED
  BY <1>1, <1>2, CarefulInvariant, PTL DEF CarefulSpec, DeviceOrder

=============================================================================
