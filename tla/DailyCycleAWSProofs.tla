------------------------- MODULE DailyCycleAWSProofs -------------------------
(***************************************************************************)
(* The safety of DailyCycleAWS under every use, proved for any number of   *)
(* worker identities, any set of commands and any counter width.           *)
(*                                                                         *)
(* None of the properties is inductive by itself.  That a stop is not lost *)
(* needs to know who can hold m_stopMutex while the token is set           *)
(* (MutexInv); that the joined thread is the notified one needs to know    *)
(* that no other thread exists then (ThreadInv), which follows from what   *)
(* the command thread owns at each of its control points (CommandInv);     *)
(* that the counter is not touched in the Disabled state needs to know     *)
(* that a worker past its first activation keeps the state up (ActiveInv). *)
(***************************************************************************)
EXTENDS DailyCycleAWS, TLAPS

\* Where a load is once it has stopped what was running.
LoadPC == {"parse", "load_pump", "move_valve", "move_pump", "load_name"}

\* The command thread's bookkeeping: which control points own a thread.
CommandInv ==
  /\ replaced # NoWorker <=> cpc \in {"replace_stop", "replace_join"}
  /\ replaced # NoWorker => handle # NoWorker /\ handle # replaced
  /\ cpc \in {"stop_token", "notify", "join"} => handle # NoWorker
  /\ cpc = "reset" => handle = NoWorker
  /\ isRunning /\ handle = NoWorker => cpc = "reset"
  /\ cpc = "ready" => op = "none"
  /\ cpc \in LoadPC /\ wasRunning => handle = NoWorker

\* A thread exists exactly if it is owned or being displaced.
ThreadInv ==
  \A w \in Worker : wpc[w] # "none" <=> w = handle \/ w = replaced

\* Only the thread being joined has been asked to stop.
StopInv ==
  \A w \in Worker : stop[w] => \/ w = handle /\ cpc \in {"notify", "join"}
                               \/ w = replaced /\ cpc = "replace_join"

\* Each mutex is owned by the thread that is where the mutex protects it.
Operating(w) == wpc[w] \in {"valve_on", "pump_on", "off_valve", "off_pump"}

MutexInv ==
  \A w \in Worker : /\ InCycle(w) <=> stopMutex = w
                    /\ Operating(w) <=> hwMutex = w

\* A thread asked to stop by a shutdown will not block again, and once it has
\* been notified it is not blocked.
WakeInv ==
  /\ cpc \in {"notify", "join"} => stop[handle] /\ wpc[handle] # "block"
  /\ cpc = "join" => wpc[handle] # "wait"

\* From its first activation to its teardown a worker keeps the state from
\* being Disabled.
Activated ==
  {"valve_on", "pump_on", "check", "block", "wait", "wake", "timeout",
   "irr_end", "branch", "upd_valve", "upd_pump", "off_lock", "off_valve",
   "off_pump", "count"}

ActiveInv == \A w \in Worker : wpc[w] \in Activated => isRunning

\* The inductive invariant.
SafetyInv ==
  /\ TypeOK /\ CommandInv /\ ThreadInv /\ StopInv /\ MutexInv /\ WakeInv
  /\ ActiveInv /\ CounterCountsThisJob

\* The command steps that create, displace, stop, notify or join a thread.
ThreadAction ==
  StartWorker \/ ReplaceStop \/ ReplaceJoin \/ RequestStop \/ NotifyOne \/ JoinWorker

\* Any step of worker w, its environment's included.
WorkerMove(w) == WorkerStep(w) \/ WaitTimeout(w) \/ SpuriousWakeup(w)

-----------------------------------------------------------------------------
(* Type correctness *)

\* A system just constructed is well typed, its devices enabled and at rest.
LEMMA TypeInit == Init => TypeOK
<1> SUFFICES ASSUME Init PROVE TypeOK
  OBVIOUS
<1>1. counter \in 0 .. (CounterModulus - 1)
  BY CounterAssumption DEF Init
<1>2. /\ enabled \in [Device -> BOOLEAN] /\ output \in [Device -> BOOLEAN]
      /\ was \in [Worker -> [Device -> BOOLEAN]]
      /\ off \in [Worker -> [Device -> BOOLEAN]]
  BY DEF Init, AllOff
<1>3. /\ stop \in [Worker -> BOOLEAN] /\ wpc \in [Worker -> WorkerPC]
      /\ cont \in [Worker -> {"irr_end", "count", "teardown"}]
  BY DEF Init, WorkerPC
<1>4. QED
  BY <1>1, <1>2, <1>3 DEF Init, TypeOK, State, CommandPC

\* The command thread's own variables after a return or a Continue.
CommandTypeOK ==
  /\ cpc \in CommandPC
  /\ op \in CommandName \cup {"none"}
  /\ returned \in CommandName \cup {"none"}
  /\ wasRunning \in BOOLEAN

\* A return to the terminal or a move to a known control point keeps the type.
LEMMA CommandType ==
  ASSUME TypeOK, Return \/ \E to \in CommandPC : Continue(to)
  PROVE  CommandTypeOK'
BY DEF TypeOK, Return, Continue, CommandTypeOK, CommandPC, CommandName

\* Moving an output, or leaving it where it is.
LEMMA MoveOutputType ==
  ASSUME TypeOK, NEW d \in Device,
         \/ MoveOutput(d)
         \/ UNCHANGED <<sharedVars, mutexVars, threadVars, workerVars>>
  PROVE  /\ output' \in [Device -> BOOLEAN]
         /\ UNCHANGED <<state, enabled, counter, mutexVars, threadVars, workerVars>>
BY DEF TypeOK, MoveOutput, sharedVars, mutexVars, threadVars, workerVars

\* Every step keeps every variable in its type.
LEMMA TypeStep == TypeOK /\ [Next]_vars => TypeOK'
<1> SUFFICES ASSUME TypeOK, [Next]_vars PROVE TypeOK'
  OBVIOUS
<1> USE WorkerAssumption, CounterAssumption
    DEF TypeOK, State, Device, CommandName, CommandPC, WorkerPC, AllOff,
        sharedVars, mutexVars, threadVars, commandVars, workerVars
<1>1. CASE StartCommand
  BY <1>1 DEF StartCommand
<1>2. CASE StartRefused
  BY <1>2 DEF StartRefused, Return
<1>3. CASE StartWorker
  <2>1. wpc' \in [Worker -> WorkerPC] /\ handle' \in Worker
    BY <1>3 DEF StartWorker
  <2>2. CommandTypeOK'
    BY <1>3, CommandType DEF StartWorker
  <2>3. QED
    BY <1>3, <2>1, <2>2 DEF StartWorker, CommandTypeOK
<1>4. CASE ReplaceStop
  <2>1. stop' \in [Worker -> BOOLEAN]
    BY <1>4 DEF ReplaceStop
  <2>2. QED
    BY <1>4, <2>1 DEF ReplaceStop, Continue
<1>5. CASE ReplaceJoin
  BY <1>5 DEF ReplaceJoin, Join, Return
<1>6. ASSUME NEW c \in CommandName, BeginShutdown(c)
      PROVE  TypeOK'
  BY <1>6 DEF BeginShutdown
<1>7. CASE RequestStop
  BY <1>7 DEF RequestStop, Continue
<1>8. CASE NotifyOne
  BY <1>8 DEF NotifyOne, Continue, Waiting
<1>9. CASE JoinWorker
  <2>1. /\ wpc' \in [Worker -> WorkerPC]
        /\ stop' \in [Worker -> BOOLEAN]
        /\ cont' \in [Worker -> {"irr_end", "count", "teardown"}]
    BY <1>9 DEF JoinWorker, Join
  <2>2. was' \in [Worker -> [Device -> BOOLEAN]]
    BY <1>9 DEF JoinWorker, Join
  <2>3. off' \in [Worker -> [Device -> BOOLEAN]]
    BY <1>9 DEF JoinWorker, Join
  <2>4. QED
    BY <1>9, <2>1, <2>2, <2>3 DEF JoinWorker, Continue
<1>10. CASE ResetState
  <2>1. counter' \in 0 .. (CounterModulus - 1)
    BY <1>10 DEF ResetState
  <2>2. CommandTypeOK'
    BY <1>10, CommandType DEF ResetState
  <2>3. QED
    BY <1>10, <2>1, <2>2 DEF ResetState, CommandTypeOK
<1>11. ASSUME NEW d \in Device, NEW b \in BOOLEAN, SetEnabled(d, b)
      PROVE  TypeOK'
  BY <1>11 DEF SetEnabled
<1>12. ASSUME NEW d \in Device, SetDigitalOutputID(d)
      PROVE  TypeOK'
  BY <1>12 DEF SetDigitalOutputID, MoveOutput
<1>13. CASE LoadCommand
  BY <1>13 DEF LoadCommand, isRunning
<1>14. CASE LoadRejected
  <2>1. Return \/ Continue("start")
    BY <1>14 DEF LoadRejected, RestartOrReturn
  <2>2. CommandTypeOK'
    BY <2>1, CommandType DEF CommandPC
  <2>3. UNCHANGED <<sharedVars, mutexVars, threadVars, workerVars>>
    BY <1>14 DEF LoadRejected
  <2>4. QED
    BY <2>2, <2>3 DEF CommandTypeOK
<1>15. CASE LoadValveEnabled
  BY <1>15 DEF LoadValveEnabled, Continue
<1>16. CASE LoadPumpEnabled
  BY <1>16 DEF LoadPumpEnabled, Continue
<1>17. CASE LoadValveOutput
  <2>1. /\ output' \in [Device -> BOOLEAN]
        /\ UNCHANGED <<state, enabled, counter, mutexVars, threadVars, workerVars>>
    BY <1>17, MoveOutputType DEF LoadValveOutput
  <2>2. CommandTypeOK'
    BY <1>17, CommandType DEF LoadValveOutput
  <2>3. QED
    BY <2>1, <2>2 DEF CommandTypeOK
<1>18. CASE LoadPumpOutput
  <2>1. /\ output' \in [Device -> BOOLEAN]
        /\ UNCHANGED <<state, enabled, counter, mutexVars, threadVars, workerVars>>
    BY <1>18, MoveOutputType DEF LoadPumpOutput
  <2>2. CommandTypeOK'
    BY <1>18, CommandType DEF LoadPumpOutput
  <2>3. QED
    BY <2>1, <2>2 DEF CommandTypeOK
<1>19. ASSUME NEW w \in Worker, ReadWasValve(w)
      PROVE  TypeOK'
  BY <1>19 DEF ReadWasValve, Goto
<1>20. ASSUME NEW w \in Worker, ReadWasPump(w)
      PROVE  TypeOK'
  BY <1>20 DEF ReadWasPump, Goto
<1>21. ASSUME NEW w \in Worker, LockStopMutex(w)
      PROVE  TypeOK'
  BY <1>21 DEF LockStopMutex, Goto
<1>22. ASSUME NEW w \in Worker, LoopTest(w)
      PROVE  TypeOK'
  BY <1>22 DEF LoopTest, Goto
<1>23. ASSUME NEW w \in Worker, Activate(w)
      PROVE  TypeOK'
  BY <1>23 DEF Activate, Goto
<1>24. ASSUME NEW w \in Worker, ValveOn(w)
      PROVE  TypeOK'
  BY <1>24 DEF ValveOn, Goto
<1>25. ASSUME NEW w \in Worker, PumpOn(w)
      PROVE  TypeOK'
  BY <1>25 DEF PumpOn, Goto
<1>26. ASSUME NEW w \in Worker, WaitCheck(w)
      PROVE  TypeOK'
  BY <1>26 DEF WaitCheck, Goto
<1>27. ASSUME NEW w \in Worker, WaitBlock(w)
      PROVE  TypeOK'
  BY <1>27 DEF WaitBlock, Goto
<1>28. ASSUME NEW w \in Worker, WaitTimeout(w)
      PROVE  TypeOK'
  BY <1>28 DEF WaitTimeout, Goto
<1>29. ASSUME NEW w \in Worker, SpuriousWakeup(w)
      PROVE  TypeOK'
  BY <1>29 DEF SpuriousWakeup, Goto
<1>30. ASSUME NEW w \in Worker, WaitReturn(w)
      PROVE  TypeOK'
  <2>1. wpc' \in [Worker -> WorkerPC]
    BY <1>30 DEF WaitReturn, Goto
  <2>2. QED
    BY <1>30, <2>1 DEF WaitReturn
<1>31. ASSUME NEW w \in Worker, IrrigationEnd(w)
      PROVE  TypeOK'
  BY <1>31 DEF IrrigationEnd, Goto
<1>32. ASSUME NEW w \in Worker, Branch(w)
      PROVE  TypeOK'
  <2>1. CASE stop[w]
    <3>1. cont' \in [Worker -> {"irr_end", "count", "teardown"}]
      BY <1>32, <2>1 DEF Branch
    <3>2. wpc' \in [Worker -> WorkerPC]
      BY <1>32, <2>1 DEF Branch, Goto
    <3>3. QED
      BY <1>32, <3>1, <3>2 DEF Branch
  <2>2. CASE ~stop[w]
    <3>1. wpc' \in [Worker -> WorkerPC] /\ cont' = cont
      BY <1>32, <2>2 DEF Branch, Goto
    <3>2. QED
      BY <1>32, <3>1 DEF Branch
  <2>3. QED
    BY <2>1, <2>2
<1>33. ASSUME NEW w \in Worker, UpdateValve(w)
      PROVE  TypeOK'
  BY <1>33 DEF UpdateValve, Goto, UpdateDevice
<1>34. ASSUME NEW w \in Worker, UpdatePump(w)
      PROVE  TypeOK'
  <2>1. was' \in [Worker -> [Device -> BOOLEAN]]
    BY <1>34 DEF UpdatePump, UpdateDevice
  <2>2. output' \in [Device -> BOOLEAN]
    BY <1>34 DEF UpdatePump, UpdateDevice
  <2>3. wpc' \in [Worker -> WorkerPC]
    BY <1>34 DEF UpdatePump, Goto
  <2>4. cont' \in [Worker -> {"irr_end", "count", "teardown"}]
    BY <1>34 DEF UpdatePump
  <2>5. QED
    BY <1>34, <2>1, <2>2, <2>3, <2>4 DEF UpdatePump, UpdateDevice
<1>35. ASSUME NEW w \in Worker, OffLock(w)
      PROVE  TypeOK'
  BY <1>35 DEF OffLock, Goto
<1>36. ASSUME NEW w \in Worker, ValveOff(w)
      PROVE  TypeOK'
  BY <1>36 DEF ValveOff, Goto
<1>37. ASSUME NEW w \in Worker, PumpOff(w)
      PROVE  TypeOK'
  BY <1>37 DEF PumpOff, Goto
<1>38. ASSUME NEW w \in Worker, CountCycle(w)
      PROVE  TypeOK'
  BY <1>38 DEF CountCycle, Goto
<1>39. ASSUME NEW w \in Worker, Teardown(w)
      PROVE  TypeOK'
  BY <1>39 DEF Teardown, Goto
<1>40. CASE ReadName \/ NameThrows
  <2>1. Return \/ Continue("start")
    BY <1>40 DEF ReadName, NameThrows, RestartOrReturn
  <2>2. CommandTypeOK'
    BY <2>1, CommandType DEF CommandPC
  <2>3. UNCHANGED <<sharedVars, mutexVars, threadVars, workerVars>>
    BY <1>40 DEF ReadName, NameThrows
  <2>4. QED
    BY <2>2, <2>3 DEF CommandTypeOK
<1>41. CASE UNCHANGED vars
  BY <1>41 DEF vars
<1>42. QED
  BY <1>1, <1>2, <1>3, <1>4, <1>5, <1>6, <1>7, <1>8, <1>9, <1>10,
     <1>11, <1>12, <1>13, <1>14, <1>15, <1>16, <1>17, <1>18, <1>19,
     <1>20, <1>21, <1>22, <1>23, <1>24, <1>25, <1>26, <1>27, <1>28,
     <1>29, <1>30, <1>31, <1>32, <1>33, <1>34, <1>35, <1>36, <1>37,
     <1>38, <1>39, <1>40, <1>41
     DEF Next, Operator, Threads, CommandStep, WorkerStep, Exited,
         requestShutdown, emergencyAbort, Exit, CommandName

\* TypeOK holds of every behaviour: no step leaves a variable's range, the
\* fixed-width cycles counter's included.
THEOREM TypeCorrect == Spec => []TypeOK
BY TypeInit, TypeStep, PTL DEF Spec

-----------------------------------------------------------------------------
(* What the steps of one thread leave alone *)

\* A worker's step: it moves only its own thread, touches nothing of the
\* command thread's, blocks only with its token unset, counts only in
\* CountCycle and never sets the state to Disabled.
LEMMA WorkerFrame ==
  ASSUME TypeOK, NEW w \in Worker, WorkerMove(w)
  PROVE  /\ UNCHANGED <<threadVars, commandVars, enabled>>
         /\ wpc[w] # "none" /\ wpc'[w] # "none"
         /\ \A v \in Worker \ {w} : wpc'[v] = wpc[v]
         /\ wpc'[w] = "block" => ~stop[w]
         /\ wpc'[w] = "wait" => wpc[w] = "block"
         /\ state' = state \/ state' # "Disabled"
         /\ wpc'[w] \in Activated => wpc[w] \in Activated \/ state' # "Disabled"
         /\ counter' = counter \/ wpc[w] \in Activated
<1> USE DEF TypeOK, State, Activated, sharedVars, mutexVars, threadVars,
            commandVars, workerVars
<1>1. CASE ReadWasValve(w)
  BY <1>1 DEF ReadWasValve, Goto
<1>2. CASE ReadWasPump(w)
  BY <1>2 DEF ReadWasPump, Goto
<1>3. CASE LockStopMutex(w)
  BY <1>3 DEF LockStopMutex, Goto
<1>4. CASE LoopTest(w)
  BY <1>4 DEF LoopTest, Goto
<1>5. CASE Activate(w)
  BY <1>5 DEF Activate, Goto
<1>6. CASE ValveOn(w)
  BY <1>6 DEF ValveOn, Goto
<1>7. CASE PumpOn(w)
  BY <1>7 DEF PumpOn, Goto
<1>8. CASE WaitCheck(w)
  BY <1>8 DEF WaitCheck, Goto
<1>9. CASE WaitBlock(w)
  BY <1>9 DEF WaitBlock, Goto
<1>10. CASE WaitTimeout(w)
  BY <1>10 DEF WaitTimeout, Goto
<1>11. CASE SpuriousWakeup(w)
  BY <1>11 DEF SpuriousWakeup, Goto
<1>12. CASE WaitReturn(w)
  BY <1>12 DEF WaitReturn, Goto
<1>13. CASE IrrigationEnd(w)
  BY <1>13 DEF IrrigationEnd, Goto
<1>14. CASE Branch(w)
  BY <1>14 DEF Branch, Goto
<1>15. CASE UpdateValve(w)
  BY <1>15 DEF UpdateValve, Goto, UpdateDevice
<1>16. CASE UpdatePump(w)
  BY <1>16 DEF UpdatePump, Goto, UpdateDevice
<1>17. CASE OffLock(w)
  BY <1>17 DEF OffLock, Goto
<1>18. CASE ValveOff(w)
  BY <1>18 DEF ValveOff, Goto
<1>19. CASE PumpOff(w)
  BY <1>19 DEF PumpOff, Goto
<1>20. CASE CountCycle(w)
  BY <1>20 DEF CountCycle, Goto
<1>21. CASE Teardown(w)
  BY <1>21 DEF Teardown, Goto
<1>22. QED
  BY <1>1, <1>2, <1>3, <1>4, <1>5, <1>6, <1>7, <1>8, <1>9, <1>10, <1>11,
     <1>12, <1>13, <1>14, <1>15, <1>16, <1>17, <1>18, <1>19, <1>20, <1>21
     DEF WorkerMove, WorkerStep

\* A command thread's step that is no ThreadAction leaves the threads alone,
\* and lies outside the control points where a thread is being got rid of.
LEMMA CommandFrame ==
  ASSUME TypeOK, Operator \/ CommandStep, ~ThreadAction
  PROVE  /\ UNCHANGED <<threadVars, mutexVars, workerVars>>
         /\ {cpc, cpc'} \cap {"replace_stop", "replace_join", "notify", "join"} = {}
<1> USE DEF sharedVars, mutexVars, threadVars, commandVars, workerVars
<1>1. CASE StartCommand
  BY <1>1 DEF StartCommand
<1>2. CASE StartRefused
  BY <1>2 DEF StartRefused, Return
<1>3. ASSUME NEW c \in CommandName, BeginShutdown(c)
      PROVE  UNCHANGED <<threadVars, mutexVars, workerVars>>
             /\ cpc = "ready" /\ cpc' \in {"ready", "stop_token", "exited"}
  BY <1>3 DEF BeginShutdown
<1>4. CASE ResetState
  BY <1>4 DEF ResetState, Continue, Return
<1>5. CASE \E d \in Device, b \in BOOLEAN : SetEnabled(d, b)
  BY <1>5 DEF SetEnabled
<1>6. CASE \E d \in Device : SetDigitalOutputID(d)
  BY <1>6 DEF SetDigitalOutputID, MoveOutput
<1>7. CASE LoadCommand
  BY <1>7 DEF LoadCommand
<1>8. CASE LoadRejected
  BY <1>8 DEF LoadRejected, RestartOrReturn, Continue, Return
<1>9. CASE LoadValveEnabled
  BY <1>9 DEF LoadValveEnabled, Continue
<1>10. CASE LoadPumpEnabled
  BY <1>10 DEF LoadPumpEnabled, Continue
<1>11. CASE LoadValveOutput
  BY <1>11 DEF LoadValveOutput, MoveOutput, Continue
<1>12. CASE LoadPumpOutput
  BY <1>12 DEF LoadPumpOutput, MoveOutput, Continue
<1>13. CASE ReadName \/ NameThrows
  BY <1>13 DEF ReadName, NameThrows, RestartOrReturn, Continue, Return
<1>14. QED
  BY <1>1, <1>2, <1>3, <1>4, <1>5, <1>6, <1>7, <1>8, <1>9, <1>10, <1>11,
     <1>12, <1>13
     DEF Operator, CommandStep, ThreadAction, requestShutdown, emergencyAbort, Exit,
         CommandName

\* Only ResetState writes the state or the counter on the command thread.
LEMMA ResetFrame ==
  ASSUME Operator \/ CommandStep, ~ResetState
  PROVE  UNCHANGED <<state, counter>>
BY DEF Operator, CommandStep, ResetState, StartCommand, StartRefused, StartWorker,
   ReplaceStop, ReplaceJoin, requestShutdown, emergencyAbort, Exit, BeginShutdown,
   RequestStop, NotifyOne, JoinWorker, SetEnabled, SetDigitalOutputID, MoveOutput,
   LoadCommand, LoadRejected, LoadValveEnabled, LoadPumpEnabled, LoadValveOutput,
   LoadPumpOutput, ReadName, NameThrows, sharedVars

-----------------------------------------------------------------------------
(* The parts of the inductive invariant *)

\* The command thread owns what its control point says it owns.
LEMMA CommandInvStep ==
  TypeOK /\ CommandInv /\ ThreadInv /\ [Next]_vars => CommandInv'
<1> SUFFICES ASSUME TypeOK, CommandInv, ThreadInv, [Next]_vars
             PROVE  CommandInv'
  OBVIOUS
<1> USE WorkerAssumption
    DEF TypeOK, State, CommandInv, LoadPC, isRunning, sharedVars, mutexVars, threadVars,
        commandVars, workerVars
<1>1. CASE StartCommand
  BY <1>1 DEF StartCommand
<1>2. CASE StartRefused
  BY <1>2 DEF StartRefused, Return
<1>3. CASE StartWorker
  BY <1>3 DEF StartWorker, Return, Continue, Alive, ThreadInv
<1>4. CASE ReplaceStop
  BY <1>4 DEF ReplaceStop, Continue
<1>5. CASE ReplaceJoin
  BY <1>5 DEF ReplaceJoin, Join, Return
<1>6. ASSUME NEW c \in CommandName, BeginShutdown(c)
      PROVE  CommandInv'
  BY <1>6 DEF BeginShutdown
<1>7. CASE RequestStop
  BY <1>7 DEF RequestStop, Continue
<1>8. CASE NotifyOne
  BY <1>8 DEF NotifyOne, Continue, Waiting
<1>9. CASE JoinWorker
  BY <1>9 DEF JoinWorker, Join, Continue
<1>10. CASE ResetState
  BY <1>10 DEF ResetState, Continue, Return
<1>11. ASSUME NEW d \in Device, NEW b \in BOOLEAN, SetEnabled(d, b)
      PROVE  CommandInv'
  BY <1>11 DEF SetEnabled
<1>12. ASSUME NEW d \in Device, SetDigitalOutputID(d)
      PROVE  CommandInv'
  BY <1>12 DEF SetDigitalOutputID, MoveOutput
<1>13. CASE LoadCommand
  BY <1>13 DEF LoadCommand
<1>14. CASE LoadRejected
  BY <1>14 DEF LoadRejected, RestartOrReturn, Continue, Return
<1>15. CASE LoadValveEnabled
  BY <1>15 DEF LoadValveEnabled, Continue
<1>16. CASE LoadPumpEnabled
  BY <1>16 DEF LoadPumpEnabled, Continue
<1>17. CASE LoadValveOutput
  BY <1>17 DEF LoadValveOutput, MoveOutput, Continue
<1>18. CASE LoadPumpOutput
  BY <1>18 DEF LoadPumpOutput, MoveOutput, Continue
<1>19. ASSUME NEW w \in Worker, WorkerMove(w)
      PROVE  CommandInv'
  BY <1>19, WorkerFrame DEF ThreadInv
<1>20. CASE ReadName \/ NameThrows
  BY <1>20 DEF ReadName, NameThrows, RestartOrReturn, Continue, Return
<1>21. CASE UNCHANGED vars
  BY <1>21 DEF vars
<1>22. QED
  BY <1>1, <1>2, <1>3, <1>4, <1>5, <1>6, <1>7, <1>8, <1>9, <1>10, <1>11,
     <1>12, <1>13, <1>14, <1>15, <1>16, <1>17, <1>18, <1>19, <1>20, <1>21
     DEF Next, Threads, Exited, Operator, CommandStep, requestShutdown,
         emergencyAbort, Exit, CommandName, WorkerMove

\* Creating, displacing and joining keep track of every thread.
LEMMA ThreadInvStep ==
  TypeOK /\ CommandInv /\ ThreadInv /\ [Next]_vars => ThreadInv'
<1> SUFFICES ASSUME TypeOK, CommandInv, ThreadInv, [Next]_vars
             PROVE  ThreadInv'
  OBVIOUS
<1> USE WorkerAssumption
    DEF TypeOK, ThreadInv, CommandInv, sharedVars, mutexVars, threadVars,
        commandVars, workerVars
<1>1. CASE StartWorker
  BY <1>1 DEF StartWorker, Return, Continue, Alive
<1>2. CASE ReplaceStop
  BY <1>2 DEF ReplaceStop, Continue
<1>3. CASE ReplaceJoin
  BY <1>3 DEF ReplaceJoin, Join, Return
<1>4. CASE RequestStop
  BY <1>4 DEF RequestStop, Continue
<1>5. CASE NotifyOne
  BY <1>5 DEF NotifyOne, Continue, Waiting
<1>6. CASE JoinWorker
  BY <1>6 DEF JoinWorker, Join, Continue
<1>7. CASE (Operator \/ CommandStep) /\ ~ThreadAction
  BY <1>7, CommandFrame
<1>8. ASSUME NEW w \in Worker, WorkerMove(w)
      PROVE  ThreadInv'
  BY <1>8, WorkerFrame
<1>9. CASE UNCHANGED vars
  BY <1>9 DEF vars
<1>10. QED
  BY <1>1, <1>2, <1>3, <1>4, <1>5, <1>6, <1>7, <1>8, <1>9
     DEF Next, Threads, Exited, ThreadAction, WorkerMove

\* A token is set only on the way to the join that resets it.
LEMMA StopInvStep ==
  TypeOK /\ CommandInv /\ ThreadInv /\ StopInv /\ [Next]_vars => StopInv'
<1> SUFFICES ASSUME TypeOK, CommandInv, ThreadInv, StopInv, [Next]_vars
             PROVE  StopInv'
  OBVIOUS
<1> USE WorkerAssumption
    DEF TypeOK, StopInv, CommandInv, ThreadInv, sharedVars, mutexVars, threadVars,
        commandVars, workerVars
<1>1. CASE StartWorker
  BY <1>1 DEF StartWorker, Return, Continue, Alive
<1>2. CASE ReplaceStop
  BY <1>2 DEF ReplaceStop, Continue
<1>3. CASE ReplaceJoin
  BY <1>3 DEF ReplaceJoin, Join, Return
<1>4. CASE RequestStop
  BY <1>4 DEF RequestStop, Continue
<1>5. CASE NotifyOne
  BY <1>5 DEF NotifyOne, Continue, Waiting
<1>6. CASE JoinWorker
  BY <1>6 DEF JoinWorker, Join, Continue
<1>7. CASE (Operator \/ CommandStep) /\ ~ThreadAction
  BY <1>7, CommandFrame
<1>8. ASSUME NEW w \in Worker, WorkerMove(w)
      PROVE  StopInv'
  BY <1>8, WorkerFrame
<1>9. CASE UNCHANGED vars
  BY <1>9 DEF vars
<1>10. QED
  BY <1>1, <1>2, <1>3, <1>4, <1>5, <1>6, <1>7, <1>8, <1>9
     DEF Next, Threads, Exited, ThreadAction, WorkerMove

\* Each acquisition enters, and each release leaves, what the mutex protects.
LEMMA MutexInvStep ==
  TypeOK /\ CommandInv /\ ThreadInv /\ MutexInv /\ [Next]_vars => MutexInv'
<1> SUFFICES ASSUME TypeOK, CommandInv, ThreadInv, MutexInv, [Next]_vars
             PROVE  MutexInv'
  OBVIOUS
<1> USE WorkerAssumption
    DEF TypeOK, MutexInv, InCycle, Operating, sharedVars, mutexVars, threadVars,
        commandVars, workerVars
<1>1. CASE StartWorker
  BY <1>1 DEF StartWorker, Return, Continue, Alive
<1>2. CASE ReplaceStop
  BY <1>2 DEF ReplaceStop, Continue
<1>3. CASE ReplaceJoin
  BY <1>3 DEF ReplaceJoin, Join, Return
<1>4. CASE RequestStop
  BY <1>4 DEF RequestStop, Continue
<1>5. CASE NotifyOne
  BY <1>5 DEF NotifyOne, Continue, Waiting
<1>6. CASE JoinWorker
  BY <1>6 DEF JoinWorker, Join, Continue
<1>7. CASE (Operator \/ CommandStep) /\ ~ThreadAction
  BY <1>7, CommandFrame
<1>8. ASSUME NEW w \in Worker, ReadWasValve(w)
      PROVE  MutexInv'
  BY <1>8 DEF ReadWasValve, Goto
<1>9. ASSUME NEW w \in Worker, ReadWasPump(w)
      PROVE  MutexInv'
  BY <1>9 DEF ReadWasPump, Goto
<1>10. ASSUME NEW w \in Worker, LockStopMutex(w)
      PROVE  MutexInv'
  BY <1>10 DEF LockStopMutex, Goto
<1>11. ASSUME NEW w \in Worker, LoopTest(w)
      PROVE  MutexInv'
  BY <1>11 DEF LoopTest, Goto
<1>12. ASSUME NEW w \in Worker, Activate(w)
      PROVE  MutexInv'
  BY <1>12 DEF Activate, Goto
<1>13. ASSUME NEW w \in Worker, ValveOn(w)
      PROVE  MutexInv'
  BY <1>13 DEF ValveOn, Goto
<1>14. ASSUME NEW w \in Worker, PumpOn(w)
      PROVE  MutexInv'
  BY <1>14 DEF PumpOn, Goto
<1>15. ASSUME NEW w \in Worker, WaitCheck(w)
      PROVE  MutexInv'
  BY <1>15 DEF WaitCheck, Goto
<1>16. ASSUME NEW w \in Worker, WaitBlock(w)
      PROVE  MutexInv'
  BY <1>16 DEF WaitBlock, Goto
<1>17. ASSUME NEW w \in Worker, WaitTimeout(w)
      PROVE  MutexInv'
  BY <1>17 DEF WaitTimeout, Goto
<1>18. ASSUME NEW w \in Worker, SpuriousWakeup(w)
      PROVE  MutexInv'
  BY <1>18 DEF SpuriousWakeup, Goto
<1>19. ASSUME NEW w \in Worker, WaitReturn(w)
      PROVE  MutexInv'
  BY <1>19 DEF WaitReturn, Goto
<1>20. ASSUME NEW w \in Worker, IrrigationEnd(w)
      PROVE  MutexInv'
  BY <1>20 DEF IrrigationEnd, Goto
<1>21. ASSUME NEW w \in Worker, Branch(w)
      PROVE  MutexInv'
  BY <1>21 DEF Branch, Goto
<1>22. ASSUME NEW w \in Worker, UpdateValve(w)
      PROVE  MutexInv'
  BY <1>22 DEF UpdateValve, Goto, UpdateDevice
<1>23. ASSUME NEW w \in Worker, UpdatePump(w)
      PROVE  MutexInv'
  BY <1>23 DEF UpdatePump, Goto, UpdateDevice
<1>24. ASSUME NEW w \in Worker, OffLock(w)
      PROVE  MutexInv'
  BY <1>24 DEF OffLock, Goto
<1>25. ASSUME NEW w \in Worker, ValveOff(w)
      PROVE  MutexInv'
  BY <1>25 DEF ValveOff, Goto
<1>26. ASSUME NEW w \in Worker, PumpOff(w)
      PROVE  MutexInv'
  BY <1>26 DEF PumpOff, Goto
<1>27. ASSUME NEW w \in Worker, CountCycle(w)
      PROVE  MutexInv'
  BY <1>27 DEF CountCycle, Goto
<1>28. ASSUME NEW w \in Worker, Teardown(w)
      PROVE  MutexInv'
  BY <1>28 DEF Teardown, Goto
<1>29. CASE UNCHANGED vars
  BY <1>29 DEF vars
<1>30. QED
  BY <1>1, <1>2, <1>3, <1>4, <1>5, <1>6, <1>7, <1>8, <1>9, <1>10, <1>11,
     <1>12, <1>13, <1>14, <1>15, <1>16, <1>17, <1>18, <1>19, <1>20, <1>21,
     <1>22, <1>23, <1>24, <1>25, <1>26, <1>27, <1>28, <1>29
     DEF Next, Threads, Exited, ThreadAction, WorkerStep

\* Between the token and the join no wait of the joined thread survives.
LEMMA WakeInvStep ==
  TypeOK /\ CommandInv /\ ThreadInv /\ StopInv /\ MutexInv /\ WakeInv /\ [Next]_vars => WakeInv'
<1> SUFFICES ASSUME TypeOK, CommandInv, ThreadInv, StopInv, MutexInv, WakeInv, [Next]_vars
             PROVE  WakeInv'
  OBVIOUS
<1> USE WorkerAssumption
    DEF TypeOK, WakeInv, CommandInv, ThreadInv, sharedVars, mutexVars, threadVars,
        commandVars, workerVars
<1>1. CASE StartWorker
  BY <1>1 DEF StartWorker, Return, Continue, Alive
<1>2. CASE ReplaceStop
  BY <1>2 DEF ReplaceStop, Continue
<1>3. CASE ReplaceJoin
  BY <1>3 DEF ReplaceJoin, Join, Return
<1>4. CASE RequestStop
  BY <1>4 DEF RequestStop, Continue, MutexInv, InCycle
<1>5. CASE NotifyOne
  BY <1>5 DEF NotifyOne, Continue, Waiting
<1>6. CASE JoinWorker
  BY <1>6 DEF JoinWorker, Join, Continue
<1>7. CASE (Operator \/ CommandStep) /\ ~ThreadAction
  BY <1>7, CommandFrame
<1>8. ASSUME NEW w \in Worker, WorkerMove(w)
      PROVE  WakeInv'
  BY <1>8, WorkerFrame
<1>9. CASE UNCHANGED vars
  BY <1>9 DEF vars
<1>10. QED
  BY <1>1, <1>2, <1>3, <1>4, <1>5, <1>6, <1>7, <1>8, <1>9
     DEF Next, Threads, Exited, ThreadAction, WorkerMove

\* The state is reset only when no thread is left.
LEMMA ActiveInvStep ==
  TypeOK /\ CommandInv /\ ThreadInv /\ ActiveInv /\ [Next]_vars => ActiveInv'
<1> SUFFICES ASSUME TypeOK, CommandInv, ThreadInv, ActiveInv, [Next]_vars
             PROVE  ActiveInv'
  OBVIOUS
<1> USE WorkerAssumption
    DEF TypeOK, ActiveInv, Activated, isRunning, sharedVars, mutexVars, threadVars,
        commandVars, workerVars
<1>1. CASE StartWorker
  BY <1>1 DEF StartWorker, Return, Continue, Alive
<1>2. CASE ReplaceStop
  BY <1>2 DEF ReplaceStop, Continue
<1>3. CASE ReplaceJoin
  BY <1>3 DEF ReplaceJoin, Join, Return
<1>4. CASE RequestStop
  BY <1>4 DEF RequestStop, Continue
<1>5. CASE NotifyOne
  BY <1>5 DEF NotifyOne, Continue, Waiting
<1>6. CASE JoinWorker
  BY <1>6 DEF JoinWorker, Join, Continue
<1>7. CASE ResetState
  BY <1>7 DEF ResetState, Continue, Return, CommandInv, ThreadInv
<1>8. CASE (Operator \/ CommandStep) /\ ~(ThreadAction \/ ResetState)
  BY <1>8, CommandFrame, ResetFrame
<1>9. ASSUME NEW w \in Worker, WorkerMove(w)
      PROVE  ActiveInv'
  BY <1>9, WorkerFrame
<1>10. CASE UNCHANGED vars
  BY <1>10 DEF vars
<1>11. QED
  BY <1>1, <1>2, <1>3, <1>4, <1>5, <1>6, <1>7, <1>8, <1>9, <1>10
     DEF Next, Threads, Exited, ThreadAction, WorkerMove

\* The counter is reset with the state and counts only past an activation.
LEMMA CounterStep ==
  TypeOK /\ ActiveInv /\ CounterCountsThisJob /\ [Next]_vars => CounterCountsThisJob'
<1> SUFFICES ASSUME TypeOK, ActiveInv, CounterCountsThisJob, [Next]_vars
             PROVE  CounterCountsThisJob'
  OBVIOUS
<1> USE WorkerAssumption
    DEF TypeOK, CounterCountsThisJob, isRunning, sharedVars, mutexVars, threadVars,
        commandVars, workerVars
<1>1. CASE ResetState
  BY <1>1 DEF ResetState, Continue, Return
<1>2. CASE (Operator \/ CommandStep) /\ ~ResetState
  BY <1>2, ResetFrame
<1>3. ASSUME NEW w \in Worker, WorkerMove(w)
      PROVE  CounterCountsThisJob'
  BY <1>3, WorkerFrame DEF ActiveInv
<1>4. CASE UNCHANGED vars
  BY <1>4 DEF vars
<1>5. QED
  BY <1>1, <1>2, <1>3, <1>4
     DEF Next, Threads, Exited, CommandStep, WorkerMove

\* Every step of the command thread or of a worker keeps the whole invariant.
LEMMA SafetyInvStep == SafetyInv /\ [Next]_vars => SafetyInv'
BY TypeStep, CommandInvStep, ThreadInvStep, StopInvStep, MutexInvStep,
   WakeInvStep, ActiveInvStep, CounterStep DEF SafetyInv

\* It holds before the first command: no thread exists and no mutex is held.
LEMMA SafetyInvInit == Init => SafetyInv
<1> SUFFICES ASSUME Init PROVE SafetyInv
  OBVIOUS
<1> USE WorkerAssumption DEF Init
<1>1. TypeOK
  BY TypeInit
<1>2. CommandInv /\ ThreadInv /\ StopInv
  BY DEF CommandInv, ThreadInv, StopInv, isRunning
<1>3. MutexInv /\ WakeInv
  BY DEF MutexInv, WakeInv, InCycle, Operating
<1>4. ActiveInv /\ CounterCountsThisJob
  BY DEF ActiveInv, Activated, CounterCountsThisJob
<1>5. QED
  BY <1>1, <1>2, <1>3, <1>4 DEF SafetyInv

-----------------------------------------------------------------------------
(* The theorems *)

\* At every moment, who owns which thread and which mutex, and what a stop
\* request has reached, is as SafetyInv says, whatever the operator types.
THEOREM SafetyInvariant == Spec => []SafetyInv
BY SafetyInvInit, SafetyInvStep, PTL DEF Spec

\* m_stopMutex keeps two workers out of the cycle, however many starts
\* displaced however many of them.
THEOREM MutualExclusion == Spec => []AtMostOneInCycle
<1>1. SafetyInv => AtMostOneInCycle
  BY DEF SafetyInv, MutexInv, AtMostOneInCycle
<1>2. QED
  BY <1>1, SafetyInvariant, PTL

\* The assertion on request_stop's result holds, and there is a thread to join.
THEOREM RequestStopSucceeds == Spec => []StopTokenIsFresh
<1>1. SafetyInv => StopTokenIsFresh
  BY DEF SafetyInv, TypeOK, CommandInv, StopInv, StopTokenIsFresh
<1>2. QED
  BY <1>1, SafetyInvariant, PTL

\* No worker outlives m_workerThread and the displacement it is part of.
THEOREM ThreadsAreOwned == Spec => []NoThreadLost
<1>1. SafetyInv => NoThreadLost
  BY WorkerAssumption DEF SafetyInv, TypeOK, ThreadInv, NoThreadLost, Alive
<1>2. QED
  BY <1>1, SafetyInvariant, PTL

\* No stop is lost between the token's store and the notification.
THEOREM StopsAreNotLost == Spec => []StopWakesWorker
<1>1. SafetyInv => StopWakesWorker
  BY DEF SafetyInv, WakeInv, StopWakesWorker
<1>2. QED
  BY <1>1, SafetyInvariant, PTL

\* The counter is zero whenever the system is Disabled.
THEOREM CounterRestarts == Spec => []CounterCountsThisJob
<1>1. SafetyInv => CounterCountsThisJob
  BY DEF SafetyInv
<1>2. QED
  BY <1>1, SafetyInvariant, PTL

\* A load that stopped a job ends with a worker or with both devices disabled,
\* unless the flow's name made it throw; then it ends with the system at rest.
THEOREM LoadsRestartOrThrow == Spec => LoadRestartsOrThrows
<1> DEFINE Restarts ==
      op = "load" /\ wasRunning /\ cpc' = "ready"
        => IF cpc = "load_name"
             THEN Alive = {} /\ ~isRunning
             ELSE handle' # NoWorker \/ \A d \in Device : ~enabled[d]
<1>1. SafetyInv /\ [Next]_vars => [Restarts]_vars
  <2> SUFFICES ASSUME SafetyInv, Next, op = "load", wasRunning, cpc' = "ready"
               PROVE  IF cpc = "load_name"
                        THEN Alive = {} /\ ~isRunning
                        ELSE handle' # NoWorker \/ \A d \in Device : ~enabled[d]
    OBVIOUS
  <2> USE WorkerAssumption
      DEF SafetyInv, TypeOK, CommandInv, isRunning, sharedVars, mutexVars,
          threadVars, commandVars, workerVars
  <2>1. cpc # "ready"
    OBVIOUS
  <2>2. CASE cpc = "load_name"
    <3>1. handle = NoWorker /\ replaced = NoWorker
      BY <2>2 DEF LoadPC
    <3>2. Alive = {}
      BY <3>1 DEF ThreadInv, Alive
    <3>3. QED
      BY <2>2, <3>1, <3>2
  <2>3. CASE Operator
    BY <2>1, <2>3 DEF Operator, StartCommand, requestShutdown, emergencyAbort,
       Exit, BeginShutdown, LoadCommand, SetEnabled, SetDigitalOutputID
  <2>4. CASE StartRefused
    BY <2>4 DEF StartRefused
  <2>5. CASE StartWorker
    BY <2>5 DEF StartWorker, Alive
  <2>6. CASE ReplaceJoin
    BY <2>6 DEF ReplaceJoin
  <2>7. CASE \/ ReplaceStop \/ RequestStop \/ NotifyOne \/ JoinWorker
             \/ LoadValveEnabled \/ LoadPumpEnabled \/ LoadValveOutput
             \/ LoadPumpOutput
    BY <2>7 DEF ReplaceStop, RequestStop, NotifyOne, JoinWorker,
       LoadValveEnabled, LoadPumpEnabled, LoadValveOutput, LoadPumpOutput,
       Continue
  <2>8. CASE ResetState
    BY <2>8 DEF ResetState, Continue
  <2>9. CASE LoadRejected
    BY <2>9 DEF LoadRejected, RestartOrReturn, Continue
  <2>10. CASE ReadName \/ NameThrows
    BY <2>2, <2>10 DEF ReadName, NameThrows
  <2>11. ASSUME NEW w \in Worker, WorkerMove(w)
         PROVE  FALSE
    BY <2>1, <2>11, WorkerFrame
  <2>12. CASE Exited
    BY <2>1, <2>12 DEF Exited, vars
  <2>13. QED
    BY <2>2, <2>3, <2>4, <2>5, <2>6, <2>7, <2>8, <2>9, <2>10, <2>11, <2>12
       DEF Next, Threads, CommandStep, WorkerMove
<1>2. QED
  BY <1>1, SafetyInvariant, PTL DEF Spec, LoadRestartsOrThrows

=============================================================================
