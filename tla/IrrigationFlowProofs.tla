------------------------ MODULE IrrigationFlowProofs ------------------------
(***************************************************************************)
(* What the operator may rely on, proved of the abstract flow; the         *)
(* refinement proved in FlowRefinementProofs carries it to DailyCycleAWS.  *)
(***************************************************************************)
EXTENDS IrrigationFlow, TLAPS

\* DryAtRest is not inductive: a pump that is stopped at rest was stopped
\* after a valve that had been closed, so the half-way phases matter too.
FlowInv ==
  /\ FlowTypeOK
  /\ DryAtRest
  /\ OnlyEnabledOpen
  /\ phase = "opening" => ~open["pump"]
  /\ phase = "closing" => ~open["valve"]

\* Every step of the flow keeps FlowInv: what each phase leaves open.
LEMMA FlowInvStep == FlowInv /\ [FlowNext]_flowVars => FlowInv'
<1> SUFFICES ASSUME FlowInv, [FlowNext]_flowVars PROVE FlowInv'
  OBVIOUS
<1> USE DEF FlowInv, FlowTypeOK, DryAtRest, OnlyEnabledOpen, Phase, Device
<1>1. ASSUME NEW d \in Device, NEW b \in BOOLEAN, Configure(d, b)
      PROVE  FlowInv'
  BY <1>1 DEF Configure
<1>2. CASE Start
  BY <1>2 DEF Start, Move
<1>3. CASE OpenValve
  BY <1>3 DEF OpenValve, Move, Set
<1>4. CASE StartPump
  BY <1>4 DEF StartPump, Move, Set
<1>5. CASE CloseValve
  BY <1>5 DEF CloseValve, Move, Set
<1>6. CASE StopPump
  BY <1>6 DEF StopPump, Move, Set
<1>7. ASSUME NEW d \in Device, MoveToNewPin(d)
      PROVE  FlowInv'
  BY <1>7 DEF MoveToNewPin, Set
<1>8. CASE Stop
  BY <1>8 DEF Stop, Move
<1>9. CASE UNCHANGED flowVars
  BY <1>9 DEF flowVars
<1>10. QED
  BY <1>1, <1>2, <1>3, <1>4, <1>5, <1>6, <1>7, <1>8, <1>9 DEF FlowNext

\* Between jobs, and while the roots dry, every output is inactive.
THEOREM FlowIsDryAtRest == FlowSafety => []DryAtRest
<1>1. FlowInit => FlowInv
  BY DEF FlowInit, FlowInv, FlowTypeOK, DryAtRest, OnlyEnabledOpen, Phase
<1>2. FlowInv => DryAtRest
  BY DEF FlowInv
<1>3. QED
  BY <1>1, <1>2, FlowInvStep, PTL DEF FlowSafety

\* Only devices the flow uses are ever active.
THEOREM FlowOpensOnlyEnabled == FlowSafety => []OnlyEnabledOpen
<1>1. FlowInit => FlowInv
  BY DEF FlowInit, FlowInv, FlowTypeOK, DryAtRest, OnlyEnabledOpen, Phase
<1>2. FlowInv => OnlyEnabledOpen
  BY DEF FlowInv
<1>3. QED
  BY <1>1, <1>2, FlowInvStep, PTL DEF FlowSafety

=============================================================================
