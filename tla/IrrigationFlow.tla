--------------------------- MODULE IrrigationFlow ---------------------------
(***************************************************************************)
(* What the automatic watering system promises its operator: the flow of   *)
(* docs/reference/commands/auto-watering.md and of the "flow" object of    *)
(* docs/reference/features/project-management.md, with no threads, no      *)
(* mutexes and no commands in progress.                                    *)
(*                                                                         *)
(* A job repeats one cycle: the valve opens, the pump starts, water flows, *)
(* the valve closes, the pump stops, the roots dry.  A job is stopped only *)
(* at rest, with everything closed, and devices are enabled or disabled    *)
(* only between jobs.  DailyCycleAWS implements this (FlowRefinement).     *)
(***************************************************************************)
Device == {"valve", "pump"}

VARIABLES
  phase,                 (* where the job is in its cycle                  *)
  enabled,               (* enabled[d]: does the flow use device d?        *)
  open                   (* open[d]: is device d active?                   *)

flowVars == <<phase, enabled, open>>

Phase == {"stopped", "resting", "opening", "watering", "closing"}

FlowTypeOK ==
  /\ phase \in Phase
  /\ enabled \in [Device -> BOOLEAN]
  /\ open \in [Device -> BOOLEAN]

FlowInit ==
  /\ phase = "stopped"
  /\ enabled = [d \in Device |-> TRUE]
  /\ open = [d \in Device |-> FALSE]

Move(from, to) == phase = from /\ phase' = to

Set(d, b) == open' = [open EXCEPT ![d] = b] /\ UNCHANGED enabled

Configure(d, b) ==
  /\ phase = "stopped"
  /\ enabled' = [enabled EXCEPT ![d] = b]
  /\ UNCHANGED <<phase, open>>

Start ==
  /\ Move("stopped", "resting")
  /\ \E d \in Device : enabled[d]
  /\ UNCHANGED <<enabled, open>>

OpenValve  == Move("resting", "opening")  /\ Set("valve", enabled["valve"])

StartPump  == Move("opening", "watering") /\ Set("pump", enabled["pump"])

CloseValve == Move("watering", "closing") /\ Set("valve", FALSE)

StopPump   == Move("closing", "resting")  /\ Set("pump", FALSE)

\* The device is moved to another output, which is inactive until the flow's
\* next step; not while a device is being operated.
MoveToNewPin(d) ==
  /\ phase \in {"stopped", "resting", "watering"}
  /\ Set(d, FALSE)
  /\ UNCHANGED phase

Stop ==
  /\ Move("resting", "stopped")
  /\ UNCHANGED <<enabled, open>>

FlowNext ==
  \/ \E d \in Device, b \in BOOLEAN : Configure(d, b)
  \/ Start
  \/ OpenValve \/ StartPump \/ CloseValve \/ StopPump
  \/ \E d \in Device : MoveToNewPin(d)
  \/ Stop

\* A running cycle goes on, whatever the operator does.
FlowFairness ==
  /\ WF_flowVars(OpenValve)
  /\ WF_flowVars(StartPump)
  /\ WF_flowVars(CloseValve)
  /\ WF_flowVars(StopPump)

FlowSafety == FlowInit /\ [][FlowNext]_flowVars

FlowSpec == FlowSafety /\ FlowFairness

-----------------------------------------------------------------------------
\* Nothing is active between jobs, nor while the roots dry.
DryAtRest == phase \in {"stopped", "resting"} => \A d \in Device : ~open[d]

\* Only a device the flow uses is ever active.
OnlyEnabledOpen == \A d \in Device : open[d] => enabled[d]

=============================================================================
