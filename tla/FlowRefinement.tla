--------------------------- MODULE FlowRefinement ---------------------------
(***************************************************************************)
(* DailyCycleAWS, under settled use, implements IrrigationFlow.  The flow's*)
(* job is the thread m_workerThread owns, and its phase follows from that  *)
(* thread's control point.                                                 *)
(***************************************************************************)
EXTENDS DailyCycleAWS

\* The phase of the thread w.
PhaseOf(w) ==
  CASE wpc[w] = "pump_on"                         -> "opening"
    [] wpc[w] = "off_pump"                        -> "closing"
    [] Irrigates(w, "valve") /\ wpc[w] # "pump_on" -> "watering"
    [] OTHER                                      -> "resting"

Flow == INSTANCE IrrigationFlow WITH
          phase <- IF handle = NoWorker THEN "stopped" ELSE PhaseOf(handle),
          open  <- output

\* Every step of the threads, seen through the mapping, is a step of the flow or
\* leaves it as it is: whatever the interleaving, valve and pump move in the
\* flow's order, a job stops only at rest, and no command reaches into a cycle.
StepsImplementFlow == Flow!FlowSafety

\* Every behaviour of the threads, seen through the mapping, is a behaviour of
\* the flow, its progress included: a cycle that has begun goes on.
ImplementsFlow == Flow!FlowSpec

=============================================================================
