-------------------------- MODULE MCFlowRefinement --------------------------
(* Instance of FlowRefinement for TLC.                                     *)
EXTENDS FlowRefinement

AllCommands == CommandName

=============================================================================
