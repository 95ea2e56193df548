--------------------------- MODULE MCDailyCycleAWS ---------------------------
(* Instances of DailyCycleAWS for TLC.                                     *)
EXTENDS DailyCycleAWS

AllCommands == CommandName

StartStop == {"start", "stop"}

StartAbortLoad == {"start", "abort", "load"}

=============================================================================
