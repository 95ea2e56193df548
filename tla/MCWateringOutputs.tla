------------------------- MODULE MCWateringOutputs -------------------------
(* Two offsets in use, one free, one the kernel refuses. *)
EXTENDS WateringOutputs

MCOffset == 23 .. 26
MCUnavailable == {26}
MCDefault == [valve |-> 23, pump |-> 24]
=============================================================================
