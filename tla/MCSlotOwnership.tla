-------------------------- MODULE MCSlotOwnership --------------------------
(* Instances of SlotOwnership for TLC.                                     *)
EXTENDS SlotOwnership
=============================================================================
