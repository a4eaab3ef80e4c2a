----------------------------- MODULE MCHandoff -----------------------------
(* Planned handoff in a cluster of three.                                  *)
EXTENDS Handoff
=============================================================================
