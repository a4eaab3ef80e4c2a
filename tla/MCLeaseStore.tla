---------------------------- MODULE MCLeaseStore ----------------------------
(* Instances of LeaseStore for TLC.  The nodes are interchangeable: the    *)
(* store never compares them.                                              *)
EXTENDS LeaseStore, TLC

Symmetry == Permutations(Node)
=============================================================================
