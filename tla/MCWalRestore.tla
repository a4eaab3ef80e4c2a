---------------------------- MODULE MCWalRestore ----------------------------
(* Instances of WalRestore for TLC: the rival comes first in the pool.     *)
EXTENDS WalRestore

RivalFirst == <<Rival, Upstream>>
=============================================================================
