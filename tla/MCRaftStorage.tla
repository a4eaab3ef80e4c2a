---------------------------- MODULE MCRaftStorage ----------------------------
(* Instance of RaftStorage for TLC.  A pause bumps the generation each     *)
(* time it is applied: a command applied twice or skipped shows.  The      *)
(* candidates are interchangeable.                                         *)
EXTENDS RaftStorage, TLC

Symmetry == Permutations(Node)

OnePause == {PausedCmd(TRUE)}
=============================================================================
