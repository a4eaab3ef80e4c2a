--------------------------- MODULE AbstractLease ---------------------------
(***************************************************************************)
(* What the lease promises to everything built on it, stated without       *)
(* generations, commands or Raft (consensus.rs, `Lease` and                *)
(* `ConsensusStore`): terms are fencing tokens.  A lease is granted to one *)
(* node under a term larger than every term granted before, and it is      *)
(* given up only from the state in which it is held.                       *)
(***************************************************************************)
EXTENDS Naturals

CONSTANTS Node, NoNode

VARIABLES lease,    \* the lease in force
          granted   \* history: every lease ever granted

avars == <<lease, granted>>

NoLease == [holder |-> NoNode, term |-> 0]

AInit == lease = NoLease /\ granted = {}

(* The term is free, as long as it is new and larger than all before it.   *)
Grant(n) ==
  /\ lease' = [holder |-> n, term |-> lease'.term]
  /\ lease'.term \in Nat \ {0}
  /\ \A g \in granted : g.term < lease'.term
  /\ granted' = granted \cup {lease'}

Vacate ==
  /\ lease # NoLease
  /\ lease' = NoLease
  /\ UNCHANGED granted

ANext == Vacate \/ \E n \in Node : Grant(n)

ASpec == AInit /\ [][ANext]_avars
=============================================================================
