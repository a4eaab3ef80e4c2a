---------------------------- MODULE InflightOps ----------------------------
(***************************************************************************)
(* The in-flight journal of one daemon (inflight_ops.rs): one durable file *)
(* per orchestration, and the ownership query every destructive slot path  *)
(* consults.  The operations modelled are those of the `Recovery` payload, *)
(* the one that journals on the node that hosts the slot; `begin` holds a  *)
(* mutex, so check and write are one step.  Files are written atomically   *)
(* (temp and rename) and survive a crash of the daemon.                    *)
(*                                                                         *)
(* An operation's id is its place in the journal, so the youngest is the   *)
(* one with the largest id.  Its phase is left out: for this payload no    *)
(* code path reads it (resume refuses a recovery).                         *)
(***************************************************************************)
EXTENDS Integers, Sequences, FiniteSetsExt

CONSTANTS Standby       \* the members whose slots this primary hosts

VARIABLES journal       \* the operations begun, oldest first

InflightStatus == {"InProgress", "Done", "Abandoned"}

InflightOp == [target     : Standby,
               status     : InflightStatus,
               fresh      : BOOLEAN,   \* completed within CROSS_OP_GRACE
               discharged : BOOLEAN,   \* discharged_at is set
               operator   : BOOLEAN]   \* history: abandoned by the operator

Op == DOMAIN journal

(* `op_name` and `key`: a recovery is told by the pair (primary, standby), *)
(* and this primary is one of every pair.                                  *)
SameKey(i, n) == journal[i].target = n

(* `begin`, not exclusive: refused while the same (op_name, key) is in     *)
(* progress.                                                               *)
MayBegin(n) ==
  \A i \in Op : SameKey(i, n) => journal[i].status # "InProgress"

Begun(n) ==
  Append(journal, [target |-> n, status |-> "InProgress", fresh |-> FALSE,
                   discharged |-> FALSE, operator |-> FALSE])

(* `complete` and `abandon` do not look at the status they overwrite.      *)
Completed(i) == [journal EXCEPT ![i].status = "Done", ![i].fresh = TRUE]
Abandoned(i) == [journal EXCEPT ![i].status = "Abandoned"]

(* `discharge`: the rebuilt node was seen alive.                           *)
Discharged(i) == [journal EXCEPT ![i].discharged = TRUE]

(* Mutant: ownership ends with completion.                                 *)
OwnsInProgress(i) == journal[i].status = "InProgress"

(* `owner_of_node`: in progress, or done, not discharged and in grace.     *)
Owns(i) ==
  \/ journal[i].status = "InProgress"
  \/ /\ journal[i].status = "Done"
     /\ journal[i].fresh
     /\ ~journal[i].discharged
Owners(n) == {i \in Op : journal[i].target = n /\ Owns(i)}

(* `owner_of_slot_observing`: the youngest owner counts.  When it is a     *)
(* completed one and the slot is active, the consult discharges it and     *)
(* reports no owner; `active` is what the caller can see of the slot.      *)
Discharging(n, active) ==
  /\ Owners(n) # {}
  /\ journal[Max(Owners(n))].status = "Done"
  /\ active
Owned(n, active) == Owners(n) # {} /\ ~Discharging(n, active)
Consulted(n, active) ==
  IF Discharging(n, active) THEN Discharged(Max(Owners(n))) ELSE journal
=============================================================================
