------------------------------- MODULE Lease -------------------------------
(***************************************************************************)
(* The replicated cluster document of pg_agent and the commands that       *)
(* change it: `ClusterState` (consensus.rs) and `apply_command`            *)
(* (raftstore.rs).  Everything here is a pure operator: the Raft state     *)
(* machine is deterministic, and the modules that use it decide when a     *)
(* command is applied.                                                     *)
(*                                                                         *)
(* Abstractions: timestamps and the texts of a pause are dropped; a pause  *)
(* is a Boolean; a scheduled switchover is its target.  `Option<Lease>` is *)
(* a lease record, with Vacant for `None`, so that the compare-and-swap's  *)
(* three-way match on (lease, expected) is an equality.                    *)
(***************************************************************************)
EXTENDS Naturals

CONSTANTS Node,     \* the members of the pool (their node ids)
          NoNode    \* "no node": the holder of a vacant lease

ASSUME NoNodeAssumption == NoNode \notin Node

Vacant == [holder |-> NoNode, term |-> 0]

(* A lease somebody holds: the term is the fencing token, minted from the  *)
(* generation, hence positive.                                             *)
HeldLease == [holder : Node, term : Nat \ {0}]
AnyLease == HeldLease \cup {Vacant}

ClusterState == [lease      : AnyLease,
                 paused     : BOOLEAN,
                 switchover : Node \cup {NoNode},
                 generation : Nat]

(* ClusterState::default(): what a fresh state machine starts from.        *)
EmptyState == [lease |-> Vacant, paused |-> FALSE,
               switchover |-> NoNode, generation |-> 0]

-----------------------------------------------------------------------------
(* Each definition marked "mutant" is a way this code could plausibly be   *)
(* wrong; a property that does not notice it says nothing about the code.  *)

(* Mutant: the compare looks at the holder and forgets the term.           *)
HolderOnlyCas(s, expected) == s.lease.holder = expected.holder

(* Takeover: commits only if the lease is still what the candidate saw.    *)
TakeoverWins(s, expected) == s.lease = expected

(* Mutant: a takeover from a holder keeps the term it deposes.             *)
TermOnVacancyOnly(s, candidate, expected) ==
  IF TakeoverWins(s, expected)
  THEN [s EXCEPT !.generation = @ + 1,
                 !.lease = [holder |-> candidate,
                            term |-> IF s.lease = Vacant THEN s.generation + 1
                                     ELSE s.lease.term]]
  ELSE s

(* Mutant: terms count up from the lease instead of the generation.        *)
TermFromLease(s, candidate, expected) ==
  IF TakeoverWins(s, expected)
  THEN [s EXCEPT !.generation = @ + 1,
                 !.lease = [holder |-> candidate, term |-> s.lease.term + 1]]
  ELSE s

(* Mutant: the swap without the compare.                                   *)
BlindTakeover(s, candidate, expected) ==
  [s EXCEPT !.generation = @ + 1,
            !.lease = [holder |-> candidate, term |-> s.generation + 1]]

ApplyTakeover(s, candidate, expected) ==
  IF TakeoverWins(s, expected)
  THEN [s EXCEPT !.generation = @ + 1,
                 !.lease = [holder |-> candidate, term |-> s.generation + 1]]
  ELSE s

(* Mutant: release checks the holder only.                                 *)
HolderOnlyRelease(s, lease) == s.lease.holder = lease.holder /\ lease # Vacant

(* Release: only the committed (holder, term) vacates the lease.           *)
ReleaseMatches(s, lease) == s.lease = lease /\ lease # Vacant

(* Mutant: release clears the term and leaves the holder.                  *)
ReleaseKeepsHolder(s, lease) ==
  IF ReleaseMatches(s, lease)
  THEN [s EXCEPT !.generation = @ + 1, !.lease.term = 0]
  ELSE s

ApplyRelease(s, lease) ==
  IF ReleaseMatches(s, lease)
  THEN [s EXCEPT !.generation = @ + 1, !.lease = Vacant]
  ELSE s

(* Mutant: a pause starts the generation over.                             *)
PausedResets(s, paused) == [s EXCEPT !.generation = 0, !.paused = paused]

ApplySetPaused(s, paused) ==
  [s EXCEPT !.generation = @ + 1, !.paused = paused]

ApplySetSwitchover(s, target) ==
  [s EXCEPT !.generation = @ + 1, !.switchover = target]

(* The commands of the log (`ConsensusCommand`).                           *)
TakeoverCmd(candidate, expected) ==
  [op |-> "takeover", node |-> candidate, lease |-> expected]
ReleaseCmd(lease) == [op |-> "release", node |-> lease.holder, lease |-> lease]
PausedCmd(paused) == [op |-> "paused", value |-> paused]
SwitchoverCmd(target) == [op |-> "switchover", value |-> target]

ConsensusCommand ==
  [op : {"takeover"}, node : Node, lease : AnyLease]
    \cup [op : {"release"}, node : Node, lease : HeldLease]
    \cup [op : {"paused"}, value : BOOLEAN]
    \cup [op : {"switchover"}, value : Node \cup {NoNode}]

ApplyCommand(s, cmd) ==
  CASE cmd.op = "takeover"   -> ApplyTakeover(s, cmd.node, cmd.lease)
    [] cmd.op = "release"    -> ApplyRelease(s, cmd.lease)
    [] cmd.op = "paused"     -> ApplySetPaused(s, cmd.value)
    [] cmd.op = "switchover" -> ApplySetSwitchover(s, cmd.value)

(* Mutant: a candidate that holds the lease already is told it won it.     *)
RetryIsWon(s, cmd) ==
  CASE cmd.op = "takeover" ->
         IF TakeoverWins(s, cmd.lease) \/ s.lease.holder = cmd.node
         THEN "Won" ELSE "Lost"
    [] cmd.op = "release" ->
         IF ReleaseMatches(s, cmd.lease) THEN "Released" ELSE "NotHolder"
    [] OTHER -> "Ack"

(* What the caller is answered (`CommandResponse`).                        *)
Outcome(s, cmd) ==
  CASE cmd.op = "takeover" ->
         IF TakeoverWins(s, cmd.lease) THEN "Won" ELSE "Lost"
    [] cmd.op = "release" ->
         IF ReleaseMatches(s, cmd.lease) THEN "Released" ELSE "NotHolder"
    [] OTHER -> "Ack"
=============================================================================
