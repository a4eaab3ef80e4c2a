------------------------------ MODULE RoleExec ------------------------------
(***************************************************************************)
(* The execution layer (roleexec.rs): what `apply` does with a decision,   *)
(* through the instance (pgman instance.rs).  One action per arm.  An      *)
(* executor failure is logged and the next tick retries.                   *)
(*                                                                         *)
(* Left out: the inflight journal of a promotion, the replication slots    *)
(* reserved on promotion and the pgpool self-attach probe, none of which   *)
(* a decision or a later action of this module reads.  The quorum-commit   *)
(* probe runs at every tick of a holder: its rate limit is one loop_wait   *)
(* with the default timing.                                                *)
(***************************************************************************)
EXTENDS HaLoop

VARIABLES exec,       \* RoleExecutor's own memory
          mandate     \* history: the term each instance was last promoted under

exvars == <<exec, mandate>>

FreshExecutor == [confirmed_upstream   |-> NoNode,
                  follow_stalled_since |-> NoClock,
                  follow_wedged        |-> FALSE]

Applying(n, kinds) == agent[n].at = "apply" /\ agent[n].dec.kind \in kinds

(* Mutant: a primary nobody is attached to disarms.                        *)
AutoDisarm(n) == IF Attached(n) = {} THEN {} ELSE Peers(n)

(* ensure_quorum_commit: arm at the first attached standby, repair drift,  *)
(* never disarm.                                                           *)
QuorumCommit(n) ==
  IF pg[n].sync = {} /\ Attached(n) = {} THEN pg[n].sync ELSE Peers(n)

EnsureQuorumCommit(n) ==
  [pg EXCEPT ![n].sync = QuorumCommit(n), ![n].armed = @ \/ Attached(n) # {}]

(* ensure_primary: nothing to do on a primary, an error on an instance     *)
(* that does not answer, else pg_promote() and a poll bounded by the ttl.  *)
ApplyPromote(n) ==
  /\ Applying(n, {"TookOver", "AwaitingPromotion"})
  /\ \/ /\ ~(Answers(n) /\ pg[n].shape = "standby")
        /\ Sleep(n)
        /\ UNCHANGED <<pg, mandate>>
     \/ /\ Answers(n) /\ pg[n].shape = "standby"
        /\ pg' = [pg EXCEPT ![n].promoting = TRUE]
        /\ mandate' = [mandate EXCEPT ![n] = agent[n].dec.lease.term]
        /\ Go(n, "promote", agent[n].dec.kind, agent[n].dec.lease)
  /\ UNCHANGED <<store, late, ts, seen, faults, tenure, cut, acked, risked, exec>>

PromotionSeen(n) ==
  /\ agent[n].at = "promote"
  /\ Answers(n) /\ pg[n].shape = "primary"
  /\ pg' = EnsureQuorumCommit(n)
  /\ exec' = [exec EXCEPT ![n].confirmed_upstream = NoNode]
  /\ Sleep(n)
  /\ UNCHANGED <<store, late, ts, seen, faults, tenure, cut, acked, risked, mandate>>

(* The deadline: the outcome is unknown, the signal cannot be recalled.    *)
PromotionTimesOut(n) ==
  /\ agent[n].at = "promote"
  /\ ~(Answers(n) /\ pg[n].shape = "primary")
  /\ agent[n].age >= LeaderTtl
  /\ Sleep(n)
  /\ UNCHANGED <<store, late, ts, seen, faults, tenure, pgvars, exvars>>

(* Mutant: the stop is requested and never happens.                        *)
FenceWithoutStop(n) ==
  /\ exec' = [exec EXCEPT ![n] = FreshExecutor]
  /\ Sleep(n)
  /\ UNCHANGED <<store, late, ts, seen, faults, tenure, pgvars, mandate>>

(* fence: stop the instance; a failure leaves it running until the next    *)
(* tick decides again.                                                     *)
Fence(n) ==
  /\ \/ pg' = [pg EXCEPT ![n] = Stopped(@)] /\ UNCHANGED faults
     \/ pg[n].running /\ Fault("stopfail") /\ UNCHANGED pg
  /\ exec' = [exec EXCEPT ![n] = FreshExecutor]
  /\ Sleep(n)
  /\ UNCHANGED <<store, late, ts, seen, tenure, cut, acked, risked, mandate>>

ApplyDemote(n) == Applying(n, {"WouldDemote"}) /\ Fence(n)

(* converge_follow, by the state of the instance.                          *)
FollowAsPrimary(n) ==
  /\ Applying(n, {"Following"})
  /\ Answers(n) /\ pg[n].shape = "primary"
  /\ Fence(n)

FollowConfirmed(n) ==
  LET x == exec[n]
      stalled_for == IF x.follow_stalled_since = NoClock THEN 0
                     ELSE x.follow_stalled_since
  IN  /\ Applying(n, {"Following"})
      /\ Answers(n) /\ pg[n].shape = "standby"
      /\ x.confirmed_upstream = agent[n].dec.lease.holder
      /\ exec' = [exec EXCEPT ![n] =
           CASE Streams(n) -> [x EXCEPT !.follow_stalled_since = NoClock,
                                        !.follow_wedged = FALSE]
             [] ~Streams(n) /\ stalled_for < LeaderTtl ->
                  [x EXCEPT !.follow_stalled_since = stalled_for]
             [] OTHER -> [FreshExecutor EXCEPT !.follow_wedged = TRUE]]
      /\ Sleep(n)
      /\ UNCHANGED <<store, late, ts, seen, faults, tenure, pgvars, mandate>>

(* follow: the slot is created on the holder through its agent, then the   *)
(* local standby is pointed at it.                                         *)
Follow(n) ==
  LET h == agent[n].dec.lease.holder
  IN  /\ Applying(n, {"Following"})
      /\ Answers(n) /\ pg[n].shape = "standby"
      /\ exec[n].confirmed_upstream # h
      /\ \/ /\ h \in Hearable(n)
            /\ Answers(h)
            /\ pg' = [pg EXCEPT ![n].upstream = h]
            /\ exec' = [exec EXCEPT ![n].confirmed_upstream = h,
                                    ![n].follow_stalled_since = NoClock]
         \/ ~(h \in Hearable(n) /\ Answers(h)) /\ UNCHANGED <<pg, exec>>
      /\ Sleep(n)
      /\ UNCHANGED <<store, late, ts, seen, faults, tenure, cut, acked, risked, mandate>>

(* A stopped instance stays stopped, an unknown one is left alone.         *)
FollowNothing(n) ==
  /\ Applying(n, {"Following"})
  /\ ~Answers(n)
  /\ Sleep(n)
  /\ UNCHANGED <<store, late, ts, seen, faults, tenure, pgvars, exvars>>

(* The candidacy freeze: stop the walreceiver.                             *)
ApplyDetach(n) ==
  /\ Applying(n, {"DetachingFromDeposed"})
  /\ pg' = [pg EXCEPT ![n].upstream = IF Answers(n) THEN NoNode ELSE @]
  /\ exec' = [exec EXCEPT ![n].confirmed_upstream = NoNode,
                          ![n].follow_stalled_since = NoClock]
  /\ Sleep(n)
  /\ UNCHANGED <<store, late, ts, seen, faults, tenure, cut, acked, risked, mandate>>

(* Primary steady state, or the lease claimed for the primary we are.      *)
ApplyRetain(n) ==
  /\ Applying(n, {"RetainedLease", "Claimed"})
  /\ exec' = [exec EXCEPT ![n] = FreshExecutor]
  /\ pg' = IF Answers(n) THEN EnsureQuorumCommit(n) ELSE pg
  /\ mandate' = [mandate EXCEPT ![n] = agent[n].dec.lease.term]
  /\ Sleep(n)
  /\ UNCHANGED <<store, late, ts, seen, faults, tenure, cut, acked, risked>>

Apply(n) ==
  \/ ApplyPromote(n)
  \/ PromotionSeen(n)
  \/ PromotionTimesOut(n)
  \/ ApplyDemote(n)
  \/ FollowAsPrimary(n)
  \/ FollowConfirmed(n)
  \/ Follow(n)
  \/ FollowNothing(n)
  \/ ApplyDetach(n)
  \/ ApplyRetain(n)
=============================================================================
