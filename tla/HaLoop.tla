------------------------------- MODULE HaLoop -------------------------------
(***************************************************************************)
(* The decision layer (ha.rs, cluster_view.rs): every loop_wait each agent *)
(* reads the lease, observes its own PostgreSQL and its peers, and decides *)
(* one HaDecision.  A tick is several steps, because others move between   *)
(* them: TickRead (the linearizable read), one Tick... action (observing   *)
(* and deciding), a Takeover... or a Release where the decision writes to  *)
(* the store, and the executor's action (RoleExec).                        *)
(*                                                                         *)
(* An `Instant` is modelled by its age, which time passing increases and   *)
(* which saturates where no comparison can tell the difference.  Observing *)
(* local PostgreSQL and the peers is one step: the time unit is coarser    *)
(* than a status fan-out.  Decisions the executor does not act on put the  *)
(* agent straight back to sleep.                                           *)
(***************************************************************************)
EXTENDS Postgres, Integers

CONSTANTS LoopWait, RetryTimeout, LeaderTtl,   \* HaTiming, in time units
          MaxTerm,      \* bound: generations of the lease
          FaultKinds    \* which faults this instance may meet

(* RaftConfig::validate refuses any other timing.                          *)
ASSUME TimingAssumption ==
  /\ {LoopWait, RetryTimeout, LeaderTtl} \subseteq Nat
  /\ LeaderTtl >= LoopWait + 2 * RetryTimeout

VARIABLES store,    \* the replicated ClusterState
          late,     \* proposals that failed for their caller, not for Raft
          agent,    \* where each agent is: its loop, or starting, or down
          ts,       \* TickState of each agent
          seen,     \* PeerSeen: seen[n][p], age of n's last sight of p serving
          faults,   \* faults still to come
          tenure    \* history: age of the lease in force

havars == <<store, late, agent, ts, seen, faults, tenure>>

NoClock == -1       \* an `Option<Instant>` that is None
MaxAge == LeaderTtl + 1
Older(age) == IF age = NoClock THEN age
              ELSE IF age < MaxAge THEN age + 1 ELSE MaxAge

NoPos == <<0, 0>>
NoSample == [p \in Node |-> NoPos]
NoView == [known |-> FALSE, lease |-> Vacant, paused |-> FALSE]
NoDecision == [kind |-> "none", lease |-> Vacant]

FreshTickState ==
  [last_holder            |-> NoNode,
   holder_unhealthy_since |-> [holder |-> NoNode, age |-> NoClock],
   store_unknown_since    |-> NoClock,
   backoff_until          |-> 0,
   held_term              |-> 0,
   held_since             |-> NoClock,
   settled_pos            |-> NoSample]

(* Faults are bounded; what repairs them is not.                           *)
Fault(kind) == kind \in FaultKinds /\ faults > 0 /\ faults' = faults - 1
Repair(kind) == kind \in FaultKinds /\ UNCHANGED faults

Up(n) == agent[n].at # "down"
Peers(n) == Node \ {n}
Hearable(n) == {p \in Peers(n) : Up(p) /\ Linked(n, p)}

(* openraft, from how the store uses it: n can read and write if it can    *)
(* reach a node that can lead, that is, one linked to a majority.          *)
Majority(s) == 2 * Cardinality(s) > Cardinality(Node)
CanLead(l) == Up(l) /\ Majority({p \in Node : Up(p) /\ Linked(l, p)})
StoreReachable(n) == \E l \in Node : CanLead(l) /\ Linked(n, l)

-----------------------------------------------------------------------------
(* What GetStatus of node p reports: a failed recovery probe reads as "not *)
(* in recovery", and a position needs an answer.                           *)
LooksPrimary(p) == pg[p].running /\ ~(Answers(p) /\ pg[p].shape = "standby")
Pos(p) == IF Answers(p) THEN WalPosition(p) ELSE NoPos
Receiving(p) == Answers(p) /\ Streams(p)

(* Mutant: one unreachable peer blinds the observer to all of them.        *)
HeardCollectively(n, heard) ==
  /\ heard = IF Hearable(n) = Peers(n) THEN Peers(n) ELSE {}
  /\ UNCHANGED faults

(* A peer's answer counts for what is observed this tick; a status call    *)
(* that fails costs that peer's evidence and no other's.                   *)
Heard(n, heard) ==
  \/ heard = Hearable(n) /\ UNCHANGED faults
  \/ \E p \in Hearable(n) : heard = Hearable(n) \ {p} /\ Fault("missed")

(* Mutant: a peer that answers counts as a primary seen serving.           *)
RecordAnswers(n, heard) ==
  seen' = [seen EXCEPT ![n] =
             [p \in Peers(n) |-> IF p \in heard THEN 0 ELSE seen[n][p]]]

RecordPrimaries(n, heard) ==
  seen' = [seen EXCEPT ![n] =
             [p \in Peers(n) |-> IF p \in heard /\ LooksPrimary(p)
                                 THEN 0 ELSE seen[n][p]]]

Go(n, at, kind, lease) ==
  agent' = [agent EXCEPT ![n] = [at |-> at, view |-> NoView,
                                 dec |-> [kind |-> kind, lease |-> lease],
                                 wait |-> LoopWait, age |-> 0]]
Sleep(n) == Go(n, "sleep", "none", Vacant)
Act(n, kind, lease) == Go(n, "apply", kind, lease)

(* arm_backoff: loop_wait plus a jitter below loop_wait; a fraction of a   *)
(* unit counts as a whole one.                                             *)
Backoffs == LoopWait .. 2 * LoopWait

-----------------------------------------------------------------------------
(* The read, bounded by retry_timeout: the committed state, or unknown.    *)
TickRead(n) ==
  /\ agent[n].at = "sleep"
  /\ agent[n].wait = 0
  /\ \E view \in {NoView, [known |-> TRUE, lease |-> store.lease,
                           paused |-> store.paused]} :
       /\ agent' = [agent EXCEPT ![n].at = "observe", ![n].view = view]
       /\ IF view.known = StoreReachable(n)
          THEN UNCHANGED faults
          ELSE ~view.known /\ Fault("readerr")
  /\ UNCHANGED <<store, late, ts, seen, tenure, pgvars>>

(* What every tick does before it decides: observe, and let a successful   *)
(* read clear the unknown clock.                                           *)
Observing(n, heard) ==
  /\ agent[n].at = "observe"
  /\ Heard(n, heard)
  /\ RecordPrimaries(n, heard)
  /\ UNCHANGED <<store, late, tenure, pgvars>>

ReadState(n) == [ts[n] EXCEPT !.store_unknown_since = NoClock]
Remember(n, t) == ts' = [ts EXCEPT ![n] = t]

(* Mutant: every unreadable tick starts the unknown clock again.           *)
UnknownClockRestarts(n) ==
  \E heard \in SUBSET Peers(n) :
    /\ Observing(n, heard)
    /\ ~agent[n].view.known
    /\ Remember(n, [ts[n] EXCEPT !.store_unknown_since = 0])
    /\ Sleep(n)

(* Store unknown: only a node that last saw itself holding escalates.      *)
TickStoreUnknown(n) ==
  \E heard \in SUBSET Peers(n) :
    /\ Observing(n, heard)
    /\ ~agent[n].view.known
    /\ LET since == ts[n].store_unknown_since
           unknown_for == IF since = NoClock THEN 0 ELSE since
       IN  /\ Remember(n, [ts[n] EXCEPT !.store_unknown_since = unknown_for])
           /\ IF ts[n].last_holder = n /\ unknown_for > RetryTimeout
              THEN Act(n, "WouldDemote", Vacant)
              ELSE Sleep(n)

TickPaused(n) ==
  \E heard \in SUBSET Peers(n) :
    /\ Observing(n, heard)
    /\ agent[n].view.known
    /\ agent[n].view.paused
    /\ Remember(n, ReadState(n))
    /\ Sleep(n)

(* The lease is mine.                                                      *)
TickHolder(n) ==
  \E heard \in SUBSET Peers(n) :
    LET lease == agent[n].view.lease
        held_for == IF ts[n].held_term = lease.term THEN ts[n].held_since ELSE 0
    IN  /\ Observing(n, heard)
        /\ agent[n].view.known
        /\ ~agent[n].view.paused
        /\ lease.holder = n
        /\ Remember(n, [ReadState(n) EXCEPT
                          !.holder_unhealthy_since = FreshTickState.holder_unhealthy_since,
                          !.settled_pos = NoSample,
                          !.held_term = lease.term,
                          !.held_since = held_for,
                          !.last_holder = n])
        /\ \/ /\ Answers(n) /\ pg[n].shape = "primary"
              /\ Act(n, "RetainedLease", lease)
           \/ /\ Answers(n) /\ pg[n].shape = "standby"
              /\ held_for < LeaderTtl
              /\ Act(n, "AwaitingPromotion", lease)
           \/ /\ Answers(n) /\ pg[n].shape = "standby"
              /\ held_for >= LeaderTtl
              /\ Go(n, "release", "WouldDemote", lease)
           \/ /\ ~Answers(n)
              /\ Act(n, "WouldDemote", Vacant)

(* Somebody else holds it, and is seen running as a primary: Following, or *)
(* WouldFollowNewHolder, which the executor treats alike.                  *)
TickFollower(n) ==
  \E heard \in SUBSET Peers(n) :
    LET lease == agent[n].view.lease
    IN  /\ Observing(n, heard)
        /\ agent[n].view.known
        /\ ~agent[n].view.paused
        /\ lease.holder \in heard
        /\ LooksPrimary(lease.holder)
        /\ Remember(n, [ReadState(n) EXCEPT
                          !.holder_unhealthy_since = FreshTickState.holder_unhealthy_since,
                          !.settled_pos = NoSample,
                          !.last_holder = lease.holder])
        /\ Act(n, "Following", lease)

(* Mutants: every tick starts the clock again; or the clock that watched   *)
(* the predecessor goes on (finding 13).                                   *)
ClockRestarts(n, h) == 0
ClockNotKeyed(n, h) ==
  IF ts[n].holder_unhealthy_since.age # NoClock
  THEN ts[n].holder_unhealthy_since.age ELSE 0

(* How long the holder h has been unhealthy by n's clock, which is keyed   *)
(* to the holder it watched.                                               *)
UnhealthyFor(n, h) ==
  IF ts[n].holder_unhealthy_since.holder = h
  THEN ts[n].holder_unhealthy_since.age ELSE 0

Watched(n, h) ==
  [ReadState(n) EXCEPT
     !.holder_unhealthy_since = [holder |-> h, age |-> UnhealthyFor(n, h)]]

HolderLooksDead(n, heard) ==
  LET h == agent[n].view.lease.holder
  IN  /\ agent[n].view.known
      /\ ~agent[n].view.paused
      /\ h \in Peers(n)
      /\ ~(h \in heard /\ LooksPrimary(h))

TickWatch(n) ==
  \E heard \in SUBSET Peers(n) :
    LET h == agent[n].view.lease.holder
    IN  /\ Observing(n, heard)
        /\ HolderLooksDead(n, heard)
        /\ UnhealthyFor(n, h) < LeaderTtl
        /\ Remember(n, [Watched(n, h) EXCEPT !.last_holder = h])
        /\ Sleep(n)

-----------------------------------------------------------------------------
(* The candidacy ladder, rung by rung.                                     *)

(* The second opinion: a reachable member saw the holder SERVING within    *)
(* the ttl.                                                                *)
Witnessed(n, h, heard) == \E p \in heard \ {h} : seen[p][h] <= LeaderTtl

Barred(n, expected, heard) ==
  \/ ts[n].backoff_until > 0
  \/ ~Answers(n)
  \/ expected # Vacant /\ Witnessed(n, expected.holder, heard)

(* A rival still receives: its position moves, and it may still be acking. *)
RivalMoves(heard) ==
  \E p \in heard : ~LooksPrimary(p) /\ Pos(p) # NoPos /\ Receiving(p)

Sample(n, heard) ==
  [p \in Node |-> IF p \in heard \cup {n} THEN Pos(p) ELSE NoPos]

(* Mutants: the node id alone decides; or positions one record apart still *)
(* count as equal (the retired max_lag_on_failover band).                  *)
LowestIdWins(n, sample) == \E p \in Peers(n) : sample[p] # NoPos /\ p < n
LagBand(n, sample) ==
  \E p \in Peers(n) :
    /\ sample[p] # NoPos
    /\ \/ sample[n][1] < sample[p][1]
       \/ sample[n][1] = sample[p][1] /\ sample[n][2] + 1 < sample[p][2]
       \/ sample[n][1] = sample[p][1] /\ p < n

(* Strict flush-max; the node id breaks exact ties only.                   *)
Outranked(n, sample) ==
  \E p \in Peers(n) :
    /\ sample[p] # NoPos
    /\ \/ PosLess(sample[n], sample[p])
       \/ sample[p] = sample[n] /\ p < n

(* consider_candidacy: t is the TickState with the clocks of this tick.    *)
Candidacy(n, expected, heard, t) ==
  LET sample == Sample(n, heard)
      compares == ~Barred(n, expected, heard) /\ ~Receiving(n) /\ ~RivalMoves(heard)
      kept == [t EXCEPT !.last_holder = expected.holder]
  IN  \/ /\ \/ Barred(n, expected, heard)
            \/ ~Receiving(n) /\ RivalMoves(heard)
            \/ Receiving(n) /\ expected = Vacant
         /\ Remember(n, kept)
         /\ Sleep(n)
      \/ /\ ~Barred(n, expected, heard)
         /\ Receiving(n)
         /\ expected # Vacant
         /\ Remember(n, kept)
         /\ Act(n, "DetachingFromDeposed", expected)
      \/ /\ compares
         /\ sample # ts[n].settled_pos
         /\ Remember(n, [kept EXCEPT !.settled_pos = sample])
         /\ Sleep(n)
      \/ /\ compares
         /\ sample = ts[n].settled_pos
         /\ Outranked(n, sample)
         /\ \E b \in Backoffs : Remember(n, [kept EXCEPT !.backoff_until = b])
         /\ Sleep(n)
      \/ /\ compares
         /\ sample = ts[n].settled_pos
         /\ ~Outranked(n, sample)
         /\ Remember(n, t)
         /\ Go(n, "propose",
               IF pg[n].shape = "primary" THEN "Claimed" ELSE "TookOver", expected)

TickDepose(n) ==
  \E heard \in SUBSET Peers(n) :
    LET lease == agent[n].view.lease
    IN  /\ Observing(n, heard)
        /\ HolderLooksDead(n, heard)
        /\ UnhealthyFor(n, lease.holder) >= LeaderTtl
        /\ Candidacy(n, lease, heard, Watched(n, lease.holder))

(* Vacant: nobody claims on another node's behalf, and several primaries   *)
(* are nobody's business to sort out here.                                 *)
TickVacant(n) ==
  \E heard \in SUBSET Peers(n) :
    /\ Observing(n, heard)
    /\ agent[n].view.known
    /\ ~agent[n].view.paused
    /\ agent[n].view.lease = Vacant
    /\ \/ /\ \E p \in heard : LooksPrimary(p)
          /\ Remember(n, [ReadState(n) EXCEPT !.last_holder = NoNode])
          /\ Sleep(n)
       \/ /\ ~\E p \in heard : LooksPrimary(p)
          /\ Candidacy(n, Vacant, heard, ReadState(n))

-----------------------------------------------------------------------------
(* The compare-and-swap, with whatever happened since the comparison.      *)
Proposal(n) == TakeoverCmd(n, agent[n].dec.lease)

TakeoverWon(n) ==
  /\ agent[n].at = "propose"
  /\ StoreReachable(n)
  /\ TakeoverWins(store, agent[n].dec.lease)
  /\ store.generation < MaxTerm
  /\ store' = ApplyCommand(store, Proposal(n))
  /\ ts' = [ts EXCEPT ![n].last_holder = n]
  /\ tenure' = 0
  /\ Act(n, agent[n].dec.kind, store'.lease)
  /\ UNCHANGED <<late, seen, faults, pgvars>>

TakeoverLost(n) ==
  /\ agent[n].at = "propose"
  /\ StoreReachable(n)
  /\ ~TakeoverWins(store, agent[n].dec.lease)
  /\ \E b \in Backoffs :
       ts' = [ts EXCEPT ![n].last_holder = agent[n].dec.lease.holder,
                        ![n].backoff_until = b]
  /\ Sleep(n)
  /\ UNCHANGED <<store, late, seen, faults, tenure, pgvars>>

(* The proposal fails for its caller; Raft may still commit it later.      *)
TakeoverFails(n) ==
  /\ agent[n].at = "propose"
  /\ \/ ~StoreReachable(n) /\ UNCHANGED <<late, faults>>
     \/ Fault("lostreply") /\ late' = late \cup {Proposal(n)}
  /\ ts' = [ts EXCEPT ![n].last_holder = agent[n].dec.lease.holder]
  /\ Sleep(n)
  /\ UNCHANGED <<store, seen, tenure, pgvars>>

CommitLate(cmd) ==
  /\ \E l \in Node : CanLead(l)
  /\ store.generation < MaxTerm
  /\ store' = ApplyCommand(store, cmd)
  /\ tenure' = IF store'.lease = store.lease THEN tenure ELSE 0
  /\ late' = late \ {cmd}
  /\ UNCHANGED <<agent, ts, seen, faults, pgvars>>

(* Promotion did not take effect within the grace: release (the result is  *)
(* ignored), back off, and demote.                                         *)
ReleaseLease(n) ==
  /\ agent[n].at = "release"
  /\ \/ StoreReachable(n) /\ store' = ApplyCommand(store, ReleaseCmd(agent[n].dec.lease))
     \/ ~StoreReachable(n) /\ UNCHANGED store
  /\ tenure' = IF store'.lease = store.lease THEN tenure ELSE 0
  /\ \E b \in Backoffs : ts' = [ts EXCEPT ![n].backoff_until = b]
  /\ Act(n, "WouldDemote", Vacant)
  /\ UNCHANGED <<late, seen, faults, pgvars>>

Tick(n) ==
  \/ TickRead(n)
  \/ TickStoreUnknown(n)
  \/ TickPaused(n)
  \/ TickHolder(n)
  \/ TickFollower(n)
  \/ TickWatch(n)
  \/ TickDepose(n)
  \/ TickVacant(n)
  \/ TakeoverWon(n)
  \/ TakeoverLost(n)
  \/ TakeoverFails(n)
  \/ ReleaseLease(n)
=============================================================================
