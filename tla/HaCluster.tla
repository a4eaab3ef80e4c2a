----------------------------- MODULE HaCluster -----------------------------
(***************************************************************************)
(* The whole high-availability system: on every host an agent (its HA loop *)
(* and executor, HaLoop and RoleExec) and a PostgreSQL instance, one       *)
(* replicated lease, and the faults the code is written for.  This module  *)
(* adds how an agent starts (agent.rs: the phantom-primary check and the   *)
(* cold-start reconciliation), the operator, the faults, and time.         *)
(***************************************************************************)
EXTENDS RoleExec

CONSTANTS Primary,        \* the bootstrap primary, which holds the first lease
          CloneSync,      \* synchronous_standby_names in the clones' $PGDATA
          RequiredPeers,  \* phantom_check_required_peers
          StartBudget,    \* time units for which a starting agent retries
          MaxFaults,      \* bound: faults in one behaviour
          Prompt          \* TRUE: a step that is due happens before time passes

ASSUME ClusterAssumption ==
  /\ Node \subseteq Nat /\ IsFiniteSet(Node)
  /\ Primary \in Node
  /\ CloneSync \in SUBSET Node
  /\ {RequiredPeers, StartBudget, MaxFaults, MaxTerm, MaxWal} \subseteq Nat
  /\ Prompt \in BOOLEAN

vars == <<havars, pgvars, exvars>>

Awake(at) == [at |-> at, view |-> NoView, dec |-> NoDecision,
              wait |-> LoopWait, age |-> 0]
NeverSeen(n) == [p \in Peers(n) |-> MaxAge]

(* A bootstrapped cluster in steady state: ClusterInit seeded the lease    *)
(* with term 1, the clones stream, and the primary has armed quorum        *)
(* commit, which it did after it was cloned: what the clones' own data     *)
(* directories list is CloneSync, {} as ClusterInit leaves them.           *)
Init ==
  /\ store = ApplyTakeover(EmptyState, Primary, Vacant)
  /\ late = {}
  /\ agent = [n \in Node |-> Awake("sleep")]
  /\ ts = [n \in Node |-> [FreshTickState EXCEPT !.last_holder = Primary]]
  /\ seen = [n \in Node |-> [p \in Peers(n) |-> IF p = Primary THEN 0 ELSE MaxAge]]
  /\ faults = MaxFaults
  /\ tenure = MaxAge
  /\ pg = [n \in Node |->
             [running |-> TRUE, promoting |-> FALSE, deaf |-> FALSE,
              shape |-> IF n = Primary THEN "primary" ELSE "standby",
              upstream |-> IF n = Primary THEN NoNode ELSE Primary,
              tl |-> 1, wal |-> <<>>,
              sync |-> IF n = Primary THEN Peers(n) ELSE CloneSync,
              armed |-> n = Primary \/ CloneSync # {}]]
  /\ cut = {}
  /\ acked = {}
  /\ risked = {}
  /\ exec = [n \in Node |-> [FreshExecutor EXCEPT !.confirmed_upstream =
                               IF n = Primary THEN NoNode ELSE Primary]]
  /\ mandate = [n \in Node |-> IF n = Primary THEN 1 ELSE 0]

-----------------------------------------------------------------------------
(* The phantom-primary check has a role to verify only on a running        *)
(* primary.  A peer on a newer timeline convicts it, running or stopped,   *)
(* and so does one that serves on its own timeline; an instance that gives *)
(* no answer, or too few peers that do, is unverifiable.                   *)
HasRole(n) == pg[n].running /\ (pg[n].deaf \/ pg[n].shape = "primary")

Convicted(n, heard) ==
  /\ Answers(n)
  /\ \E p \in heard : \/ pg[p].tl > pg[n].tl
                      \/ pg[p].tl = pg[n].tl /\ LooksPrimary(p)

Unverifiable(n, heard) ==
  /\ ~Convicted(n, heard)
  /\ pg[n].deaf \/ Cardinality(heard) < RequiredPeers

(* An unverifiable verdict, or a store without quorum, is retried within a *)
(* budget before it counts.                                                *)
RetriesOver(n) == agent[n].age >= StartBudget

(* A verdict against this node stops PostgreSQL; if even that fails, the   *)
(* daemon exits.                                                           *)
StartVerify(n) ==
  \E heard \in SUBSET Peers(n) :
    /\ agent[n].at = "verify"
    /\ heard = Hearable(n)
    /\ IF HasRole(n) /\ Answers(n) THEN RecordPrimaries(n, heard) ELSE UNCHANGED seen
    /\ \/ /\ ~HasRole(n) \/ ~(Convicted(n, heard) \/ Unverifiable(n, heard))
          /\ Go(n, "cold", "none", Vacant)
          /\ UNCHANGED <<pg, faults>>
       \/ /\ HasRole(n)
          /\ Convicted(n, heard) \/ (Unverifiable(n, heard) /\ RetriesOver(n))
          /\ \/ /\ pg' = [pg EXCEPT ![n] = Stopped(@)]
                /\ Go(n, "cold", "none", Vacant)
                /\ UNCHANGED faults
             \/ /\ Fault("stopfail")
                /\ Go(n, "down", "none", Vacant)
                /\ UNCHANGED pg
    /\ UNCHANGED <<store, late, ts, tenure, cut, acked, risked, exvars>>

(* cold_start_reconcile: only an instance that is down is touched; a       *)
(* standby-shaped one starts, a primary-shaped one only if the lease,      *)
(* read within the budget, still names this node.                          *)
ColdStart(n) ==
  /\ agent[n].at = "cold"
  /\ \/ /\ ~pg[n].running
        /\ \/ pg[n].shape = "standby"
           \/ StoreReachable(n) /\ store.lease.holder = n
        /\ Go(n, "start", "none", Vacant)
     \/ /\ \/ pg[n].running
           \/ /\ pg[n].shape = "primary"
              /\ IF StoreReachable(n) THEN store.lease.holder # n ELSE RetriesOver(n)
        /\ Sleep(n)
  /\ UNCHANGED <<store, tenure, late, ts, seen, faults, pgvars, exvars>>

StartPostgres(n) ==
  /\ agent[n].at = "start"
  /\ pg' = [pg EXCEPT ![n].running = TRUE]
  /\ Sleep(n)
  /\ UNCHANGED <<store, tenure, late, ts, seen, faults, cut, acked, risked, exvars>>

(* The agent process is started again: everything it remembered is gone.   *)
AgentStart(n) ==
  /\ ~Up(n)
  /\ Repair("restart")
  /\ agent' = [agent EXCEPT ![n] = Awake("verify")]
  /\ UNCHANGED <<store, tenure, late, ts, seen, pgvars, exvars>>

-----------------------------------------------------------------------------
AgentDown(n) ==
  /\ agent' = [agent EXCEPT ![n] = Awake("down")]
  /\ ts' = [ts EXCEPT ![n] = FreshTickState]
  /\ seen' = [seen EXCEPT ![n] = NeverSeen(n)]
  /\ exec' = [exec EXCEPT ![n] = FreshExecutor]

AgentCrash(n) ==
  /\ Up(n)
  /\ Fault("agent")
  /\ AgentDown(n)
  /\ UNCHANGED <<store, tenure, late, pgvars, mandate>>

HostCrash(n) ==
  /\ Up(n)
  /\ Fault("host")
  /\ AgentDown(n)
  /\ pg' = [pg EXCEPT ![n] = Stopped(@)]
  /\ UNCHANGED <<store, tenure, late, cut, acked, risked, mandate>>

PgCrash(n) ==
  /\ pg[n].running
  /\ Fault("pg")
  /\ pg' = [pg EXCEPT ![n] = Stopped(@)]
  /\ UNCHANGED <<store, tenure, late, agent, ts, seen, cut, acked, risked, exvars>>

(* PostgreSQL runs but refuses the agent's queries, or answers them again. *)
PgDeaf(n) ==
  /\ pg[n].running
  /\ \/ ~pg[n].deaf /\ Fault("deaf")
     \/ pg[n].deaf /\ Repair("hears")
  /\ pg' = [pg EXCEPT ![n].deaf = ~@]
  /\ UNCHANGED <<store, tenure, late, agent, ts, seen, cut, acked, risked, exvars>>

Partition ==
  /\ cut = {}
  /\ Fault("cut")
  /\ cut' \in SUBSET Pairs
  /\ cut' # {}
  /\ UNCHANGED <<store, tenure, late, agent, ts, seen, pg, acked, risked, exvars>>

Heal ==
  /\ cut # {}
  /\ Repair("heal")
  /\ cut' = {}
  /\ UNCHANGED <<store, tenure, late, agent, ts, seen, pg, acked, risked, exvars>>

(* The operator pauses or resumes the cluster.                             *)
SetPaused ==
  /\ IF store.paused THEN Repair("resume") ELSE Fault("pause")
  /\ \E l \in Node : CanLead(l)
  /\ store.generation < MaxTerm
  /\ store' = ApplySetPaused(store, ~store.paused)
  /\ UNCHANGED <<tenure, late, agent, ts, seen, pgvars, exvars>>

Startup(n) == StartVerify(n) \/ ColdStart(n) \/ StartPostgres(n)

-----------------------------------------------------------------------------
(* A starting agent that waits before it asks again.                       *)
Retrying(n) ==
  /\ ~RetriesOver(n)
  /\ \/ agent[n].at = "verify" /\ HasRole(n) /\ Unverifiable(n, Hearable(n))
     \/ /\ agent[n].at = "cold"
        /\ ~pg[n].running /\ pg[n].shape = "primary"
        /\ ~StoreReachable(n)

(* A step the scheduler owes us: an agent mid-tick, or whose sleep is      *)
(* over, or a promotion.                                                   *)
Due(n) ==
  \/ agent[n].at \in {"start", "observe", "propose", "release", "apply"}
  \/ agent[n].at \in {"verify", "cold"} /\ ~Retrying(n)
  \/ agent[n].at = "sleep" /\ agent[n].wait = 0
  \/ agent[n].at = "promote" /\ Answers(n) /\ pg[n].shape = "primary"
  \/ pg[n].promoting

(* The operator rejoins a stopped instance: `cluster recover`, run on a    *)
(* node that is not in recovery, clones it from there and starts it as a   *)
(* standby.  The lease is not consulted.  The clone takes time: what the   *)
(* agent had begun when it was called is over by the time it ends.         *)
Rejoin(n) ==
  \E h \in Hearable(n) :
    /\ Up(n) /\ ~pg[n].running
    /\ agent[n].at # "observe" /\ (Prompt => ~Due(n))
    /\ RunsAsPrimary(h) /\ Answers(h)
    /\ Repair("rejoin")
    /\ pg' = [pg EXCEPT ![n] = [pg[h] EXCEPT !.shape = "standby", !.upstream = h]]
    /\ risked' = risked \cup {log \in acked : /\ Prefix(log, pg[n].wal)
                                             /\ ~Prefix(log, pg[h].wal)}
    /\ UNCHANGED <<store, tenure, late, agent, ts, seen, cut, acked, exvars>>

Elapse ==
  /\ \A n \in Node : agent[n].at # "observe"
  /\ Prompt => \A n \in Node : ~Due(n)
  /\ agent' = [n \in Node |->
       [agent[n] EXCEPT !.wait = IF agent[n].at = "sleep" /\ @ > 0 THEN @ - 1 ELSE @,
                        !.age = IF agent[n].at \in {"promote", "verify", "cold"}
                                THEN Older(@) ELSE @]]
  /\ ts' = [n \in Node |->
       [ts[n] EXCEPT !.holder_unhealthy_since.age = Older(@),
                     !.store_unknown_since = Older(@),
                     !.held_since = Older(@),
                     !.backoff_until = IF @ > 0 THEN @ - 1 ELSE 0]]
  /\ seen' = [n \in Node |-> [p \in Peers(n) |-> Older(seen[n][p])]]
  /\ exec' = [n \in Node |-> [exec[n] EXCEPT !.follow_stalled_since = Older(@)]]
  /\ tenure' = Older(tenure)
  /\ UNCHANGED <<store, late, faults, pgvars, mandate>>

Database(n) ==
  /\ \/ Write(n)
     \/ Acknowledge(n)
     \/ Replicate(n)
     \/ PromotionEnds(n)
  /\ UNCHANGED <<havars, exvars>>

Loop(n) == Tick(n) /\ UNCHANGED exvars

Faults(n) ==
  \/ AgentStart(n)
  \/ AgentCrash(n)
  \/ HostCrash(n)
  \/ PgCrash(n)
  \/ PgDeaf(n)
  \/ Rejoin(n)

Next ==
  \/ \E n \in Node : Loop(n) \/ Apply(n) \/ Startup(n) \/ Database(n) \/ Faults(n)
  \/ \E cmd \in late : CommitLate(cmd) /\ UNCHANGED exvars
  \/ Partition
  \/ Heal
  \/ SetPaused
  \/ Elapse

Spec == Init /\ [][Next]_vars

(* The processes keep running: agents tick and act, a signalled promotion  *)
(* ends, a connected standby keeps receiving, and time passes.  Faults,    *)
(* clients and the operator owe us nothing.  With Prompt one condition is  *)
(* enough: time passes only when nobody is due, and between two units of   *)
(* time an agent ticks once.                                               *)
Progress ==
  \/ \E n \in Node : \/ Loop(n)
                     \/ Apply(n)
                     \/ Startup(n)
                     \/ /\ PromotionEnds(n) \/ Replicate(n)
                        /\ UNCHANGED <<havars, exvars>>
  \/ Elapse

FairSpec == Spec /\ WF_vars(Progress)

-----------------------------------------------------------------------------
Decisions == {"none", "WouldDemote", "RetainedLease", "AwaitingPromotion",
              "Following", "DetachingFromDeposed", "TookOver", "Claimed"}
Stages == {"down", "verify", "cold", "start", "sleep", "observe", "propose",
           "release", "apply", "promote"}
Age == NoClock .. MaxAge
AnyNode == Node \cup {NoNode}

Agent == [at : Stages, wait : 0 .. LoopWait, age : 0 .. MaxAge,
          view : [known : BOOLEAN, lease : AnyLease, paused : BOOLEAN],
          dec : [kind : Decisions, lease : AnyLease]]
TickState == [last_holder : AnyNode,
              holder_unhealthy_since : [holder : AnyNode, age : Age],
              store_unknown_since : Age, backoff_until : 0 .. 2 * LoopWait,
              held_term : Nat, held_since : Age, settled_pos : [Node -> Nat \X Nat]]
Executor == [confirmed_upstream : AnyNode, follow_stalled_since : Age,
             follow_wedged : BOOLEAN]

(* Every variable stays in its type: in particular every clock saturates,  *)
(* and the term is never beyond the generation.                            *)
TypeOK ==
  /\ store \in ClusterState
  /\ store.lease.term <= store.generation
  /\ late \subseteq [op : {"takeover"}, node : Node, lease : AnyLease]
  /\ agent \in [Node -> Agent]
  /\ ts \in [Node -> TickState]
  /\ DOMAIN seen = Node /\ \A n \in Node : seen[n] \in [Peers(n) -> 0 .. MaxAge]
  /\ faults \in 0 .. MaxFaults
  /\ tenure \in 0 .. MaxAge
  /\ pg \in [Node -> Instance]
  /\ cut \subseteq Pairs
  /\ risked \subseteq acked /\ acked \subseteq Seq(Record)
  /\ exec \in [Node -> Executor]
  /\ mandate \in [Node -> 0 .. store.generation]

-----------------------------------------------------------------------------
Dual(n, m) == n # m /\ RunsAsPrimary(n) /\ RunsAsPrimary(m)

(* Terms fence: two instances that run as primaries at the same time were  *)
(* never promoted under the same term, whatever was proposed late, retried *)
(* or promoted after its deadline (`TookOver`, `ensure_primary`).          *)
NoSharedTerm ==
  \A n, m \in Node : Dual(n, m) => mandate[n] # mandate[m]

(* The same, in typed states.                                              *)
TermsFence == TypeOK /\ NoSharedTerm

(* "The ttl is each holder's protection window" (finding 13, TickState): a *)
(* candidate proposes to depose the lease in force only when that lease is *)
(* at least leader_ttl old, whatever its clock saw of a predecessor.       *)
ProtectionWindow ==
  \A n \in Node :
    agent[n].at = "propose" /\ agent[n].dec.lease = store.lease
      /\ store.lease # Vacant => tenure >= LeaderTtl

(* The second opinion (finding 25): when all that is wrong is one broken   *)
(* link between two members, the lease does not move and the primary is    *)
(* not stopped.                                                            *)
BlindLinkHarmless ==
  Cardinality(cut) = 1 /\ MaxFaults = faults + 1
    => store.lease.holder = Primary /\ RunsAsPrimary(Primary)

(* The holder in office: promoted, or confirmed, under the lease in force. *)
InOffice(n) ==
  store.lease.holder = n /\ RunsAsPrimary(n) /\ mandate[n] = store.lease.term

(* "Any takeover the lease permits selects a winner holding all of them"   *)
(* (quorum-commit.md 3): the primary in office has every commit any client *)
(* was ever told about, those a deposed primary acknowledged included.     *)
AckedSurvive ==
  \A n \in Node : InOffice(n) => \A log \in acked : Prefix(log, pg[n].wal)

OnTwo(log) == Cardinality({n \in Node : Prefix(log, pg[n].wal)}) >= 2

(* "Every acknowledged commit is flushed on at least two nodes"            *)
(* (quorum-commit.md 3), as far as the code keeps it: every commit that    *)
(* was acknowledged on a directory where quorum commit had been armed is   *)
(* on two nodes for good, whoever detaches, stops, dies or is promoted,    *)
(* because no later tick disarms (`ensure_quorum_commit`).  A commit       *)
(* acknowledged before that, by a clone that was promoted and that no      *)
(* standby has attached to yet (roleexec.rs:488), is not counted, nor one  *)
(* whose copy `cluster recover` replaced by a clone that lacks it.         *)
DurableTwice == \A log \in acked \ risked : OnTwo(log)

(* The documented claim itself, with neither exception.  It is false of a  *)
(* bootstrapped site: the first node promoted there acknowledges alone.    *)
AckedOnTwo == \A log \in acked : OnTwo(log)

(* Finding 15's wedge, "structurally unreachable since candidacy went      *)
(* strict flush-max" (SPEC 5.15): no standby that answers its agent is     *)
(* left past the point where the primary in office forked.                 *)
NoForkPast ==
  \A n, s \in Node :
    InOffice(n) /\ Answers(s) /\ pg[s].shape = "standby"
      => Prefix(pg[s].wal, pg[n].wal)

(* "An unknown never reads as a rival" (PeerObservation): the startup      *)
(* check stops a primary that answers only on evidence, that is, a peer    *)
(* ahead of it or really serving, or too few peers to ask.                 *)
UnknownIsNotRival ==
  [][\A n \in Node :
       agent[n].at = "verify" /\ agent'[n].at = "cold"
         /\ Answers(n) /\ ~pg'[n].running
         => \/ \E p \in Peers(n) : RunsAsPrimary(p) \/ pg[p].tl > pg[n].tl
            \/ Cardinality(Hearable(n)) < RequiredPeers]_vars

-----------------------------------------------------------------------------
Serving(n) ==
  /\ Up(n) /\ StoreReachable(n)
  /\ Answers(n) /\ RunsAsPrimary(n)
  /\ store.lease.holder = n

(* Failover completes: once the faults are over, and as long as a majority *)
(* is connected, a node that holds the lease serves as primary and stays.  *)
FailoverCompletes ==
  <>[]((\E l \in Node : CanLead(l)) => \E n \in Node : Serving(n))

(* An isolated primary stops: "a holder that cannot confirm its lease      *)
(* within retry_timeout decides to demote" (SPEC 5.15).                    *)
IsolatedHolderStops ==
  []<>(\A n \in Node : ~(Up(n) /\ RunsAsPrimary(n) /\ ~StoreReachable(n)))

(* Two primaries whose agents live are not left that way: whatever made    *)
(* them both serve, one of them stops (`fence`, roleexec.rs).              *)
DualPrimaryEnds ==
  []<>(\A n, m \in Node : ~(Dual(n, m) /\ Up(n) /\ Up(m)))
=============================================================================
