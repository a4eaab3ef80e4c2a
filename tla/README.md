# pg_agent in TLA+

pg_agent keeps a small pool of PostgreSQL hosts highly available. One daemon
per host (`pg_agentd`) takes part in a Raft group that replicates a single
*lease*; whoever holds the lease is entitled to run PostgreSQL as primary.
Everything the daemon does to PostgreSQL (promote, stop, follow) follows from
what it reads of that lease and from what it sees of its peers.

This directory models that core: the lease and the store in front of it, the
decision loop, the executor, the start of an agent, and the faults they were
written for. Around it stand the parts the core rests on (the durable Raft
store, the channels between agents, the daemon under systemd), the planned
operations of an operator (handoff, recovery, bringing a site up), and the ways
WAL and replication slots are kept. All is checked with TLC on small instances.
What carries the most weight is also proved with TLAPS, for every pool, every
accepted timing and any number of calls, entries and faults: the lease and its
store, the fencing of terms, the durable Raft store, the slots, the planned
handoff, the WAL restore and the daemon's end.

## Inventory

`P` is `crates/pg-agent-core/src`, `M` is `crates/pgman/src`.

| Component | State | Operations | Interacts with | What is hard | What makes it correct |
|---|---|---|---|---|---|
| Lease state machine (`P/consensus.rs`, `P/raftstore.rs`) | `ClusterState`: lease, pause, switchover, generation | takeover (CAS), release, set_paused, set_switchover | applied by Raft on every node | repeated and late commands | terms are unique and grow; a stale holder changes nothing |
| Store client (`P/raftconsensus.rs`, `P/raftnet.rs`) | none of its own; one outstanding call | propose: local write, then forward to the leader | the loop, `cluster init`, `cluster pause` | an error does not mean the write is dead | one successor per lease; `Won` is true |
| Raft storage (`P/raftstore.rs`) | log, vote, applied state, snapshot in redb | append, truncate, purge, apply, install_snapshot | openraft | crash between two writes | what is acknowledged survives a crash |
| HA loop (`P/ha.rs`) | `TickState`: clocks, back-off, last holder, position samples | one decision per `loop_wait` | store, local PostgreSQL, peers' `GetStatus`, executor | state read before an await and used after it; clocks that outlive what they measured | one primary per term; failover completes; no acknowledged commit is lost |
| Status fan-out (`P/cluster_view.rs`, `Agent::get_status`) | `PeerSeen`: when each peer was last seen serving | collect_statuses | every peer | unknown, down and unreachable look alike | one silent peer costs its own evidence only |
| Executor (`P/roleexec.rs`) | confirmed upstream, stall clock, wedge flag | promote, fence, follow, detach, arm quorum commit | `M/instance.rs`, peers (slots), journal, pgpool | a promotion that outlives its deadline; a stop that fails | convergence: every failure is retried by a later tick |
| Instance (`M/instance.rs`, `M/localdb.rs`, `M/pgstandby.rs`) | PostgreSQL itself | state, promote_and_wait, ensure_stopped, follow, rebuild, stop_receiving | PostgreSQL, systemd | asynchronous promotion | |
| Agent start (`P/agent.rs`) | none survives | phantom-primary check, cold-start reconcile | peers, store, systemd | everything remembered is gone; peers restart too | a stale primary is stopped, a healthy one is not |
| Operator commands (`P/localserver.rs`) | | init, recover, pause, allow-async, handoff, ops | store, peers, journal | a command races a failover | |
| In-flight journal (`P/inflight_ops.rs`) | one file per operation | begin (single flight, exclusive), update, complete, abandon, discharge, sweep | recover, handoff, promote, hooks | left in progress by a crash; check then act | a node under recovery keeps its slot |
| Maintenance queue (`P/maintenance.rs`) | one file per intent | append, sweep, mark, abandon, reschedule | peers' slots | a late drop hits a slot that is in use again | a slot in use is never dropped; the budget ends |
| pgpool hooks (`crates/pg-agentc`, `P/localserver.rs`, `P/replay_markers.rs`) | replay markers | failover (advisory), follow_primary, recovery stages | journal, peers | duplicate and reordered hooks | at most once per event |
| Handoff (`P/localserver.rs`) | phase in the journal | run, resume, abandon, fan-out | peers, data directories | a crash between a step and its journal entry | a primary at every moment, the deposed one stays down, resumable |
| Peer channels (`P/peers.rs`, `P/raftnet.rs`, `P/certreload.rs`) | cached channels, one mutex, the certificate bundle | dial, poison, age out, invalidate, reload | every caller of a peer | black holes, a mutex held across a dial, two files that are one pair | calls end, caches recover, a new certificate gets through |
| Daemon (`crates/pg-agentd`, `Agent::serve`, `P/healthz.rs`, `P/pgpool_supervisor.rs`) | subsystems, token, snapshot, failure count | start-up stages, READY, drain, probe, restart of pgpool | systemd, pgpool | signals, ends and time-outs in any order | an orderly stop is no failure and ends in time; 200 means healthy now |
| WAL restore (`P/localserver.rs`, `M/walstore.rs`, `M/timeline.rs`) | temporary files, peer cooldown | restore_wal, screen, write_restore, fetch_wal | PostgreSQL's restore_command, peers | clients left behind, files of a dead branch | whole files, no fatal history, recovery goes on |
| Site bring-up (`P/localserver.rs`, `P/config.rs`, `P/preflight.rs`, `crates/pg-agentctl`) | the lease, the data directories, the role | validate-env, cluster init, status, start-primary | systemd, store, peers | a site with no lease, no membership or several claims | one leader, on the newest data anybody could see |
| pgpool configuration, pcp, the rest of the CLI | | | | text and I/O | |

`PROJECT.json` lists each part with its status, every hazard at its line, and
the correspondence between definitions and source lines.

## Modules

| Module | Models |
|---|---|
| `Lease` | `ClusterState` and `apply_command`, as operators |
| `AbstractLease` | what a lease promises: a grant has a fresh, larger term; only a held lease is vacated |
| `LeaseStore` | callers of `RaftConsensusStore` in front of `Lease`: `propose`, the Raft log, forwarding |
| `LeaseStoreProofs` | theorems about `LeaseStore` |
| `Postgres` | PostgreSQL and the network, as the code uses them (external) |
| `HaLoop` | `tick_once`, `consider_candidacy`, the status fan-out |
| `RoleExec` | `RoleExecutor::apply` and the instance operations under it |
| `HaCluster` | the composition: start of an agent, operator, faults, time; all system properties |
| `HaClusterProofs` | theorems about `HaCluster`: terms, durability, the ttl, the second opinion |
| `InflightOps` | the journal of a daemon and its ownership query, for recoveries |
| `Maintenance` | the queue of failed slot drops and its worker |
| `SlotOwnership` | one primary's slots: `cluster recover`, the failover hook, the peer's drop request, standbys, operators, crashes; the properties of all three |
| `SlotOwnershipProofs` | theorems about `SlotOwnership` |
| `RaftStorage` | the redb file of one node: votes, log, purge, state machine, snapshots, with deaths between any two writes |
| `RaftStorageProofs` | theorems about `RaftStorage` |
| `PeerChannels` | an agent's outbound channels, the mutex of the pool, the status fan-out's budget, certificate rotation |
| `PeerChannelsProofs` | theorem about `PeerChannels` |
| `StandbyOps` | what agents do to a data directory: clear, copy, rewind, configure, start |
| `Handoff` | cluster_handoff's ladder, its fan-out, follow_primary, allow_async, resume, abandon; its properties |
| `HandoffProofs` | theorems about `Handoff` |
| `Daemon` | one agent under systemd: start-up, subsystems, drain, /healthz, pgpool supervisor |
| `DaemonProofs` | theorems about `Daemon` |
| `WalRestore` | restore_command: the order of peers, screening of history files, writing the file |
| `WalRestoreProofs` | theorems about `WalRestore` |
| `Config`, `Preflight` | reading config.toml and validate-env, as operators |
| `SiteBringup` | a site from nothing or from a full stop: the gate, membership, init, start-primary, status, the loop in one step |
| `MC...` | instances for TLC |

`HaCluster` extends `RoleExec`, which extends `HaLoop`, `Postgres` and `Lease`.
`LeaseStore` and `HaLoop` share `Lease`: the store's callers see a proposal
answered, refused, failed, or failed and committed later, and that is what
`TakeoverWon`, `TakeoverLost`, `TakeoverFails` and `CommitLate` say.

`SlotOwnership` extends `Maintenance`, which extends `InflightOps`. It is a
second view of the pool, of one primary that stays in office; it shares no
state with `HaCluster`, where a recovery is one step. `Handoff` extends
`StandbyOps`; `SiteBringup` extends `Preflight`, which extends `Config`, and
shares `Lease` with the store, as `RaftStorage` does. `RaftStorage`,
`PeerChannels` and `Daemon` look at one agent each, below what the other modules
take for granted: a committed document that survives, a peer that is heard, a
loop that runs.

Definitions marked "mutant" are wrong on purpose. Each is one plausible bug
that some property must notice; nothing else uses them.

### How state and actions correspond to the code

*A tick is several steps.* `TickRead` is the linearizable read. The `Tick...`
actions observe (`observe_local`, `observe_peers`) and decide; one action per
branch of `tick_once`. `Takeover...` and `ReleaseLease` are the writes of
`consider_candidacy` and of the expired promotion grace. The executor's arm is
one more action. Agents interleave between any two of them; the
observation itself is one step, because the status fan-out of a tick is shorter
than the time unit.

*Clocks are ages.* An `Instant` is how long ago it was, saturating at
`LeaderTtl + 1`, beyond which no comparison differs. `Elapse` ages them all.
`loop_wait`, `retry_timeout` and `leader_ttl` keep the relation
`RaftConfig::validate` enforces. A value of 0 stands for "less than one unit".

*A log is a sequence of records* named by timeline and writer, so histories are
equal, prefixes or forks. A client is told of a commit (`Acknowledge`) when a
listed synchronous standby has flushed it, or at once when none is listed.

*A deaf PostgreSQL* runs and serves but does not answer its agent. `get_status`
then reports "not in recovery" and no position, which is what `LooksPrimary`
and `Pos` say.

*openraft is external.* A node can use the store when it reaches a live node
that reaches a majority (`StoreReachable`). In `LeaseStore`, entries are
appended, commit in order, or are lost; forwarded requests may arrive after
their caller gave up.

*Rejoin* is `cluster recover` as one step, on a stopped target (the opt-in flag
that stops a running one is left out). It ends between two ticks of its node's
agent: a clone takes longer than the fan-out of a tick, and an agent that read
its own lease before a whole takeover and clone would promote the fresh copy.

*`CloneSync`* is `synchronous_standby_names` in the standbys' data directories.
It lies in `postgresql.auto.conf`, which a base backup copies: `{}` in every run,
because `cluster init` clones before the primary arms quorum commit. The field
`armed` says that a directory has been armed with a standby attached; a clone has
what its source had (`EnsureQuorumCommit`, `Rejoin`). `risked` collects the commits
acknowledged without it, and those of which a `Rejoin` has overwritten a copy by a
directory that lacks them.

*A recovery is a task per journal entry* (`RecoverBegin` to `RecoverStart`, and
on a failure `RecoverCleanup` and `RecoverAbandon`); each remote call is a step.
The hook, the peer's request and the worker are steps too: consult, then drop,
then mark. `cluster recover`'s check that the database answers precedes
`RecoverBegin` by several calls, so it is not a guard of it. Whether an entry is
within `CROSS_OP_GRACE` is one bit that time clears. Times of retry are one bit
as well (`due`). A drop and the queueing of its failure are one step. Journal,
queue and markers survive `Crash`; tasks, handlers and the sweep do not. An
unreadable journal, a failing queue file and the pgpool-driven variant of the
recovery, with its dedup, are left out.

*A ladder is a sequence of steps* (`Ladder`). A driver applies a step, then
journals the phase, so `DaemonCrash` may fall between; a failed or half-done step
is a fault. The last phase (ATTACHED) and the completion of the entry are two
writes, hence the step "complete" at the end of two ladders. `FanOut` begins one
follow per step, beside the tasks it has already spawned. At the first phase
`VerifyHandoffState` asks the target only, as the code does. Handoffs are planned work on a paused cluster, and the model has no loop
in it. With `Overlap = FALSE` work is started one at a time; the code has no such
guard across hosts.

*The redb file is a record* and every transaction one step. openraft decides
which call is made; its contract is in the guards marked so. The log the cluster
agrees on is given (`chosen`).

*Channels* are none, live, half (the peer is gone and nobody told us) or broken.
Time, in `PeerChannels` and `Daemon`, passes only when nothing is due; time-outs
that need not be ordered fall at any moment.

*A restored file is two blocks* in `WalRestore`, each naming the file it was
written for, with a bit for `sync_all`. A call writes its temporary file block by
block, syncs it and renames it; each of these may fail, the attempt may be dropped
at any of them by `RESTORE_WAL_PER_PEER_TIMEOUT`, and a rename that was handed to
the file system then still happens (`late`). A crash of the host turns what was
not synced into zeros and may undo a rename. The name of a temporary file is
random, so nobody meets one that was left behind. The rival's `archive_command` is
the plain `cp` of BOOTSTRAP.md:193: a segment has its name before its content, and
`fetch_wal` ends the stream where the file ends for now (`CopyEndsShort`).

*A host's configuration* in `SiteBringup` is a sound one with one defect.
`Verdict` applies `LoadConfig` and `ValidateEnv` to it once; the operator corrects
what validate-env has named. `EnsureMembership` runs once in a daemon's life, at
its start. The loop is one step there, without clocks.

*A data directory's history* in `SiteBringup` is the sequence of its promotions,
each with a name of its own. The code sees its length, the timeline, so two forks
may report the same number. `overlooked` collects, for each directory, the
promotions of the directories it was not compared with when the lease was taken
or PostgreSQL was started for it: not heard, heard with PostgreSQL stopped (the
loop compares running databases only) or overruled by `--force`. A copy and a
standby that follows inherit it.

History variables (`sponsor`, `overlooked`, `forced`, `risked`, `blind`, `lag`, `cause`, `early`,
`behind`, `granted`, `answered`, `grants`, `mandate`, `acked`, `tenure`, `window` and
the fields `operator`, `yielded`, `saw`, `armed`, `short`) are read by
properties only.

## Runs

| Run | Instance | Shows |
|---|---|---|
| `LeaseStore` | 2 nodes, 3 calls, symmetry | `TermsUnique`, `OneSuccessor`, `LatestInForce`, `WonIsTrue`, `NoClobber`, refinement of `AbstractLease` |
| `HaFailover` | 3 nodes, one fault of any of six kinds, then any repairs (restart, healed partition, answering again, resume); quorum commit not yet armed on the standbys | terms fence (`TermsFence`), failover completes, an isolated holder stops, two primaries do not last, one broken link moves nothing |
| `HaAcked` | 3 nodes as `cluster init` leaves them, one record per behaviour, one crash, deaf PostgreSQL or partition of any shape, stopped nodes rejoining | acknowledged commits survive, those under quorum commit on two nodes, no standby past the fork |
| `HaRepeated` | two faults: crashes, lost replies, missed statuses, failed reads, failed stops | protection window, failover completes |
| `Slots` | one standby, two recoveries, two intents, two of eleven kinds of faults and rare events | from its creation until its standby attaches, a recovery's slot is not taken away by the hook, a peer or the queue; an orphan was yielded to an owner; queued drops end |
| `Handoff` | 3 nodes, two operations, three faults of five kinds | a primary at every moment, the deposed one stays down, Done means following, no running directory is wiped, resumable except in named windows |
| `RaftStorage` | 3 entries, 2 terms, batches of 2, one death | votes once, the file can be started from, the document is the replay of the log, answers are readable, snapshots cover the purge |
| `PeerChannels` | 2 peers, one black hole or restart, one rotation | calls end, both caches recover, a new certificate reaches the peers, a reachable peer goes unheard only behind another's dial |
| `Daemon` | 2 subsystems, three faults | failures have causes, serving agents stop in time, 200 is recent, pgpool is restarted |
| `WalRestore` | 2 peers, 2 timelines of 2 segments, 2 calls, 2 faults (failed reads, writes and renames, time-outs, stops, deaths of agent and host) | only complete and synced files are put in place, fatal history only in a named window, the standby catches up |
| `SiteBringup` | 3 nodes, fresh or stopped in any shape, one defective host, one fault, one rebuilt node, two start-primary commands | ids distinct, standbys stream, no unasked primary, a leader forked only from what it was not compared with, a status footer that agrees, the site comes up, forks end |
| `FreshBootstrap` | a fresh site without the replication role | violated: see below |

Invariants are conjunctions of named parts: `RoleHandedOver` (handoff: a primary
at every moment, the deposed one down), `Recoverable` (with
`SnapshotCoversPurge`), `EndsWell` (`FailureHasCause`, `KilledOnlyBeforeReady`),
`GateHolds` (`IdsDistinct`, `StandbysStream`, `Sponsored`), and `ChannelsRecover`
(`CallsEnd`, `PoolRecovers`, `ConsensusRecovers`). Each module's `TypeOK` is part
of one of them, except in `LeaseStore`, where it stands alone. TLC also
evaluates `GateAssumption`: of nine further defects of a host validate-env lets
none through, and a sound host passes whether its database is up or not.

`FreshBootstrap` states what BOOTSTRAP.md says, that ClusterInit creates the
replication role. validate-env, which systemd runs before the daemon, calls its
absence an error as soon as the local database answers, so the daemon that would
run ClusterInit is refused on the very node it must run on. The finding in
`PROJECT.json` quotes both.

### Disagreements without a run of their own

Each was met while modelling; where a property in brackets is named, it is
written in the module and TLC finds it violated, with the constants given or
else with those of the module's run.

The lease and the loop:

- A winner whose promotion outlasts `leader_ttl` releases and fences itself
  (`ha.rs:385`), and a standby that lacks an acknowledged commit wins;
  quorum-commit.md:85 says any permitted winner holds them all (`AckedSurvive`,
  with `LoopWait = 0`, `RetryTimeout = 0`, `LeaderTtl = 1`, `MaxWal = 1`,
  `FaultKinds = {"agent"}`, `Prompt = FALSE`).
- `last_holder` does not survive a restart, so an agent restarted in a minority
  never demotes its primary (`ha.rs:337`, SPEC.md:701; `IsolatedHolderStops`,
  two faults of `{"agent", "restart", "cut"}`).
- A failed recovery probe reads as "not in recovery" (`agent.rs:1094`): a standby
  that does not answer its agent makes a restarting primary stop itself,
  although agent.rs:698 says "an unknown never reads as a rival"
  (`UnknownIsNotRival`, two faults of `{"agent", "restart", "deaf"}`).
- A rival re-follows a returning holder between the candidate's comparison and
  its takeover (`ha.rs:750`) and ends past the fork; SPEC.md:757 calls that
  structurally unreachable (`NoForkPast`, timing as in `HaRepeated`,
  `MaxWal = 1`, `FaultKinds = {"agent", "restart"}`).
- The standbys of `cluster init` are cloned before quorum commit is armed, so the
  first of them to be promoted lists nobody and acknowledges alone until a standby
  attaches (`roleexec.rs:488`). quorum-commit.md:38 says "every *acknowledged*
  write exists on ≥ 2 of 3 nodes", and its invariant (:84-86) "every acknowledged
  commit is flushed on at least two nodes" (`AckedOnTwo`: the host of node 1
  dies, node 2 is promoted and acknowledges). `DurableTwice` is what is left: it
  holds of everything acknowledged on a directory that was armed.
- `propose` repeats a command after any local error (`raftconsensus.rs:99`), so a
  call whose local copy was granted can be answered `Lost`; a takeover proposed
  before a pause is applied after it (`ha.rs:750`); a paused holder that loses quorum is fenced (`ha.rs:338`,
  SPEC.md:764); an unreadable store leaves the unhealthy clock running
  (`ha.rs:327`, SPEC.md:702).

Slots:

- A failed recovery queues the drop of its slot before it abandons its entry; a
  sweep in between finds the recovery itself as owner and forgets the drop
  (`maintenance.rs:533`, `localserver.rs:909`; `NoSilentOrphan`).
- The consult and the drop are several awaits apart on all three paths, so a
  recovery that begins in between loses its slot (`peerserver.rs:554`;
  `WindowProtected` excuses exactly this); a failover's marker suppresses the hook
  of the next outage for a day (`localdb.rs:236`); the queue cannot reclaim a slot
  after the grace if it met a completed owner before (`localserver.rs:178`); an
  operator's abandon runs no clean-up (`inflight_ops.rs:1255`).

Handoff:

- A crash after a promote, stop or start and before the journal entry leaves an
  operation that `ops resume` refuses (`ResumePicksUp`); `StuckOnlyInWindow` lists
  the windows.
- "handoff complete: local demoted to standby" is said without asking whether
  the standby can stream; one with WAL past the fork, kept by a rewind that said
  nothing was required, cannot (`CompletedStreams`).
- The latest entry of a key decides: after A to B and B to A, a second handoff
  from A to B is answered ok and skipped (`localserver.rs:1582`).
- Neither moves the lease nor requires the pause; resume does not fan out; a
  journal knows its own host, so two hosts can work on the same nodes
  (`Overlap = TRUE`: none of the properties but the types holds).

Channels: the mutex of the pool is held across a dial of five seconds
(`peers.rs:314`), as long as the whole budget of a fan-out, so one unreachable
peer can hide a reachable one, against cluster_view.rs ("One slow peer must
degrade exactly one peer's evidence"; `OneSlowPeer`). Aborted calls never poison
a half-open channel, and the channels of the consensus plane have no age.
`load_bundle` does not compare certificate and key.

Daemon: the start-up beat waits for pgpool's start job before READY
(`agent.rs:541`), while the unit is `Type=notify` and ordered before pgpool, so
systemd holds that job until it times the agent out; agent.rs says "a clean boot
converges in milliseconds" (`CleanBoot`). SIGTERM is not looked at before READY.
A refused primary does not lead to a 503 by itself (`agent.rs:464`).

WAL: timeline.rs says "a `Yes` here means PostgreSQL will accept the file";
`reachable` compares the checkpoint only, PostgreSQL the minimum recovery point
too (`YesMeansAccepted`). The archive itself is not written as `write_restore`
writes: of a segment that `cp` is still copying (BOOTSTRAP.md:193) a peer serves
the first part, and the restoring side puts it in place as if it were whole
(`WholeOrNothing` names this exception). A per-peer time-out leaves its temporary file behind,
and a failed dial sets no cooldown.

Bring-up:

- localserver.rs:2421 says of a failed claim that "the HA loop will claim it once
  consensus recovers", and ha.rs:471 that "the primary claims for itself". It does
  not while a standby streams from it: a vacant lease with a peer that still
  receives makes the primary's own loop stand down (`ha.rs:606`), tick after tick
  (`LoopClaims`, under `LoopSpec`, where nobody repeats the command). Nor does it
  after `--force` on a node behind a running standby, which outranks it;
  `SiteComesUp` excuses the forced case, and in the others rests on an operator
  who runs start-primary again.
- The loop compares positions of running databases only. A node that answers with
  its PostgreSQL stopped is heard and ignored, also when its directory is on a
  higher timeline than the one that takes the lease (`ha.rs:697`); and a holder
  whose directory was rebuilt is promoted again without any comparison.
  `ForkedOnlyUncompared` states that these, an unheard node and `--force` are the
  only ways to a forked leader, and that a fork with an equal timeline number is
  what one of them has left.
- `cluster init` looks at no lease: on a stray primary it rebuilds every other
  node, the holder included (`localserver.rs:1129`). Its comment (1145) says that
  forming the membership at start would race; `ensure_membership` does so.
- A start that outlasts a tick is stopped by the node's own loop (`ha.rs:396`);
  start-primary may lose the lease to its own loop and name itself as the rival;
  two claims that fail leave two primaries.
- With nothing running the footer marks a node by its timeline alone: it may be a
  standby-shaped one, or one that another node's lease bars, and start-primary
  refuses both (`agentctl main.rs:901`, `localserver.rs:2264`). A leftover `[raft] enabled` key
  is a refusal in SPEC and a warning in the code (`preflight.rs:1029`); a copied
  `node_id` passes where no pgpool file contradicts it (an absent file is a
  warning, `preflight.rs:249`): `IdsDistinct` is checked with copied ids that a file
  contradicts and with absent files, not with both at once, where two daemons
  would share an id. `GateAssumption` states that the gate lets this host through.

### Bounds

Three nodes are the smallest pool with a majority that survives a fault, with
a witness for the second opinion and with two candidates to compare; it is also
the deployment the documentation describes. `LoopWait = 1`, `RetryTimeout = 1`,
`LeaderTtl = 3` is the tightest timing `validate` accepts with whole units;
`HaAcked`, with `RetryTimeout = 0`, makes that part shorter than a unit. One or two faults per behaviour, at every moment and of every listed
kind; repairs are free. One record, flushed by one standby and not the other,
is enough to be acknowledged and lost, or to put a standby past a fork. `MaxTerm = 4` allows three changes of the document after the
seed; no liveness run is cut off by it (a proposal that could not commit would
leave the cluster without a serving holder, which `FailoverCompletes` would
report). Two callers and three calls of `LeaseStore` give a holder, its
successor and a stale call of each, every one possibly in the log twice.
The theorems below remove these bounds for what they state.

For slots, a second recovery is needed to meet what a first one left, two
intents to meet each other in one sweep, `MaxAttempts = 2` to have a retry and an
end of the budget, and two faults to have a drop fail inside a failed recovery.
Nothing relates the slots of two standbys except the order within a sweep, so
there is one.

For `Handoff`, two operations let one meet what another left, and three faults a
crash, a failed copy and an operator. One death suffices for `RaftStorage`
because a start leaves a file that is again one of its states; three entries give
a batch, a truncation and a purge. One fault in `PeerChannels` can hit either
peer, and half a connect timeout as the unit orders the only two durations that
compete. The durations of `Daemon` keep the code's order (`Grace < StopLimit`;
the stages before READY may exceed `StartLimit`). Two segments let a fork lie
before, at and after a checkpoint and a minimum recovery point; two calls are
PostgreSQL's own and one left behind. In `SiteBringup`
the flawed host may be the future primary or another one; one fault is a crash,
a slow start or a failing claim; two commands let start-primary run twice; one
rebuilt directory lets a copy carry a fork on. `ForkedOnlyUncompared` also passes
with three terms, two faults, two rebuilds and sound hosts (2.0 million states),
and the properties of `Handoff` with four nodes, so that a fan-out has two members,
and one operation (0.4 million states with symmetry).

Deadlock is checked in the runs of `HaCluster`. The others may come to rest: the
calls run out, a pool at rest has nothing to do, an agent was stopped.

No run has both healing partitions and rejoining nodes: `HaAcked` with `"heal"`
added to its fault kinds also passes, with 2.4 million states and five and a half
minutes.

### Fairness

`FairSpec` adds one condition, weak fairness of `Progress`: agents keep
ticking and acting, a signalled promotion ends, a connected standby receives,
time passes. `HaLoop::run` is an unconditional loop of sleep, tick and apply and
every await in it has a time-out, which is what justifies it. No fault, no repair, no client, no
operator and no late commit is assumed to happen. With `Prompt`, time passes
only when nobody has a step due: a tick takes less than a unit. That is the
design's own assumption (time-outs below `loop_wait`); `Prompt = FALSE` drops it.

For slots, `FairSpec` says that tasks and handlers end, since every call in them
has a deadline; that the worker sweeps and back-offs pass (`run` is a loop with a
sleep); that pgpool acts on a failure it reported; that the connection to
PostgreSQL comes back; that a running standby attaches. Nobody repairs a host,
starts a recovery or retries by hand.

The other modules with liveness: in `PeerChannels` callers take their steps, the
fan-out and Raft keep calling, keep-alives fire, a
channel that exists long enough ages out, and whoever writes a certificate also
writes its key; links need not come back. In `Daemon` the process and systemd run;
nobody is owed a start after an orderly end. In `WalRestore` PostgreSQL repeats a
restore, calls end (each has a time-out) and cooldowns pass; peers need not
answer. In `SiteBringup` daemons run, and the operator of a site that is down
keeps trying: corrects what is named, runs init on a fresh site, start-primary
without `--force` on a stopped one (strong fairness, because other steps disable
and enable the commands).

## Proofs

Every theorem is about the `Spec` the runs check, with the constants left open.
The assumptions are the named `ASSUME`s of the modules, which TLC evaluates in
every run; they type the constants and say little else:

| Assumption | Beyond types |
|---|---|
| `NoNodeAssumption` (`Lease`) | the value for "no node" is no node |
| `StoreAssumption` (`LeaseStore`) | |
| `StorageAssumption` (`RaftStorage`) | the log carries the commands `apply_command` knows |
| `TimingAssumption` (`HaLoop`) | `LeaderTtl >= LoopWait + 2 * RetryTimeout`, as `RaftConfig::validate` requires; only `BlindLinkIsHarmless` uses it (a sight at most a `loop_wait` old is within the ttl) |
| `ClusterAssumption` (`HaCluster`) | the pool is finite, the first primary is a member |
| `SlotAssumption` (`SlotOwnership`) | at least one attempt per intent |
| `HandoffAssumption` (`Handoff`) | the pool is finite, the first primary is a member |
| `WalAssumption` (`WalRestore`) | two peers, both listed in the order in which they are asked |
| `ChannelAssumption` (`PeerChannels`) | the peers are finitely many and none has a name the model uses itself; budget and dial time-out are positive |
| `DaemonAssumption` (`Daemon`) | `Grace < StopLimit`, as the unit file and the drain deadline have it |

| Module | Theorem | States |
|---|---|---|
| `LeaseStoreProofs` | `TypeCorrect`, `Fencing`, `SingleSuccessor`, `LatestWins`, `WonSound` | the invariants of the run `LeaseStore` |
| | `ReleaseIsOwn` | the action property `NoClobber` |
| | `Refinement` | every behaviour of the store is one of `AbstractLease` |
| `RaftStorageProofs` | `TypeCorrect` | `TypeOK` |
| | `NoDoubleVote` | `VotesOnce` |
| | `AlwaysRecoverable` | `Recoverable` |
| | `DocumentIsReplay` | `AppliedIsReplay` |
| `HaClusterProofs` | `TermsAlwaysFence` | `TermsFence` |
| | `AcksStayDurable` | `DurableTwice`, in pools of two or more |
| | `TtlProtects` | `ProtectionWindow`, while no clock outlives a tenure |
| | `BlindLinkIsHarmless` | `BlindLinkHarmless`, in pools of three or more with prompt steps |
| `SlotOwnershipProofs` | `SlotsAreNotForgotten` | `OrphanWasYielded` |
| | `WindowIsProtected` | the action property `WindowProtected` |
| `HandoffProofs` | `HandoffKeepsARole` | `RoleHandedOver` |
| | `ResumeRefusedOnlyInWindow` | `StuckOnlyInWindow` |
| | `NoWipeUnderAnInstance` | the action property `WipeOnlyStopped` |
| | `DoneFollows` | the action property `CompletedFollows` |
| `WalRestoreProofs` | `DestinationIsWhole` | `WholeOrNothing` |
| | `ScreeningIsSound` | `FatalOnlyInWindow` |
| `PeerChannelsProofs` | `OnlyADialHides` | `BlindOnlyBehindDial` |
| `DaemonProofs` | `SigtermEndsWell` | `EndsWell` |
| | `HealthIsNeverStale` | `HealthyIsRecent` |

None of the invariants is inductive as it stands. Each module defines an `IInv`,
proves that `Init` implies it and that `[Next]_vars` keeps it (one step per
action, one lemma per group of conjuncts), and derives the property. What each
`IInv` adds, and why:

*Store.* Every granted term is at most the generation (`TermsBelow`), so that the
next one, minted from the incremented generation, is new. A grant's term is larger
than the one it deposed (`ExpectedOlder`), so that a deposed lease is never again
in force and a second copy of the takeover must lose. A command in flight speaks
for its issuer (`CommandsOwn`), so that a release names its own holder.
`ApplyTyped` and `ApplyLease` say what `apply_command` does to a document;
`CommitCases` lifts them to `Commit`, the only action that changes the lease.

*Terms of the cluster.* `TermsFence` relates the terms two primaries were promoted
under, but a promotion acts on a decision, the decision on a view, and the view
on a lease that was read long before. `TermInv` therefore collects every lease
anybody may still act on (`InPlay`: the document's, those in views and in
decisions, the one each instance was last promoted under) and says that a term
names at most one of them and that none is above the generation. `DecisionInv`
says that a decision to act for the holder was taken on a lease of that node's
own, `PromotedInv` that nothing is or becomes a primary without a term. No timing
is used: fencing does not depend on any clock.

*Durability.* A log that is on two nodes loses a copy only when a data directory
is overwritten, because PostgreSQL's log otherwise only grows (`LogsKept`), and on
an armed directory it is acknowledged only when a listed standby has it.
`DurableInv` therefore adds `Armed`: an armed directory carries a list of standbys
that is not empty, also after promotions, detachments and copies. The only
hypothesis is that the primary is not alone in its pool. The bootstrap's clones may
list nobody; what they acknowledge before they are armed is in `risked`, and so is
what `cluster recover`, which asks neither the lease nor the timelines, overwrites.

*The ttl.* `ClockInv` says that a clock that watches the holder is no older than
the holder's tenure; whoever proposes a takeover has compared such a clock
with `leader_ttl`, and between that and the proposal the lease must still be
the one compared. The hypothesis `NoClockOutlives` is what the key of
`holder_unhealthy_since` leaves open: it names the holder and not the term, so a
clock started in a former tenure could meet the same node in office again. TLC
finds that it holds of every step of the instances of `HaFailover`, `HaRepeated`
and `HaAcked`; a clock is cleared by the first tick that reads another holder.

*The second opinion.* `BlindInv` says what a pool looks like as long as one link
is all that went wrong (`SteadyState`): the lease and every view of it are the
primary's, no takeover is in flight, nobody decided anything but to retain or to
follow, and every member linked to the primary saw it within a `loop_wait`. With
a third member linked to both ends, a candidate whose clock has run out is
told of a fresh sight and stands down; and a pool of three keeps a majority on both
sides of one link. Both fail in a pool of two, so the size is a hypothesis, and
`Prompt` is the one under which a sight is never older than its schedule.

*Raft storage.* `VotesInv` relates the votes already sent to the one on disk:
none is newer, and one of the same term is the same. `RowsInv` says that the log
is contiguous from the purge point; `OrderInv` which positions never pass which
(purged, snapshot and answered not past applied, nothing past what the cluster
agreed on, memory not behind the file); `KeptInv` that a committed entry is
applied or still in the log as agreed. `SnapshotInv` names the one moment when
the applied position may be ahead of both log and snapshot: between the parts of
an installation. `ReplayInv` says that document, snapshot and a snapshot in
construction each are the replay of the agreed log up to their position.

*Slots.* `WindowProtected` holds because who waits for a slot owns it and keeps
owning it until the slot is attached or the window ends (`WindowInv`), and a
consult that found no owner found no window (`SawInv`). `OrphanInv` is the reason
no slot is forgotten: whenever a slot pins WAL for a standby that cannot start,
an operation between its first change and its clean-up answers for it, or an
intent that the sweep is not about to mark done. `OpsInv` says that a running
recovery is the only one in progress for its target unless the operator abandoned
it, `SweepInv` and `BudgetInv` bound what the worker and the queue hold.

*Handoff.* The four theorems assume `Overlap = FALSE`: work is started one at a
time, which the code does not enforce across hosts and without which they are
false. That is no less than it sounds: a handoff's fan-out is many operations at
once, each may be resumed, abandoned or lose its driver, and allow_async may be
started beside them. `ClaimInv` says what keeps them apart: all drivers and open
entries serve one primary, none works on that primary, no two work on one node,
and a handoff or a hook is alone. A handoff that is fanning out has given up its
own claim; there is one such driver at most (`Fans`), and all there is to claim are
follows that it has begun (`Spawned`), so that the next one it begins is for a node
nobody works on (`FanBegins`). `DriverInv` says that each driver has an entry of
its own (but for the hook) that it is exactly one step ahead of, until somebody
abandons it. `StageInv` says what is so after each step of a ladder (`Handed`,
`Rebased`), of the driver's position and of the entry's, which may be one step
behind; `verify_handoff_state` is what tells the two apart before a resume
(`VerifiedStage`). A follow is resumed unverified, which is sound because each of
its stages survives the repetition of the step after it (`FollowStep`).
`InstInv` says that only a running standby is being promoted and that timelines
have a maximum, which the next promotion needs.

*WAL restore.* `DiskInv` follows the content of every file: a call's temporary
file holds nothing before the copy, then the first block, then the file (or, of a
segment still being archived, its first part), and before the rename the same,
synced (`TmpOK`); what is or may still be renamed is proper and synced (`Kept`),
which is what survives the host's death. It needs that no two calls share a
temporary file (`TmpOf`) and that failures and time-outs leave the call at the next
peer with nothing written. For the history files: PostgreSQL waits for at most one
call, and that call fetches what it wants (`OwnInv`, `WantInv`); a history file it
is about to receive was found reachable from the very control point it will start
from, because nothing moves that point while it waits (`ScreenInv`). Clients left
behind are the reason the first is an invariant and no triviality.

*Channels.* `ChannelInv` ties the queue of the mutex to the tasks that wait for it
(`QueueInv`: each once, and nobody else), a task to its peer and to its round
(`TaskInv`), and says of a peer without a fault in this round (`LitInv`) that it
accepts a handshake, that a call on its way to it is on a live channel, that its
task returns only when it was heard, and that once time has passed it was heard or
its task stood behind a dial. That last part is inductive only with the others:
time passes only when nothing is due, so whoever is still unheard then waits for
a mutex that somebody holds across a dial.

*Daemon.* `PhaseInv` ties systemd's state to the stage of `serve`: after a SIGTERM
to an agent that was READY the timer never runs ahead of the drain, so that the
drain's deadline falls before systemd's. `CauseInv` carries why each subsystem
ended; `SnapInv` bounds the age of "up" by the age of the snapshot.

*Induction over data.* What a replay of a log computes, and which number is the
least or greatest of a set, need induction. It is done on sets: the least element
of the numbers at which a claim fails (`LeastNumber`, from the well-foundedness of
the naturals) has a predecessor at which it holds. The definitions concerned are
recursive functions over an interval, unfolded one step at a time.

### Only model-checked

- All liveness: the prover has neither fairness nor ENABLED.
- `AckedSurvive` and `NoForkPast`: they hold for the faults and timings of their runs
  and fail beyond them (see the disagreements above), so they are no theorems of
  `Spec`, and what would have to be assumed is close to what they say.
- `GateHolds` and `ForkedOnlyUncompared` of `SiteBringup`: a fixed site of three
  hosts whose gate is a computation over configurations. TLC evaluates all of
  them; a proof would repeat that evaluation.
- That `NoClockOutlives` holds on the runs' instances.

## Not modelled

- the parts `PROJECT.json` marks `not_modelled` or `partly`, with the reason;
- openraft's own protocol and changes of membership after it was formed: the
  library is trusted to be a linearizable log;
- the control file's timeline, which lags a promotion until the next checkpoint;
- the archive side of WAL, progress streams, the escalation and recovery stages
  of pgpool beyond what `SlotOwnership` and `Handoff` hold, log texts;
- the promote entry of the journal and what an `ops` listing shows;
- durations inside a tick: the holder's fan-out, RPC time-outs and PostgreSQL
  stop are not added up against a candidate's clock (`FenceTiming`, below).

## Plan

Done: the modules above and the theorems under Proofs. Next, in this order:

1. `FenceTiming`: the time between the last confirmed read and the end of the
   stop on one side, and the first possible takeover on the other.
2. Liveness of reclaiming a slot (a standby that stays down loses its slot, or a
   file says why not), and the promote entry of the journal.
