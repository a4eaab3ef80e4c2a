---------------------------- MODULE SiteBringup ----------------------------
(***************************************************************************)
(* Bringing a site up: a fresh one through `cluster init`, or one where    *)
(* everything stopped through the daemons' own cold start and the          *)
(* operator's `cluster status` and `cluster start-primary`                 *)
(* (localserver.rs, agentctl, agent.rs, raftconsensus.rs).  systemd runs   *)
(* validate-env (Preflight) before each daemon.                            *)
(*                                                                         *)
(* What is coarse here is detailed elsewhere.  The HA loop is one step,    *)
(* without its clocks: how long a holder must look dead, and what happens  *)
(* between reading and acting, are HaLoop's business.  A data directory is *)
(* its shape and the promotions behind it, each with a name of its own:    *)
(* the code sees only their number, the timeline, so that two directories  *)
(* may fork and still report the same one.  A standby is built in one step *)
(* (StandbyOps, SlotOwnership).  What is wrong with a host is one defect   *)
(* out of a list; the operator corrects it when validate-env has named it, *)
(* and runs `cluster init` only while a data directory is missing.         *)
(***************************************************************************)
EXTENDS Preflight, FiniteSets, Lease

CONSTANTS Sites,        \* the sites a behaviour may start from
          Provisioned,  \* whether somebody has created the replication role
          Flawed,       \* bound: what may be wrong with one host, and which
          MaxTerm,      \* bound: generations of the lease
          MaxCommands,  \* bound: start-primary commands that start PostgreSQL
          MaxRecovers,  \* bound: data directories rebuilt after the bootstrap
          MaxFaults     \* bound: crashes, slow starts, failing claims

VARIABLES host,      \* the defect of each host
          env,       \* what validate-env says of it, and will once corrected
          gate,      \* its daemon: "off", "refused", "up", "start", "serving"
          ident,     \* the member it says it is
          pg,        \* "down", "crashed", "starting", "primary", "standby"
          shape,     \* its data directory: "empty", "primary" or "standby"
          hist,      \* the promotions its data directory has been through
          upstream,  \* whom its recovery settings name, or 0
          role,      \* the replication role exists
          formed,    \* Raft has a membership
          store,     \* the replicated ClusterState
          op,        \* the operator command running at each host
          sponsor,   \* history: a lease or a command let it start
          overlooked,\* history: promotions of directories whose timeline was
                     \* not compared when the lease was taken for this one
          forced,    \* history: --force overruled a higher timeline
          commands, recovers, faults

vars == <<host, env, gate, ident, pg, shape, hist, upstream, role, formed, store, op,
          sponsor, overlooked, forced, commands, recovers, faults>>

HostNames == <<"h1", "h2", "h3">>
Member == 1 .. Len(HostNames)

-----------------------------------------------------------------------------
(* The configuration and the host a defect stands for.                     *)
SoundConfig ==
  [node_id |-> Unset, node_id_file |-> Unset,
   pool |-> [i \in Member |-> [id |-> i, host |-> HostNames[i]]],
   tls |-> TlsPaths, enabled |-> "unset", loop_wait |-> Unset,
   retry_timeout |-> Unset, leader_ttl |-> Unset, election_timeout |-> Unset,
   sslmode |-> TRUE, dev |-> FALSE, keys |-> {}]

ConfigWith(d) ==
  CASE d \in {"copied id", "copied, no file"} -> [SoundConfig EXCEPT !.node_id = 1]
    [] d = "short ttl"  -> [SoundConfig EXCEPT !.leader_ttl = 29]
    [] d = "election"   -> [SoundConfig EXCEPT !.election_timeout = 10000]
    [] d = "disabled"   -> [SoundConfig EXCEPT !.enabled = "false"]
    [] d = "two nodes"  -> [SoundConfig EXCEPT !.pool = SubSeq(@, 1, 2)]
    [] d = "half tls"   -> [SoundConfig EXCEPT !.tls = {"ca_cert", "cert"}]
    [] OTHER            -> SoundConfig

HostWith(m, d) ==
  [name |-> HostNames[m],
   pgpool |-> <<CASE d = "garbled id" -> Garbled
                  [] d \in {"no id file", "copied, no file"} -> Absent
                  [] OTHER -> m, Absent>>,
   env_tls |-> {}, readable |-> TlsPaths, key_tight |-> d # "loose key",
   pcppass |-> "tight", client_key |-> "tight", client_files |-> {"root.crt"},
   tools |-> IF d = "no rewind" THEN {"pg_basebackup"} ELSE {"pg_basebackup", "pg_rewind"},
   conf_found |-> TRUE,
   includes |-> {IF d = "elsewhere" THEN "elsewhere" ELSE "optional"},
   unit |-> [load |-> "loaded", restart |-> IF d = "restarts" THEN "on-failure" ELSE "no"],
   state_dir |-> d # "no state dir",
   db |-> [wal_level |-> "replica", hot_standby |-> "on", wal_keep_mb |-> 0,
           slots |-> 5, senders |-> 5, extension |-> TRUE,
           roles |-> {"pgpool"}]]

(* What ExecStartPre and the daemon make of it: who it is, and whether it  *)
(* starts, by whether the database answers and has the replication role.   *)
Verdict(m, d) ==
  LET c == ConfigWith(d)
      l == LoadConfig(c, HostWith(m, d))
      With(r) == [HostWith(m, d) EXCEPT !.db.roles = IF r THEN @ \cup {"repl"} ELSE @]
  IN  [id |-> l.id,
       fit |-> [r \in BOOLEAN, up \in BOOLEAN |->
                  ValidateEnv(c, With(r), up) /\ ~RejectInsecureRemotePeer(l.cfg, l.id)]]

(* What the gate makes of a sound host, whose database may be down, with   *)
(* pgpool's id file or without; of an id copied from another host, which   *)
(* it lets through where no file contradicts it; and of each defect that   *)
(* no behaviour needs to start from: it always refuses.                    *)
ASSUME GateAssumption ==
  \A m \in Member :
    /\ Verdict(m, "none").id = m /\ Verdict(m, "no id file").id = m
    /\ Verdict(m, "copied, no file").id = 1
    /\ \A r, up \in BOOLEAN :
         /\ \A d \in {"none", "no id file", "copied, no file"} :
              Verdict(m, d).fit[r, up] = (up => r)
         /\ m # 1 => ~Verdict(m, "copied id").fit[r, up]
    /\ \A d \in {"short ttl", "election", "disabled", "two nodes", "half tls",
                "garbled id", "no rewind", "loose key", "no state dir"} :
         \A r, up \in BOOLEAN : ~Verdict(m, d).fit[r, up]

Heard(m) ==
  {p \in Member \ {m} : gate[p] \in {"up", "start", "serving"}}
Serving(m) == gate[m] = "serving"

(* openraft: a majority that can reach each other has a leader.            *)
Majority(m) == 2 * Cardinality(Heard(m) \cup {m}) > Len(HostNames)
StoreReachable(m) == formed /\ Majority(m)
Holds(m) == store.lease.holder = ident[m]
HeldElsewhere(m) == store.lease # Vacant /\ ~Holds(m)

NoCommand == [at |-> "idle", held |-> FALSE, force |-> FALSE, todo |-> {}]

Fault == faults > 0 /\ faults' = faults - 1

(* The timeline a control file reports: one, and one more per promotion.   *)
Timeline(m) == IF shape[m] = "empty" THEN 0 ELSE 1 + Len(hist[m])

(* A promotion's name, new among those of every directory.                 *)
NewBranch == 1 + Max({0} \cup UNION {ToSet(hist[m]) : m \in Member})

(* The promotions p's directory has been through and m's has not.          *)
Lacks(m, p) == ToSet(hist[p]) \ ToSet(hist[m])

(* History: m compares its timeline with those of some members only.       *)
Compares(m, with) ==
  overlooked' = [overlooked EXCEPT ![m] = @ \cup UNION {Lacks(m, p) : p \in Member \ with}]

(* The fork between the two was made on m's side, by m or where m's        *)
(* directory comes from, without looking at the other side.                *)
Blind(m, p) == Lacks(m, p) \cap overlooked[m] # {}

(* m could not know of it: it did not look, or p did not and the numbers   *)
(* that m can look at do not tell.                                         *)
Hidden(m, p) == Blind(m, p) \/ (Blind(p, m) /\ Timeline(p) <= Timeline(m))

-----------------------------------------------------------------------------
(* A fresh site has PostgreSQL running on the chosen primary and nothing   *)
(* elsewhere; on a stopped one node 2 was promoted past node 1, node 3     *)
(* follows or still has to, and the lease is node 2's, or was lost with    *)
(* the stores.                                                             *)
Init ==
  /\ \E f \in Flawed \cup {<<1, "none">>} :
       host = [m \in Member |-> IF m = f[1] THEN f[2] ELSE "none"]
  /\ env = [m \in Member |-> [now |-> Verdict(m, host[m]), sound |-> Verdict(m, "none")]]
  /\ gate = [m \in Member |-> "off"]
  /\ ident = [m \in Member |-> NoLocalNode]
  /\ \/ /\ "fresh" \in Sites
        /\ shape = [m \in Member |-> IF m = 1 THEN "primary" ELSE "empty"]
        /\ pg = [m \in Member |-> IF m = 1 THEN "primary" ELSE "down"]
        /\ hist = [m \in Member |-> <<>>]
        /\ upstream = [m \in Member |-> 0]
        /\ role = Provisioned
        /\ store = EmptyState
     \/ /\ "stopped" \in Sites
        /\ shape = <<"primary", "primary", "standby">>
        /\ pg = [m \in Member |-> "down"]
        /\ \/ hist = << <<>>, <<1>>, <<>> >> /\ upstream = <<0, 0, 1>>
           \/ hist = << <<>>, <<1>>, <<1>> >> /\ upstream = <<0, 0, 2>>
        /\ role = TRUE
        /\ store \in {EmptyState, ApplyTakeover(EmptyState, 2, Vacant)}
  /\ formed = (store # EmptyState)
  /\ op = [m \in Member |-> NoCommand]
  /\ sponsor = [m \in Member |-> TRUE]
  /\ overlooked = [m \in Member |-> {}]
  /\ forced = FALSE
  /\ commands = MaxCommands
  /\ recovers = MaxRecovers
  /\ faults = MaxFaults

-----------------------------------------------------------------------------
(* Idempotent: a membership that is formed already is what was wanted.     *)
BootstrapMembership == formed' = TRUE


(* ensure_membership, once in a daemon's life, before its cold start:      *)
(* whoever finds the pool unformed forms it, with the configured pool, the *)
(* same on every node.  Failing is not fatal to the start.                 *)
EnsureMembership ==
  \/ BootstrapMembership /\ UNCHANGED faults
  \/ ~formed /\ Fault /\ UNCHANGED formed

(* The unit: ExecStartPre, then the daemon, which serves its peers and     *)
(* sees to the membership.                                                 *)
DbUp(m) == pg[m] \in {"primary", "standby"}

UnitStarts(m) ==
  /\ gate[m] \in {"off", "refused"}
  /\ IF env[m].now.fit[role, DbUp(m)]
     THEN /\ gate' = [gate EXCEPT ![m] = "up"]
          /\ ident' = [ident EXCEPT ![m] = env[m].now.id]
          /\ EnsureMembership
     ELSE gate' = [gate EXCEPT ![m] = "refused"] /\ UNCHANGED <<ident, formed, faults>>
  /\ UNCHANGED <<host, env, pg, shape, hist, upstream, role, store, op, sponsor,
                 overlooked, forced, commands, recovers>>

(* The operator corrects what the report names.                            *)
Corrected(m) ==
  /\ gate[m] = "refused"
  /\ host[m] # "none"
  /\ host' = [host EXCEPT ![m] = "none"]
  /\ env' = [env EXCEPT ![m].now = env[m].sound]
  /\ UNCHANGED <<gate, ident, pg, shape, hist, upstream, role, formed, store, op,
                 sponsor, overlooked, forced, recovers, commands, faults>>

Stopped(m) == pg[m] \in {"down", "crashed"}
StartPg(m) == pg' = [pg EXCEPT ![m] = IF Stopped(m) THEN "starting" ELSE @]

(* cold_start_reconcile: a standby starts; a primary only with the lease,  *)
(* read within the quorum budget.  The start comes after the read.         *)
MayColdStart(m) ==
  \/ shape[m] = "standby"
  \/ shape[m] = "primary" /\ StoreReachable(m) /\ Holds(m)

ColdStartReconcile(m) ==
  /\ gate[m] = "up"
  /\ gate' = [gate EXCEPT ![m] = IF Stopped(m) /\ MayColdStart(m) THEN "start" ELSE "serving"]
  /\ sponsor' = [sponsor EXCEPT ![m] = shape[m] = "standby" \/ ~Stopped(m) \/ Holds(m)]
  /\ UNCHANGED <<host, env, ident, pg, shape, hist, upstream, role, formed, store, op,
                 overlooked, forced, recovers, commands, faults>>

ColdStart(m) ==
  /\ gate[m] = "start"
  /\ gate' = [gate EXCEPT ![m] = "serving"]
  /\ StartPg(m)
  /\ UNCHANGED <<host, env, ident, shape, hist, upstream, role, formed, store, op,
                 sponsor, overlooked, forced, recovers, commands, faults>>

-----------------------------------------------------------------------------
(* `cluster status`: one row per member, reachable or not, and the node    *)
(* its footer marks: among several running primaries the one furthest      *)
(* ahead; with none running, the only one with the highest timeline.       *)
Rows(m) == {p \in Heard(m) \cup {m} : Serving(m)}
Known(m) == {p \in Rows(m) : Timeline(p) > 0}
Primaries(m) == {p \in Rows(m) : pg[p] = "primary"}
Furthest(s) == {p \in s : \A q \in s : Timeline(q) <= Timeline(p)}

(* Its header: a lease that cannot be read is not a vacant one.            *)
Consensus(m) == [formed |-> formed, readable |-> StoreReachable(m), lease |-> store.lease]
ShownHolder(m) ==
  IF Consensus(m).formed /\ Consensus(m).readable THEN Consensus(m).lease.holder ELSE NoNode

Lead(m) ==
  IF Primaries(m) = {}
  THEN IF Cardinality(Furthest(Known(m))) = 1 THEN Furthest(Known(m)) ELSE {}
  ELSE IF Cardinality(Primaries(m)) >= 2 THEN Furthest(Primaries(m)) ELSE {}

-----------------------------------------------------------------------------
(* `cluster start-primary`, in the steps between which others move.        *)
Command(m, c) == op' = [op EXCEPT ![m] = c]
Idle(m) == Serving(m) /\ op[m] = NoCommand

(* The refusals that need no peer: the shape, the store, the lease.  An    *)
(* unknown lease is not a vacant one.  Nobody runs it where it has already *)
(* succeeded.                                                              *)
StartPrimary(m, force) ==
  /\ Idle(m)
  /\ shape[m] = "primary"
  /\ StoreReachable(m)
  /\ ~HeldElsewhere(m)
  /\ ~(Holds(m) /\ pg[m] = "primary")
  /\ Stopped(m) => commands > 0
  /\ Command(m, [NoCommand EXCEPT !.at = "fan", !.held = Holds(m), !.force = force])
  /\ UNCHANGED <<host, env, gate, ident, pg, shape, hist, upstream, role, formed, store,
                 sponsor, overlooked, forced, commands, recovers, faults>>

(* Mutant: the timelines of the peers are not compared.                    *)
NobodyAhead(m) == {}

(* The peers that answer and report a higher timeline; one that does not   *)
(* answer says nothing, and an unknown timeline compares with nothing.     *)
Ahead(m) ==
  {p \in Heard(m) : Timeline(p) > 0 /\ Timeline(m) > 0 /\ Timeline(p) > Timeline(m)}

StartPrimaryFan(m) ==
  /\ op[m].at = "fan"
  /\ IF Ahead(m) # {} /\ ~op[m].force
     THEN /\ Command(m, NoCommand)
          /\ UNCHANGED <<pg, sponsor, overlooked, forced, commands>>
     ELSE /\ commands' = IF Stopped(m) /\ commands > 0 THEN commands - 1 ELSE commands
          /\ Command(m, [op[m] EXCEPT !.at = "wait"])
          /\ StartPg(m)
          /\ sponsor' = [sponsor EXCEPT ![m] = TRUE]
          /\ Compares(m, Heard(m) \ Ahead(m))
          /\ forced' = (forced \/ op[m].force)
  /\ UNCHANGED <<host, env, gate, ident, shape, hist, upstream, role, formed, store, recovers, faults>>

(* PostgreSQL answers, or does not.  A node that already held the lease is *)
(* done, by what it read before.                                           *)
StartPrimaryCheck(m) ==
  /\ op[m].at = "wait"
  /\ IF pg[m] = "starting" THEN Fault ELSE UNCHANGED faults
  /\ Command(m, IF pg[m] = "primary" /\ ~op[m].held
                THEN [op[m] EXCEPT !.at = "claim"] ELSE NoCommand)
  /\ UNCHANGED <<host, env, gate, ident, pg, shape, hist, upstream, role, formed, store,
                 sponsor, overlooked, forced, recovers, commands>>

(* The compare-and-swap against a vacant lease: won or lost; or failed,    *)
(* for want of a quorum or by a fault.                                     *)
Claim(m) ==
  \/ /\ formed' /\ Majority(m)
     /\ store' = ApplyTakeover(store, ident[m], Vacant)
     /\ UNCHANGED faults
  \/ ~(formed' /\ Majority(m)) /\ UNCHANGED <<store, faults>>
  \/ Fault /\ UNCHANGED store

StartPrimaryClaim(m) ==
  /\ op[m].at = "claim"
  /\ UNCHANGED formed
  /\ Claim(m)
  /\ Command(m, NoCommand)
  /\ UNCHANGED <<host, env, gate, ident, pg, shape, hist, upstream, role,
                 sponsor, overlooked, forced, recovers, commands>>

-----------------------------------------------------------------------------
(* A role that exists already is left alone.                               *)
CreateReplicationRole == role' = TRUE

(* `cluster init`: the role, each standby in turn, then the lease.         *)
ClusterInit(m) ==
  /\ Idle(m)
  /\ pg[m] = "primary"
  /\ \E p \in Member : shape[p] = "empty"
  /\ CreateReplicationRole
  /\ Command(m, [NoCommand EXCEPT !.at = "init", !.todo = Member \ {m}])
  /\ UNCHANGED <<host, env, gate, ident, pg, shape, hist, upstream, formed, store,
                 sponsor, overlooked, forced, recovers, commands, faults>>

(* p's directory becomes a copy of m's, with the recovery settings.        *)
Rebuild(m, p) ==
  /\ shape' = [shape EXCEPT ![p] = "standby"]
  /\ hist' = [hist EXCEPT ![p] = hist[m]]
  /\ upstream' = [upstream EXCEPT ![p] = m]
  /\ overlooked' = [overlooked EXCEPT ![p] = overlooked[m]]
  /\ sponsor' = [sponsor EXCEPT ![p] = TRUE]

(* init_standby: an unreachable peer is a failure that is counted, not one *)
(* that stops the command.                                                 *)
InitStandby(m, p) ==
  /\ op[m].at = "init"
  /\ p \in op[m].todo
  /\ Command(m, [op[m] EXCEPT !.todo = @ \ {p}])
  /\ IF p \in Heard(m) /\ pg[m] = "primary"
     THEN Rebuild(m, p) /\ pg' = [pg EXCEPT ![p] = "standby"]
     ELSE UNCHANGED <<shape, hist, upstream, overlooked, sponsor, pg>>
  /\ UNCHANGED <<host, env, gate, ident, role, formed, store, forced, recovers, commands, faults>>

(* Membership if nobody formed it, and the lease for this primary if       *)
(* nobody holds it; neither failing fails the command.                     *)
InitSeed(m) ==
  /\ op[m].at = "init"
  /\ op[m].todo = {}
  /\ \/ BootstrapMembership /\ Claim(m)
     \/ ~formed /\ Fault /\ UNCHANGED <<formed, store>>
  /\ Command(m, NoCommand)
  /\ UNCHANGED <<host, env, gate, ident, pg, shape, hist, upstream, role, sponsor, overlooked, forced, recovers, commands>>

(* `cluster recover`: any primary rebuilds a peer from itself and starts   *)
(* it, whoever holds the lease; one that runs only when told to stop it.   *)
ClusterRecover(m, p, stop) ==
  /\ Idle(m)
  /\ pg[m] = "primary"
  /\ p \in Heard(m)
  /\ Stopped(p) \/ stop
  /\ recovers > 0 /\ recovers' = recovers - 1
  /\ Rebuild(m, p)
  /\ \/ pg' = [pg EXCEPT ![p] = "standby"] /\ UNCHANGED faults
     \/ Fault /\ pg' = [pg EXCEPT ![p] = "down"]
  /\ UNCHANGED <<host, env, gate, ident, role, formed, store, op, forced, commands>>

(* pgpool_remote_start: a primary starts a peer, the one that pgpool's     *)
(* online recovery has rebuilt from it (SlotOwnership) and left stopped;   *)
(* one that runs already stays as it is.                                   *)
RemoteStart(m, p) ==
  /\ Serving(m)
  /\ pg[m] = "primary"
  /\ p \in Heard(m)
  /\ shape[p] = "standby" /\ upstream[p] = m
  /\ Stopped(p)
  /\ StartPg(p)
  /\ UNCHANGED <<host, env, gate, ident, shape, hist, upstream, role, formed, store, op,
                 sponsor, overlooked, forced, recovers, commands, faults>>

-----------------------------------------------------------------------------
(* PostgreSQL and its unit.                                                *)
PgStarted(m) ==
  /\ pg[m] = "starting"
  /\ pg' = [pg EXCEPT ![m] = shape[m]]
  /\ UNCHANGED <<host, env, gate, ident, shape, hist, upstream, role, formed, store, op,
                 sponsor, overlooked, forced, recovers, commands, faults>>

PgCrash(m) ==
  /\ pg[m] = "primary"
  /\ Fault
  /\ pg' = [pg EXCEPT ![m] = "crashed"]
  /\ UNCHANGED <<host, env, gate, ident, shape, hist, upstream, role, formed, store, op,
                 sponsor, overlooked, forced, recovers, commands>>

(* systemd acts on Restart= by itself, whatever the lease says.            *)
UnitRestarts(m) ==
  /\ pg[m] = "crashed"
  /\ HostWith(m, host[m]).unit.restart # "no"
  /\ pg' = [pg EXCEPT ![m] = "starting"]
  /\ sponsor' = [sponsor EXCEPT ![m] = ~Serving(m)]
  /\ UNCHANGED <<host, env, gate, ident, shape, hist, upstream, role, formed, store, op,
                 overlooked, forced, recovers, commands, faults>>

-----------------------------------------------------------------------------
(* The HA loop.  A peer whose probe fails looks primary.                   *)
LooksPrimary(p) == pg[p] \in {"starting", "primary"}
Ticks(m) == Serving(m) /\ StoreReachable(m)

Promote(m) ==
  /\ pg' = [pg EXCEPT ![m] = "primary"]
  /\ shape' = [shape EXCEPT ![m] = "primary"]
  /\ hist' = [hist EXCEPT ![m] = Append(@, NewBranch)]
  /\ upstream' = [upstream EXCEPT ![m] = 0]
  /\ sponsor' = [sponsor EXCEPT ![m] = TRUE]

(* Mine: a standby is promoted, and what does not answer is stopped, a     *)
(* start that outlasts the tick included.                                  *)
TickHolder(m) ==
  /\ Ticks(m)
  /\ Holds(m)
  /\ \/ pg[m] = "primary" /\ UNCHANGED <<pg, shape, hist, upstream, sponsor, overlooked, faults>>
     \/ pg[m] = "standby" /\ Promote(m) /\ Compares(m, {}) /\ UNCHANGED faults
     \/ /\ ~DbUp(m)
        /\ pg' = [pg EXCEPT ![m] = "down"]
        /\ IF pg[m] = "starting" THEN Fault ELSE UNCHANGED faults
        /\ UNCHANGED <<shape, hist, upstream, sponsor, overlooked>>
  /\ UNCHANGED <<host, env, gate, ident, role, formed, store, op, forced, recovers, commands>>

HolderServes(m) == store.lease.holder \in Heard(m) /\ LooksPrimary(store.lease.holder)

(* Mutant: a primary that does not hold the lease is left running.         *)
FollowerTolerates(m) == Ticks(m) /\ ~Holds(m) /\ HolderServes(m) /\ UNCHANGED vars

(* Another's, and it serves: a primary here is fenced, and a standby that  *)
(* has not forked from the holder follows it through its promotions.       *)
Follows(m, h) == pg[m] = "standby" /\ pg[h] = "primary" /\ Lacks(h, m) = {}

TickFollower(m) ==
  /\ Ticks(m)
  /\ ~Holds(m)
  /\ HolderServes(m)
  /\ pg' = [pg EXCEPT ![m] = IF @ = "primary" THEN "down" ELSE @]
  /\ LET h == store.lease.holder
     IN  IF Follows(m, h)
         THEN /\ hist' = [hist EXCEPT ![m] = hist[h]]
              /\ upstream' = [upstream EXCEPT ![m] = h]
              /\ overlooked' = [overlooked EXCEPT ![m] = overlooked[h]]
         ELSE UNCHANGED <<hist, upstream, overlooked>>
  /\ UNCHANGED <<host, env, gate, ident, shape, role, formed, store, op,
                 sponsor, forced, recovers, commands, faults>>

Rivals(m) == {p \in Heard(m) : DbUp(p)}

(* Vacant, or its holder is not seen serving: stand down for a running     *)
(* primary and for a standby that still receives while it is vacant (of a  *)
(* dead holder's the standbys detach: HaLoop), and for whoever is ahead;   *)
(* else swap.  Only a database that runs reports a position: a directory   *)
(* whose node answers with PostgreSQL stopped is heard, and not compared.  *)
Streams(p) ==
  /\ pg[p] = "standby"
  /\ \E q \in Member : q = upstream[p] /\ pg[q] = "primary" /\ Lacks(q, p) = {}

Eligible(m) ==
  /\ DbUp(m)
  /\ store.lease = Vacant => ~\E p \in Heard(m) : LooksPrimary(p)
  /\ store.lease = Vacant => ~\E p \in Rivals(m) \cup {m} : Streams(p)
  /\ ~\E p \in Rivals(m) :
        Timeline(p) > Timeline(m) \/ (Timeline(p) = Timeline(m) /\ p < m)

TickCandidate(m) ==
  /\ Ticks(m)
  /\ ~Holds(m)
  /\ ~HolderServes(m)
  /\ IF /\ Eligible(m)
        /\ store.generation < MaxTerm
     THEN /\ store' = ApplyTakeover(store, ident[m], store.lease)
          /\ Compares(m, Rivals(m))
          /\ IF pg[m] = "standby" THEN Promote(m) ELSE UNCHANGED <<pg, shape, hist, upstream, sponsor>>
     ELSE UNCHANGED <<store, overlooked, pg, shape, hist, upstream, sponsor>>
  /\ UNCHANGED <<host, env, gate, ident, role, formed, op, forced, recovers, commands, faults>>

-----------------------------------------------------------------------------
Agent(m) ==
  \/ UnitStarts(m)
  \/ ColdStartReconcile(m)
  \/ ColdStart(m)
  \/ TickHolder(m)
  \/ TickFollower(m)
  \/ TickCandidate(m)
  \/ PgStarted(m)

(* What an operator does to get the site up...                             *)
Operate(m) ==
  \/ Corrected(m)
  \/ StartPrimary(m, FALSE)
  \/ StartPrimaryFan(m)
  \/ StartPrimaryCheck(m)
  \/ StartPrimaryClaim(m)
  \/ ClusterInit(m)
  \/ \E p \in Member : InitStandby(m, p)
  \/ InitSeed(m)

(* ... and what else may happen.                                           *)
Other(m) ==
  \/ StartPrimary(m, TRUE)
  \/ \E p \in Member :
       \/ \E stop \in BOOLEAN : ClusterRecover(m, p, stop)
       \/ RemoteStart(m, p)
  \/ PgCrash(m)
  \/ UnitRestarts(m)

Next == \E m \in Member : Agent(m) \/ Operate(m) \/ Other(m)

Spec == Init /\ [][Next]_vars

(* The daemons run; systemd starts a refused unit again once the operator  *)
(* has corrected it; an operator whose site is down keeps trying, without  *)
(* --force, until the site is up.                                          *)
FairSpec ==
  /\ Spec
  /\ \A m \in Member :
       /\ WF_vars(Agent(m))
       /\ SF_vars(Operate(m))

-----------------------------------------------------------------------------
(* Every variable keeps its type, and a daemon that is up knows which      *)
(* member it is (UnitStarts, LoadConfig).                                  *)
TypeOK ==
  /\ host \in [Member -> {"none"} \cup {f[2] : f \in Flawed}]
  /\ gate \in [Member -> {"off", "refused", "up", "start", "serving"}]
  /\ \A m \in Member : gate[m] \notin {"off", "refused"} => ident[m] \in Member
  /\ pg \in [Member -> {"down", "crashed", "starting", "primary", "standby"}]
  /\ shape \in [Member -> {"empty", "primary", "standby"}]
  /\ \A m \in Member : DbUp(m) => pg[m] = shape[m]
  /\ store.lease \in AnyLease /\ store.generation \in 0 .. MaxTerm
  /\ store # EmptyState => formed
  /\ \A m \in Member : upstream[m] = 0 <=> shape[m] # "standby"
  /\ \A m \in Member : Len(hist[m]) <= 1 + MaxTerm + MaxRecovers
  /\ overlooked \in [Member -> SUBSET Nat] /\ forced \in BOOLEAN
  /\ commands \in 0 .. MaxCommands /\ recovers \in 0 .. MaxRecovers
  /\ faults \in 0 .. MaxFaults

(* No two daemons that validate-env let start act, vote and claim as the   *)
(* same member of the pool, where pgpool's id file is there to contradict  *)
(* a copied id (preflight.rs, pgpool_node_id).                             *)
IdsDistinct ==
  \A m, p \in Member :
    m # p /\ ident[m] # NoLocalNode => ident[m] # ident[p]

(* A standby that an agent answers for reads its recovery settings: it     *)
(* never looks healthy while it follows nobody (recovery_conf_include).    *)
StandbysStream ==
  \A m \in Member :
    Serving(m) /\ pg[m] = "standby" => HostWith(m, host[m]).includes = {"optional"}

(* Behind the back of a serving agent nothing starts a primary: it was     *)
(* promoted, or commanded, or its agent had read its own lease             *)
(* (cold_start_reconcile, unit_restart_policy).                            *)
Sponsored == \A m \in Member : Serving(m) /\ pg[m] = "primary" => sponsor[m]

(* What validate-env lets through (ExecStartPre) is safe to run: the three *)
(* above, in typed states.                                                 *)
GateHolds == TypeOK /\ IdsDistinct /\ StandbysStream /\ Sponsored

Leads(m) == Serving(m) /\ Holds(m) /\ pg[m] = "primary"

(* The leader lacks a promotion of another primary's directory only if the *)
(* two were not compared when the fork was made: that node was not heard,  *)
(* or was heard by a loop, which compares running databases only, with its *)
(* own stopped, or --force overruled it (cluster_start_primary,            *)
(* consider_candidacy), or a holder of the lease was rebuilt and promoted  *)
(* again, which compares nothing (cluster_recover).  If it was the other   *)
(* node that did not look, its timeline is no higher than the leader's.    *)
(* What `cluster status` marks agrees: among several running primaries the *)
(* node it shows as the holder, or one forked from it that way; with none  *)
(* running, a directory that no other reported one has forked from, unless *)
(* one side was made without looking (print_status_table,                  *)
(* print_consensus).                                                       *)
ForkedOnlyUncompared ==
  /\ \A m, p \in Member :
       Leads(m) /\ shape[p] = "primary" /\ Lacks(m, p) # {} => Hidden(m, p)
  /\ \A v, m \in Member :
       /\ Serving(m) /\ ShownHolder(v) = ident[m]
       /\ m \in Primaries(v) /\ Cardinality(Primaries(v)) > 1
       => \A p \in Lead(v) : p = m \/ Hidden(m, p)
  /\ \A v \in Member : Primaries(v) = {} =>
       \A p \in Lead(v), q \in Known(v) :
         Lacks(p, q) # {} => Blind(p, q) \/ Blind(q, p)

(* A site comes up: some agent serves a primary that holds the lease, or   *)
(* the operator overruled the timelines with --force (cluster_init,        *)
(* cluster_start_primary).                                                 *)
SiteComesUp == <>(forced \/ \E m \in Member : Leads(m))

(* Two primaries running at once do not last (converge_follow's fence).    *)
Forked == Cardinality({m \in Member : pg[m] = "primary"}) > 1
ForksEnd == Forked ~> ~Forked

(* What the message of a failed claim promises ("the HA loop will claim it *)
(* once consensus recovers", cluster_start_primary), with nobody repeating *)
(* the command: it does not hold, for the loop stands down while a standby *)
(* streams from the unclaimed primary (consider_candidacy).                *)
LoopSpec ==
  /\ Spec
  /\ \A m \in Member :
       WF_vars(Agent(m) \/ StartPrimaryFan(m) \/ StartPrimaryCheck(m) \/ StartPrimaryClaim(m))
Claimed(m) == pg[m] = "primary" => store.lease # Vacant
LoopClaims == \A m \in Member : Serving(m) ~> Claimed(m)
=============================================================================
