------------------------------- MODULE Config -------------------------------
(***************************************************************************)
(* How an agent reads config.toml (config.rs) and what it concludes: which *)
(* member of the pool it is, whether its timings are safe, and whether it  *)
(* may serve at all.  Pure operators on                                    *)
(*   c, the file: node_id, node_id_file (what it holds), pool (a sequence  *)
(*      of [id, host]), tls (the paths given), enabled (the obsolete key), *)
(*      the four timings, sslmode (whether libpq knows it), dev            *)
(*      (--dev) and keys (the defaulted settings it gives), and            *)
(*   h, the host: name, pgpool (what the pgpool_node_id candidates hold)   *)
(*      and env_tls (the TLS paths its environment gives).                 *)
(*                                                                         *)
(* An Option that is None is Unset.  A node id file holds an id, or is     *)
(* Absent, or is Garbled, which stands for unreadable too.  Paths, ports   *)
(* and names that only travel through are left out.                        *)
(***************************************************************************)
EXTENDS Integers, SequencesExt

Unset == -9
Absent == -8
Garbled == -7
NoLocalNode == -1       \* local_node_id before it is resolved

TlsPaths == {"ca_cert", "cert", "key"}
Keys == {"agent_port", "unix_socket", "user_home", "pg_install_prefix", "data_dir",
         "socket_dir", "archive_dir", "service", "repl_user", "state_dir"}
Loopback == {"localhost", "127.0.0.1"}

Opt(v, default) == IF v = Unset THEN default ELSE v
Pool(c) == ToSet(c.pool)
Ids(c) == {n.id : n \in Pool(c)}

(* get_or_insert on every section: what the file gives is kept.            *)
ApplyDefaults(c) == [c EXCEPT !.keys = Keys]

(* A non-empty variable replaces what the file says.                       *)
ApplyEnvOverrides(c, h) == [c EXCEPT !.tls = @ \cup h.env_tls]

(* All three paths or none: two of them count as no TLS at all.            *)
TlsConfigured(c) == c.tls = TlsPaths

-----------------------------------------------------------------------------
(* Which member this host is: the first source that says anything decides, *)
(* and what it says must be in the pool (a Garbled or Absent file never    *)
(* is).  A configured node_id_file must be there; pgpool's may be absent.  *)
Given(v) == SelectSeq(<<v>>, LAMBDA x : x # Unset)
PgpoolNodeIds(h) == SelectSeq(h.pgpool, LAMBDA f : f # Absent)
ByHostname(c, h) == SelectSeq(c.pool, LAMBDA n : n.host = h.name)

ResolveLocalNodeId(c, h) ==
  LET said == Given(c.node_id) \o Given(c.node_id_file) \o PgpoolNodeIds(h)
      named == ByHostname(c, h)
  IN  IF said # <<>> THEN Head(said)
      ELSE IF named # <<>> THEN Head(named).id ELSE NoLocalNode

(* RaftConfig::validate, on the effective timings (milliseconds for the    *)
(* election, seconds for the others).                                      *)
LoopWaitOf(c) == Opt(c.loop_wait, 10)
RetryTimeoutOf(c) == Opt(c.retry_timeout, 10)
LeaderTtlOf(c) == Opt(c.leader_ttl, 30)
ElectionTimeoutOf(c) == Opt(c.election_timeout, 5000)

RaftValid(c) ==
  /\ c.enabled # "false"
  /\ LeaderTtlOf(c) >= LoopWaitOf(c) + 2 * RetryTimeoutOf(c)
  /\ RetryTimeoutOf(c) * 1000 > ElectionTimeoutOf(c)

Valid(c, id) ==
  /\ c.pool # <<>>
  /\ \A n \in Pool(c) : n.id >= 0
  /\ \A i, j \in DOMAIN c.pool :
       c.pool[i].id = c.pool[j].id \/ c.pool[i].host = c.pool[j].host => i = j
  /\ id \in Ids(c)
  /\ c.sslmode
  /\ RaftValid(c)

(* load_config of pg_agentd: the file on its own must already be valid.    *)
LoadConfig(c, h) ==
  LET file == ApplyDefaults(c)
      cfg == ApplyDefaults(ApplyEnvOverrides(file, h))
      id == ResolveLocalNodeId(cfg, h)
  IN  [ok |-> Valid(file, ResolveLocalNodeId(file, h)) /\ Valid(cfg, id), cfg |-> cfg, id |-> id]

-----------------------------------------------------------------------------
(* What the daemon is told about serving.                                  *)
HasRemotePeers(c, id) == \E n \in Pool(c) : n.id # id /\ n.host \notin Loopback

RejectInsecureRemotePeer(c, id) == HasRemotePeers(c, id) /\ ~TlsConfigured(c) /\ ~c.dev
=============================================================================
