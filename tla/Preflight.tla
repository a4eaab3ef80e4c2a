----------------------------- MODULE Preflight -----------------------------
(***************************************************************************)
(* `pg_agentd validate-env` (preflight.rs): the checks that systemd runs   *)
(* before the daemon (ExecStartPre) and that refuse to start it when one   *)
(* of them is an error.  Pure operators on the loaded configuration l      *)
(* (LoadConfig's result) and the host h, whose further fields say what the *)
(* checks find there:                                                      *)
(*   readable, key_tight     the TLS files, and whether the key is 0600    *)
(*   pcppass, client_key     "absent", "tight" or "loose"                  *)
(*   client_files            which of postgresql.crt and root.crt exist    *)
(*   tools                   the recovery tools that are executable        *)
(*   conf_found, includes    postgresql.conf, and the kinds of include of  *)
(*                           myrecovery.conf met walking it                *)
(*   unit                    systemd's LoadState and Restart of PostgreSQL *)
(*   state_dir               whether the Raft directory can be created     *)
(*   db                      what the local database reports               *)
(***************************************************************************)
EXTENDS Config

Check(name, status) == [name |-> name, status |-> status]
OkOr(cond, bad) == IF cond THEN "ok" ELSE bad

TlsMaterial(l, h) ==
  IF ~TlsConfigured(l.cfg) THEN {Check("tls material", "warn")}
  ELSE {Check(p, OkOr(p \in h.readable, "err")) : p \in TlsPaths}
       \cup {Check("key mode", OkOr("key" \in h.readable /\ h.key_tight, "err"))}

(* The pgpool file that exists must say what the configuration resolved.   *)
PgpoolNodeId(l, h) ==
  LET found == PgpoolNodeIds(h)
  IN  {Check("pgpool_node_id", IF found = <<>> THEN "warn"
                               ELSE OkOr(Head(found) = l.id, "err"))}

Mode(name, file) ==
  {Check(name, CASE file = "absent" -> "warn" [] file = "tight" -> "ok" [] file = "loose" -> "err")}

PostgresHomeDefaults(l, h) ==
  IF "user_home" \notin l.cfg.keys THEN {Check("user_home", "warn")}
  ELSE Mode(".pcppass", h.pcppass) \cup Mode("postgresql.key", h.client_key)
       \cup {Check(f, OkOr(f \in h.client_files, "warn")) : f \in {"postgresql.crt", "root.crt"}}

RecoveryTools(l, h) ==
  IF "pg_install_prefix" \notin l.cfg.keys THEN {Check("pg_install_prefix", "err")}
  ELSE {Check(t, OkOr(t \in h.tools, "err")) : t \in {"pg_basebackup", "pg_rewind"}}

(* The best include the walk meets: optional over required over elsewhere. *)
Rank(hit) == CASE hit = "optional" -> 3 [] hit = "required" -> 2 [] hit = "elsewhere" -> 1
BestInclude(h) == {i \in h.includes : \A j \in h.includes : Rank(j) <= Rank(i)}

(* An include that resolves elsewhere, or none, is a standby that silently *)
(* never streams; a required one is a primary that may not start.          *)
RecoveryConfInclude(l, h) ==
  {Check("recovery conf include",
         IF "data_dir" \notin l.cfg.keys \/ ~h.conf_found THEN "warn"
         ELSE IF BestInclude(h) = {"optional"} THEN "ok"
         ELSE IF BestInclude(h) = {"required"} THEN "warn" ELSE "err")}

(* Mutant: a unit that restarts itself is worth a warning.                 *)
RestartTolerated(l, h) == {Check("restart policy", OkOr(h.unit.restart = "no", "warn"))}

(* systemd must not restart a postmaster on its own; what cannot be        *)
(* assessed is a warning.                                                  *)
UnitRestartPolicy(l, h) ==
  {Check("restart policy",
         IF "service" \notin l.cfg.keys \/ h.unit.load # "loaded" THEN "warn"
         ELSE OkOr(h.unit.restart = "no", "err"))}

(* Shape problems are errors, except under --dev.                          *)
RaftPrerequisites(l, h) ==
  LET shape == IF l.cfg.dev THEN "warn" ELSE "err"
  IN  {Check("obsolete key", OkOr(l.cfg.enabled # "true", "warn")),
       Check("pool size", OkOr(Len(l.cfg.pool) >= 3, shape)),
       Check("local node id", OkOr(l.id >= 0, "err")),
       Check("transport auth", OkOr(TlsConfigured(l.cfg), shape)),
       Check("state dir", OkOr("state_dir" \in l.cfg.keys /\ h.state_dir, "err"))}

-----------------------------------------------------------------------------
(* The database checks; a query that fails counts as a wrong answer.       *)
WantSlots(l) == IF Len(l.cfg.pool) + 2 > 3 THEN Len(l.cfg.pool) + 2 ELSE 3

DbSettings(l, db) ==
  {Check("wal_level", OkOr(db.wal_level \in {"replica", "logical"}, "err")),
   Check("hot_standby", OkOr(db.hot_standby = "on", "err")),
   Check("wal_keep_size", OkOr(db.wal_keep_mb >= 512, "warn")),
   Check("max_replication_slots", OkOr(db.slots >= WantSlots(l), "err")),
   Check("max_wal_senders", OkOr(db.senders >= WantSlots(l), "err"))}

DbExtension(db) == {Check("pgpool_recovery", OkOr(db.extension, "err"))}

DbRoles(db) == {Check(r, OkOr(r \in db.roles, "err")) : r \in {"repl", "pgpool"}}

(* PostgreSQL that does not answer within two seconds is skipped with one  *)
(* warning: supervising it back up is what the daemon is for.              *)
PreflightReport(l, h, db_up) ==
  TlsMaterial(l, h) \cup PgpoolNodeId(l, h) \cup PostgresHomeDefaults(l, h)
  \cup RecoveryTools(l, h) \cup RecoveryConfInclude(l, h)
  \cup UnitRestartPolicy(l, h) \cup RaftPrerequisites(l, h)
  \cup IF db_up THEN DbSettings(l, h.db) \cup DbExtension(h.db) \cup DbRoles(h.db)
       ELSE {Check("db connection", "warn")}

HasErrors(report) == \E ch \in report : ch.status = "err"

(* validate_env: a configuration that does not load is a failure too.      *)
ValidateEnv(c, h, db_up) ==
  LET l == LoadConfig(c, h) IN l.ok /\ ~HasErrors(PreflightReport(l, h, db_up))
=============================================================================
