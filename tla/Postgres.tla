------------------------------ MODULE Postgres ------------------------------
(***************************************************************************)
(* The PostgreSQL instances the agents drive and the network between the   *)
(* hosts.  Both are external to pg_agent and modelled from how             *)
(* `pgman::localdb`, `pgman::instance` and the executor use them:          *)
(* streaming replication with `synchronous_standby_names = ANY 1 (...)`,   *)
(* asynchronous promotion, and SQL probes that may get no answer.          *)
(*                                                                         *)
(* A write-ahead log is the sequence of its records, each named by the     *)
(* timeline and the node that wrote it, so that two histories are equal,   *)
(* prefixes of one another, or diverged.                                   *)
(***************************************************************************)
EXTENDS Lease, Sequences, FiniteSets

CONSTANT MaxWal   \* bound: records in a log

VARIABLES pg,      \* the PostgreSQL instance of each host
          cut,     \* pairs of hosts that cannot reach each other
          acked,   \* history: the logs whose last commit was acknowledged
          risked   \* history: of these, the ones that quorum commit never covered,
                   \* and the ones that a `cluster recover` cloned over

pgvars == <<pg, cut, acked, risked>>

Pairs == {pair \in SUBSET Node : Cardinality(pair) = 2}
Linked(n, p) == n = p \/ {n, p} \notin cut

Record == [tl : Nat, by : Node]

(* running: the process exists.  shape: what $PGDATA says the instance is  *)
(* (standby.signal or not).  promoting: pg_promote() was signalled.        *)
(* deaf: it does not answer the agent's queries.  upstream: the host in    *)
(* primary_conninfo, NoNode when detached.  tl, wal: timeline and flushed  *)
(* log.  sync: the standbys listed in synchronous_standby_names.  armed:   *)
(* history, quorum commit was armed in this directory, or in the one it    *)
(* was cloned from.                                                        *)
Instance == [running   : BOOLEAN,
             shape     : {"primary", "standby"},
             promoting : BOOLEAN,
             deaf      : BOOLEAN,
             upstream  : Node \cup {NoNode},
             tl        : Nat,
             wal       : Seq(Record),
             sync      : SUBSET Node,
             armed     : BOOLEAN]

RunsAsPrimary(n) == pg[n].running /\ pg[n].shape = "primary"
Answers(n) == pg[n].running /\ ~pg[n].deaf

Prefix(s, t) == Len(s) <= Len(t) /\ s = SubSeq(t, 1, Len(s))

(* A standby streams while its upstream runs, can be reached, and has not  *)
(* forked off below the standby's own position (finding 15's wedge).       *)
Streams(s) ==
  LET p == pg[s].upstream
  IN  /\ pg[s].running
      /\ pg[s].shape = "standby"
      /\ p # NoNode
      /\ pg[p].running
      /\ Linked(s, p)
      /\ Prefix(pg[s].wal, pg[p].wal)
      /\ pg[s].tl <= pg[p].tl
      /\ \A i \in Len(pg[s].wal) + 1 .. Len(pg[p].wal) :
           pg[s].tl <= pg[p].wal[i].tl

Attached(n) == {s \in Node : Streams(s) /\ pg[s].upstream = n}

WalPosition(n) == <<pg[n].tl, Len(pg[n].wal)>>

(* The derived `Ord` of WalPosition: the timeline dominates.               *)
PosLess(a, b) == a[1] < b[1] \/ (a[1] = b[1] /\ a[2] < b[2])

-----------------------------------------------------------------------------
(* A client commits a record on a primary.                                 *)
Write(n) ==
  /\ RunsAsPrimary(n)
  /\ Len(pg[n].wal) < MaxWal
  /\ pg' = [pg EXCEPT ![n].wal = Append(@, [tl |-> pg[n].tl, by |-> n])]
  /\ UNCHANGED <<cut, acked, risked>>

(* The client is told: at once when synchronous_standby_names is empty,    *)
(* else when one listed standby has flushed the record.                    *)
Flushed(n, s) == s \in Attached(n) /\ Prefix(pg[n].wal, pg[s].wal)

Acknowledge(n) ==
  /\ RunsAsPrimary(n)
  /\ pg[n].wal # <<>>
  /\ pg[n].sync = {} \/ \E s \in pg[n].sync : Flushed(n, s)
  /\ acked' = acked \cup {pg[n].wal}
  /\ acked' # acked
  /\ risked' = IF pg[n].armed THEN risked ELSE risked \cup {pg[n].wal}
  /\ UNCHANGED <<pg, cut>>

(* A standby receives the next record, or the switch to its upstream's     *)
(* timeline once it has every record.                                      *)
Replicate(s) ==
  /\ Streams(s)
  /\ LET up == pg[pg[s].upstream]
         i == Len(pg[s].wal) + 1
     IN  \/ /\ i <= Len(up.wal)
            /\ pg' = [pg EXCEPT ![s].wal = Append(@, up.wal[i]),
                                ![s].tl = up.wal[i].tl]
         \/ /\ i > Len(up.wal)
            /\ pg[s].tl < up.tl
            /\ pg' = [pg EXCEPT ![s].tl = up.tl]
  /\ UNCHANGED <<cut, acked, risked>>

(* Recovery ends some time after pg_promote(), whoever is still waiting    *)
(* for it: standby.signal is removed and a new timeline begins.            *)
PromotionEnds(n) ==
  /\ pg[n].running
  /\ pg[n].promoting
  /\ pg' = [pg EXCEPT ![n].promoting = FALSE, ![n].shape = "primary",
                      ![n].upstream = NoNode, ![n].tl = @ + 1]
  /\ UNCHANGED <<cut, acked, risked>>

(* The process is gone; what is on disk stays.                             *)
Stopped(inst) == [inst EXCEPT !.running = FALSE, !.promoting = FALSE,
                              !.deaf = FALSE]
=============================================================================
