----------------------------- MODULE StandbyOps -----------------------------
(***************************************************************************)
(* What the agents do to a PostgreSQL data directory (pgman/pgstandby.rs)  *)
(* and through the peer service (peerserver.rs).  Every operator maps the  *)
(* instances to what they are after one call.                              *)
(*                                                                         *)
(* A data directory is kept as what the properties tell apart: whether it  *)
(* holds a usable cluster, the timeline it is on, whose WAL myrecovery.conf*)
(* streams, and whether standby.signal is there.                           *)
(***************************************************************************)
EXTENDS Integers, FiniteSetsExt

CONSTANTS Node, NoNode

VARIABLES inst,    \* the instance and data directory of every host
          slots    \* the physical replication slots every host has

Instance == [running : BOOLEAN,
             primary : BOOLEAN,              \* not in recovery
             promoting : BOOLEAN,            \* signalled by pg_promote(false)
             stray   : BOOLEAN,              \* has WAL past the fork of a later timeline
             data    : {"good", "gone"},
             line    : Nat,                  \* timeline
             conf    : Node \cup {NoNode},   \* primary_conninfo
             signal  : BOOLEAN]              \* standby.signal

Serving(n) == inst[n].running /\ inst[n].primary

(* `clear_pgdata_contents`, the first half of `basebackup`.                *)
Cleared(n) == [inst EXCEPT ![n].data = "gone", ![n].conf = NoNode,
                           ![n].signal = FALSE]

(* pg_basebackup, and the copy pg_rewind makes: n becomes what the source  *)
(* p is, p's myrecovery.conf and standby.signal included.                  *)
Copied(n, p) == [inst EXCEPT ![n].data = "good", ![n].line = inst[p].line,
                             ![n].stray = FALSE,
                             ![n].conf = inst[p].conf, ![n].signal = inst[p].signal]

(* pg_rewind refuses a running target and one that holds no cluster; when  *)
(* both are on one timeline it says that no rewind is required.            *)
Rewindable(n, p) == ~inst[n].running /\ inst[n].data = "good" /\ inst[p].running
Rewound(n, p) == IF inst[n].line = inst[p].line THEN inst ELSE Copied(n, p)
CopyPossible(p) == inst[p].running

(* Mutant: the copy leaves what myrecovery.conf said before it.            *)
ConfKept(n, p) == inst

(* `write_recovery_conf`: two atomic writes, the configuration first.      *)
ConfWritten(n, p) == [inst EXCEPT ![n].conf = p]
SignalWritten(n) == [inst EXCEPT ![n].signal = TRUE]

(* `Systemd::start_postgres`, `Systemd::stop_postgres`: the role is read   *)
(* from the data directory at start.                                       *)
Started(n) == [inst EXCEPT ![n].running = TRUE,
                           ![n].primary = IF inst[n].running THEN @ ELSE ~inst[n].signal]
Stopped(n) == [inst EXCEPT ![n].running = FALSE, ![n].promoting = FALSE]

(* `promote` is pg_promote(false): it signals a running standby and does   *)
(* not wait.  The promotion ends recovery on a new timeline and removes    *)
(* standby.signal.                                                         *)
Promotable(n) == inst[n].running /\ ~inst[n].primary
Signalled(n) == [inst EXCEPT ![n].promoting = TRUE]
NewLine == 1 + Max({inst[n].line : n \in Node})
Promoted(n) == [inst EXCEPT ![n].primary = TRUE, ![n].promoting = FALSE,
                            ![n].signal = FALSE, ![n].line = NewLine]

(* `create_slot` (42710, it exists, is a success) and `drop_slot` on p.    *)
SlotCreated(p, n) == [slots EXCEPT ![p] = @ \cup {n}]
SlotDropped(p, n) == [slots EXCEPT ![p] = @ \ {n}]

(* `clean_replslots`, before and after pg_rewind: n loses its own slots.   *)
SlotsCleaned(n) == [slots EXCEPT ![n] = {}]

(* n is set up as a standby of p, and can stream from it.                  *)
Follows(n, p) == inst[n].running /\ ~inst[n].primary /\ inst[n].conf = p
Streams(n, p) == Follows(n, p) /\ ~inst[n].stray
=============================================================================
