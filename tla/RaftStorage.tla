----------------------------- MODULE RaftStorage -----------------------------
(***************************************************************************)
(* One node's Raft store (raftstore.rs): the redb file that holds the log, *)
(* the vote, the committed pointer, the purge point, the state machine and *)
(* the snapshot, and the in-memory state machine in front of it.  Every    *)
(* write is one redb transaction, durable before it returns; what several  *)
(* writes leave when the agent dies between them is the subject.           *)
(*                                                                         *)
(* openraft is external: it decides which call is made, and the guards     *)
(* marked "openraft" are its contract as this store relies on it.  Raft    *)
(* itself is not under test, so the log the cluster agrees on is given     *)
(* (`chosen`) and this node's log follows it.  JSON encoding loses nothing *)
(* here and is dropped; log positions count from 1, 0 is `None`.           *)
(***************************************************************************)
EXTENDS Lease, Sequences

CONSTANTS Commands,   \* the commands clients propose
          MaxIndex,   \* bound: entries the cluster agrees on
          MaxTerm,    \* bound: Raft terms
          MaxBatch,   \* bound: entries of one append
          MaxCrashes  \* bound: deaths of the agent

ASSUME StorageAssumption ==
  /\ MaxIndex \in Nat /\ MaxTerm \in Nat \ {0}
  /\ MaxBatch \in Nat \ {0} /\ MaxCrashes \in Nat
  /\ Commands \subseteq ConsensusCommand

VARIABLES disk,      \* the redb file
          up,        \* the agent runs
          mem,       \* what the running store and openraft hold in memory
          chosen,    \* the entries the cluster has agreed on
          granted,   \* history: the votes this node answered with
          answered,  \* history: the last entry whose response went out
          lag,       \* history: an old snapshot was left in place
          crashes

vars == <<disk, up, mem, chosen, granted, answered, lag, crashes>>

Index == 0 .. MaxIndex
Payload == {[kind |-> "normal", cmd |-> c] : c \in Commands}
             \cup {[kind |-> "blank"], [kind |-> "membership"]}
Entry == [term : 1 .. MaxTerm, payload : Payload]
Vote == [term : 0 .. MaxTerm, node : Node \cup {NoNode}]

(* StateMachineData::default().                                            *)
EmptyData == [last_applied |-> 0, last_membership |-> 0, cluster |-> EmptyState]

(* No snapshot has been written.                                           *)
NoSnapshot == [last_applied |-> 0, last_membership |-> 0,
               cluster |-> [EmptyState EXCEPT !.generation = 1]]

FreshDisk == [vote |-> [term |-> 0, node |-> NoNode], committed |-> 0,
              last_purged |-> 0, logs |-> <<>>, state_machine |-> EmptyData,
              snapshot |-> NoSnapshot]

(* The last log id of get_log_state: the last row, or the purge point when *)
(* no row is left.                                                         *)
LastLog(d) ==
  IF DOMAIN d.logs = {} THEN d.last_purged
  ELSE CHOOSE i \in DOMAIN d.logs : \A j \in DOMAIN d.logs : j <= i

Keep(logs, kept) == [i \in DOMAIN logs \cap kept |-> logs[i]]

(* Mutant: the position moves and the command's effect is forgotten.       *)
PositionOnly(data, i, entry) == [data EXCEPT !.last_applied = i]

(* apply, for one entry.                                                   *)
ApplyEntry(data, i, entry) ==
  LET moved == [data EXCEPT !.last_applied = i] IN
  CASE entry.payload.kind = "normal" ->
         [moved EXCEPT !.cluster = ApplyCommand(@, entry.payload.cmd)]
    [] entry.payload.kind = "membership" -> [moved EXCEPT !.last_membership = i]
    [] OTHER -> moved

(* apply, for the entries of `logs` up to k.                               *)
ApplyUpTo(data, logs, k) ==
  LET run[i \in data.last_applied .. k] ==
        IF i = data.last_applied THEN data ELSE ApplyEntry(run[i - 1], i, logs[i])
  IN run[k]

(* What any state machine at position k of the agreed log has to hold.     *)
Replayed(log, k) ==
  LET run[i \in 0 .. k] ==
        IF i = 0 THEN EmptyData
        ELSE LET moved == [run[i - 1] EXCEPT !.last_applied = i]
                 p == log[i].payload
             IN CASE p.kind = "normal" ->
                       [moved EXCEPT !.cluster = ApplyCommand(@, p.cmd)]
                  [] p.kind = "membership" -> [moved EXCEPT !.last_membership = i]
                  [] OTHER -> moved
  IN run[k]

(* RedbStateMachine::new, read_vote, read_committed: memory is what the    *)
(* file says.                                                              *)
Loaded(d) == [vote |-> d.vote, committed |-> d.committed, data |-> d.state_machine,
              snapped |-> d.snapshot.last_applied, builder |-> NoSnapshot,
              building |-> FALSE, installing |-> FALSE]

(* ClusterStateReader::read: the document in the file, not the copy in     *)
(* memory; nothing applied yet reads as the empty document.                *)
Read(d) == d.state_machine

Init ==
  /\ disk = FreshDisk
  /\ up = TRUE
  /\ mem = Loaded(FreshDisk)
  /\ chosen = <<>>
  /\ granted = {}
  /\ answered = 0
  /\ lag = FALSE
  /\ crashes = 0

history == <<chosen, granted, answered, lag, crashes>>

(* openraft's initialize writes the membership as the first entry, and the *)
(* pool does not change while it runs.                                     *)
Fits(i, e) == (e.payload.kind = "membership") = (i = 1)

(* The cluster agrees on the next entry: this node's own, if it has one    *)
(* there that wins, or another leader's.                                   *)
Choose(e) ==
  /\ Len(chosen) < MaxIndex
  /\ Fits(Len(chosen) + 1, e)
  /\ chosen' = chosen \o <<e>>
  /\ Len(chosen) > 0 => e.term >= chosen[Len(chosen)].term
  /\ UNCHANGED <<disk, up, mem, granted, answered, lag, crashes>>
-----------------------------------------------------------------------------
(* The log store.                                                          *)

(* Mutant: the vote is kept in memory and written some other time.         *)
VoteInMemory(v) == /\ mem' = [mem EXCEPT !.vote = v]
                   /\ UNCHANGED disk

(* save_vote: one durable write, after which the vote is used.             *)
SaveVote(v) == /\ disk' = [disk EXCEPT !.vote = v]
               /\ mem' = [mem EXCEPT !.vote = v]

(* openraft: a vote for a newer term, or the one already given in it.      *)
GrantVote(v) ==
  /\ up
  /\ v.term > mem.vote.term \/ v = mem.vote
  /\ v.node # NoNode
  /\ SaveVote(v)
  /\ granted' = granted \cup {v}
  /\ UNCHANGED <<up, chosen, answered, lag, crashes>>

(* openraft: the entries follow this node's last one and are the leader's, *)
(* who may be the leader in office or one deposed since.                   *)
LeadersEntry(i, e) ==
  \/ i <= Len(chosen) /\ e = chosen[i]
  \/ i > mem.committed /\ e.term = mem.vote.term /\ Fits(i, e)

Inserted(logs, last, batch) ==
  [i \in DOMAIN logs \cup (last + 1 .. last + Len(batch)) |->
     IF i \in DOMAIN logs THEN logs[i] ELSE batch[i - last]]

(* append: all entries of the batch in one transaction.                    *)
AppendEntries(batch) ==
  LET last == LastLog(disk) IN
  /\ up /\ mem.vote.term > 0
  /\ last + Len(batch) <= MaxIndex
  /\ \A k \in DOMAIN batch : LeadersEntry(last + k, batch[k])
  /\ disk' = [disk EXCEPT !.logs = Inserted(@, last, batch)]
  /\ UNCHANGED <<up, mem, history>>

(* truncate: the rows from i on, i included, in one transaction; openraft  *)
(* calls it for a row that conflicts with the leader's.                    *)
Truncate(i) ==
  /\ up
  /\ i \in DOMAIN disk.logs /\ i > mem.committed
  /\ i <= Len(chosen) => disk.logs[i] # chosen[i]
  /\ disk' = [disk EXCEPT !.logs = Keep(@, 0 .. i - 1)]
  /\ UNCHANGED <<up, mem, history>>

(* save_committed.  openraft: the leader's log agrees with this one up to  *)
(* there.                                                                  *)
SaveCommitted(i) ==
  /\ up /\ ~mem.installing
  /\ mem.committed < i /\ i <= Len(chosen)
  /\ i \in DOMAIN disk.logs
  /\ \A j \in DOMAIN disk.logs : j <= i => disk.logs[j] = chosen[j]
  /\ disk' = [disk EXCEPT !.committed = i]
  /\ mem' = [mem EXCEPT !.committed = i]
  /\ UNCHANGED <<up, history>>

(* Mutant: the rows go and the purge point does not come with them.        *)
RowsOnly(d, i) == [d EXCEPT !.logs = Keep(@, i + 1 .. MaxIndex)]

(* purge: the purge point and the rows it covers go in one transaction.    *)
Purged(d, i) ==
  [d EXCEPT !.last_purged = i, !.logs = Keep(@, i + 1 .. MaxIndex)]

(* openraft: what a snapshot it knows of covers.                           *)
Purge(i) ==
  /\ up
  /\ disk.last_purged < i /\ i <= mem.snapped
  /\ i \in DOMAIN disk.logs \/ i = mem.snapped
  /\ disk' = Purged(disk, i)
  /\ UNCHANGED <<up, mem, history>>
-----------------------------------------------------------------------------
(* The state machine.                                                      *)

Persist(data) == /\ disk' = [disk EXCEPT !.state_machine = data]
                 /\ mem' = [mem EXCEPT !.data = data]

(* apply: the batch in memory, then one write of the whole document, then  *)
(* the responses.                                                          *)
Apply(k) ==
  /\ up /\ ~mem.installing
  /\ mem.data.last_applied < k /\ k <= mem.committed
  /\ Persist(ApplyUpTo(mem.data, disk.logs, k))
  /\ answered' = k
  /\ UNCHANGED <<up, chosen, granted, lag, crashes>>

(* get_snapshot_builder: a copy of the state machine as it is now.         *)
GetSnapshotBuilder ==
  /\ up /\ ~mem.building /\ mem.data.last_applied > mem.snapped
  /\ mem' = [mem EXCEPT !.builder = mem.data, !.building = TRUE]
  /\ UNCHANGED <<disk, up, history>>

(* build_snapshot, which runs beside everything else: the copy is written  *)
(* over whatever snapshot is there by now.                                 *)
BuildSnapshot ==
  /\ up /\ mem.building
  /\ disk' = [disk EXCEPT !.snapshot = mem.builder]
  /\ mem' = [mem EXCEPT !.building = FALSE, !.builder = NoSnapshot,
                        !.snapped = IF @ < mem.builder.last_applied
                                    THEN mem.builder.last_applied ELSE @]
  /\ lag' = (lag \/ mem.builder.last_applied < disk.snapshot.last_applied)
  /\ UNCHANGED <<up, chosen, granted, answered, crashes>>

(* install_snapshot, first write: the leader's document replaces the state *)
(* machine.  openraft: it is ahead of what this node knows as committed,   *)
(* and a conflicting row was truncated before.                             *)
InstallSnapshot(k) ==
  /\ up /\ ~mem.installing
  /\ mem.committed < k /\ k <= Len(chosen)
  /\ \A i \in DOMAIN disk.logs : i <= k => disk.logs[i] = chosen[i]
  /\ disk' = [disk EXCEPT !.state_machine = Replayed(chosen, k)]
  /\ mem' = [mem EXCEPT !.data = Replayed(chosen, k), !.committed = k,
                        !.installing = TRUE]
  /\ UNCHANGED <<up, history>>

(* install_snapshot, second write, in a transaction of its own.            *)
StoreInstalled == disk' = [disk EXCEPT !.snapshot = mem.data]

FinishInstall ==
  /\ up /\ mem.installing
  /\ StoreInstalled
  /\ mem' = [mem EXCEPT !.installing = FALSE, !.snapped = mem.data.last_applied]
  /\ lag' = (lag /\ disk.last_purged > mem.data.last_applied)
  /\ UNCHANGED <<up, chosen, granted, answered, crashes>>
-----------------------------------------------------------------------------
Crash ==
  /\ up /\ crashes < MaxCrashes
  /\ up' = FALSE
  /\ crashes' = crashes + 1
  /\ mem' = Loaded(FreshDisk)
  /\ lag' = (lag \/ mem.installing)
  /\ UNCHANGED <<disk, chosen, granted, answered>>

(* open_stores and Raft::new.  openraft on start: the committed entries    *)
(* are applied again, a log that ends before the applied position is       *)
(* purged up to it, and a purged log without any snapshot gets one.        *)
Restart ==
  LET applied == IF disk.committed > disk.state_machine.last_applied
                 THEN ApplyUpTo(disk.state_machine, disk.logs, disk.committed)
                 ELSE disk.state_machine
      clean == IF LastLog(disk) < applied.last_applied
               THEN Purged(disk, applied.last_applied) ELSE disk
      loaded == [clean EXCEPT
                   !.state_machine = applied,
                   !.committed = IF @ < applied.last_applied
                                 THEN applied.last_applied ELSE @,
                   !.snapshot = IF clean.last_purged > 0 /\ @ = NoSnapshot
                                THEN applied ELSE @]
  IN /\ ~up
     /\ up' = TRUE
     /\ disk' = loaded
     /\ mem' = Loaded(loaded)
     /\ UNCHANGED history

Next ==
  \/ \E e \in Entry : Choose(e)
  \/ \E v \in Vote : GrantVote(v)
  \/ \E n \in 1 .. MaxBatch : \E batch \in [1 .. n -> Entry] : AppendEntries(batch)
  \/ \E i \in Index :
       Truncate(i) \/ SaveCommitted(i) \/ Purge(i) \/ Apply(i) \/ InstallSnapshot(i)
  \/ GetSnapshotBuilder
  \/ BuildSnapshot
  \/ FinishInstall
  \/ Crash
  \/ Restart

Spec == Init /\ [][Next]_vars
-----------------------------------------------------------------------------
Data == [last_applied : Index, last_membership : Index, cluster : ClusterState]

Disk == [vote : Vote, committed : Index, last_purged : Index,
         logs : UNION {[rows -> Entry] : rows \in SUBSET (1 .. MaxIndex)},
         state_machine : Data, snapshot : Data]
Memory == [vote : Vote, committed : Index, data : Data, snapped : Index,
           builder : Data, building : BOOLEAN, installing : BOOLEAN]

(* Types of the file's rows and of what is loaded from them.               *)
TypeOK ==
  /\ disk \in Disk /\ mem \in Memory
  /\ up \in BOOLEAN /\ lag \in BOOLEAN
  /\ chosen \in Seq(Entry) /\ Len(chosen) <= MaxIndex
  /\ granted \subseteq Vote /\ answered \in Index
  /\ crashes \in 0 .. MaxCrashes

(* A node answers at most one candidate in a term, whatever dies between   *)
(* the vote's write and the next request (save_vote's comment: "A lost     *)
(* vote is a double vote, which is a second leader in the same term").     *)
VotesOnce == \A v, w \in granted : v.term = w.term => v = w

(* A purged log is served to a lagging peer from the stored snapshot, so   *)
(* that one is not behind the purge point.  Two orders leave an older one: *)
(* a death between the two writes of install_snapshot, and a build that    *)
(* started before an install and ends after it; nothing else does.         *)
SnapshotCoversPurge ==
  disk.last_purged > 0 /\ ~lag =>
    /\ disk.snapshot # NoSnapshot
    /\ disk.last_purged <= disk.snapshot.last_applied

(* A crash at any moment leaves a file that openraft can start and serve   *)
(* from: rows without a hole behind the purge point, a purge point the     *)
(* applied state and the snapshot cover, and every committed entry either  *)
(* applied or still in the log as the cluster agreed on it.                *)
Recoverable ==
  /\ TypeOK
  /\ DOMAIN disk.logs = disk.last_purged + 1 .. LastLog(disk)
  /\ disk.last_purged <= disk.state_machine.last_applied
  /\ \A i \in 1 .. disk.committed :
       \/ i <= disk.state_machine.last_applied
       \/ i \in DOMAIN disk.logs /\ disk.logs[i] = chosen[i]
  /\ SnapshotCoversPurge

(* The applied document, on disk and in memory, is the replay of the       *)
(* agreed log up to its own position: neither a restart that applies       *)
(* entries again nor a snapshot installed over it applies one twice or     *)
(* skips one.  ClusterStateReader reads the file, so a response that went  *)
(* out is visible to every later read, across crashes.                     *)
AppliedIsReplay ==
  /\ disk.state_machine = Replayed(chosen, disk.state_machine.last_applied)
  /\ mem.data = Replayed(chosen, mem.data.last_applied)
  /\ disk.snapshot # NoSnapshot =>
       disk.snapshot = Replayed(chosen, disk.snapshot.last_applied)
  /\ answered <= Read(disk).last_applied
=============================================================================
