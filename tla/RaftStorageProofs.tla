-------------------------- MODULE RaftStorageProofs --------------------------
(***************************************************************************)
(* Proofs about RaftStorage, for every number of entries, terms, batches   *)
(* and deaths.  IInv adds to the properties the run checks what they rest  *)
(* on: how memory and file relate while the agent runs, which positions    *)
(* never pass which, and when the snapshot of a log that ends before the   *)
(* applied position is the applied document.                               *)
(***************************************************************************)
EXTENDS RaftStorage, WellFoundedInduction, TLAPS

Applied == disk.state_machine.last_applied

VotesInv ==
  /\ up => mem.vote = disk.vote
  /\ \A v \in granted : v.term <= disk.vote.term
  /\ \A v \in granted : v.term = disk.vote.term => v = disk.vote
  /\ VotesOnce

(* The rows are those from behind the purge point to the last one.         *)
RowsInv ==
  /\ LastLog(disk) \in disk.last_purged .. MaxIndex
  /\ DOMAIN disk.logs = disk.last_purged + 1 .. LastLog(disk)

(* Positions: what is purged, stored as snapshot or applied is agreed on,  *)
(* and memory is never behind the file.                                    *)
OrderInv ==
  /\ disk.last_purged <= Applied /\ disk.snapshot.last_applied <= Applied
  /\ Applied <= Len(chosen) /\ disk.committed <= Len(chosen)
  /\ answered <= Applied
  /\ up => /\ mem.data = disk.state_machine
           /\ disk.committed <= mem.committed /\ Applied <= mem.committed
           /\ mem.committed <= Len(chosen)
           /\ mem.snapped <= Applied /\ mem.builder.last_applied <= Applied
           /\ mem.installing => Applied > 0
  /\ ~up => mem = Loaded(FreshDisk)

(* A committed entry is applied, or in the log as the cluster agreed on it.*)
Kept(c) ==
  \A i \in 1 .. c : \/ i <= Applied
                    \/ i \in DOMAIN disk.logs /\ disk.logs[i] = chosen[i]

KeptInv == Kept(disk.committed) /\ (up => Kept(mem.committed))

SnapshotInv ==
  /\ SnapshotCoversPurge
  /\ up /\ ~lag => mem.snapped <= disk.snapshot.last_applied
  /\ ~lag /\ ~mem.installing /\ LastLog(disk) < Applied
       => Applied <= disk.snapshot.last_applied

ReplayInv ==
  /\ disk.state_machine = Replayed(chosen, Applied)
  /\ disk.snapshot # NoSnapshot =>
       disk.snapshot = Replayed(chosen, disk.snapshot.last_applied)
  /\ mem.building => mem.builder = Replayed(chosen, mem.builder.last_applied)

IInv == /\ TypeOK /\ VotesInv /\ RowsInv /\ OrderInv
        /\ KeptInv /\ SnapshotInv /\ ReplayInv
-----------------------------------------------------------------------------
(* Induction over the natural numbers, in terms of sets: a set of numbers  *)
(* that is not empty has a least element.                                  *)
LEMMA LeastNumber ==
  ASSUME NEW T \in SUBSET Nat, T # {}
  PROVE  \E x \in T : \A y \in T : x <= y
<1>1. PICK x \in T : \A y \in T : ~ (<<y, x>> \in OpToRel(<, Nat))
  BY NatLessThanWellFounded, WFMin, Zenon
<1>2. \A y \in T : ~(y < x)
  BY <1>1 DEF OpToRel
<1>3. QED
  BY <1>2

LEMMA SetInduction ==
  ASSUME NEW S, NEW a \in Nat, a \in S,
         \A n \in Nat : n >= a /\ n \in S => n + 1 \in S
  PROVE  \A n \in Nat : n >= a => n \in S
<1> DEFINE T == {n \in Nat : n >= a /\ n \notin S}
<1> SUFFICES ASSUME T # {} PROVE FALSE
  OBVIOUS
<1>1. PICK x \in T : \A y \in T : x <= y
  BY LeastNumber
<1>2. x # a
  OBVIOUS
<1>3. x - 1 \in Nat /\ x - 1 >= a /\ x - 1 \notin T
  BY <1>1, <1>2
<1>4. QED
  BY <1>3

-----------------------------------------------------------------------------
(* The recursive functions behind Replayed and ApplyUpTo.                  *)
IsReplay(f, log, k) ==
  f = [i \in 0 .. k |-> IF i = 0 THEN EmptyData
                        ELSE ApplyEntry(f[i - 1], i, log[i])]

IsRun(f, data, logs, k) ==
  f = [i \in data.last_applied .. k |->
         IF i = data.last_applied THEN data ELSE ApplyEntry(f[i - 1], i, logs[i])]

LEMMA ReplayedDef ==
  ASSUME NEW log, NEW k
  PROVE  Replayed(log, k) = (CHOOSE f : IsReplay(f, log, k))[k]
BY Zenon DEF Replayed, IsReplay, ApplyEntry

LEMMA ApplyUpToDef ==
  ASSUME NEW data, NEW logs, NEW k
  PROVE  ApplyUpTo(data, logs, k) = (CHOOSE f : IsRun(f, data, logs, k))[k]
BY Zenon DEF ApplyUpTo, IsRun

LEMMA ReplayExists ==
  ASSUME NEW log
  PROVE  \A k \in Nat : \E f : IsReplay(f, log, k)
<1> DEFINE S == {k \in Nat : \E f : IsReplay(f, log, k)}
<1>1. 0 \in S
  <2> DEFINE f == [i \in 0 .. 0 |-> EmptyData]
  <2>1. f = [i \in 0 .. 0 |-> IF i = 0 THEN EmptyData
                              ELSE ApplyEntry(f[i - 1], i, log[i])]
    OBVIOUS
  <2> HIDE DEF f
  <2>2. IsReplay(f, log, 0)
    BY <2>1 DEF IsReplay
  <2>3. QED
    BY <2>2
<1>2. ASSUME NEW k \in Nat, k \in S
      PROVE  k + 1 \in S
  <2>1. PICK f : IsReplay(f, log, k)
    BY <1>2
  <2> DEFINE g == [i \in 0 .. k + 1 |->
                     IF i = k + 1 THEN ApplyEntry(f[k], k + 1, log[k + 1]) ELSE f[i]]
  <2>2. \A i \in 0 .. k : f[i] = IF i = 0 THEN EmptyData
                                 ELSE ApplyEntry(f[i - 1], i, log[i])
    BY <2>1 DEF IsReplay
  <2>3. \A i \in 0 .. k : g[i] = f[i]
    OBVIOUS
  <2>4. \A i \in 0 .. k + 1 : g[i] = IF i = 0 THEN EmptyData
                                     ELSE ApplyEntry(g[i - 1], i, log[i])
    BY <2>2, <2>3
  <2>5. IsReplay(g, log, k + 1)
    BY <2>4 DEF IsReplay
  <2>6. QED
    BY <2>5
<1> HIDE DEF S
<1>3. \A k \in Nat : k >= 0 => k \in S
  BY <1>1, <1>2, SetInduction
<1>4. QED
  BY <1>3 DEF S

(* Two replays of logs that agree up to k agree up to k.                   *)
LEMMA ReplaysAgree ==
  ASSUME NEW f, NEW g, NEW log, NEW logg, NEW k \in Nat, NEW m \in Nat, k <= m,
         IsReplay(f, log, k), IsReplay(g, logg, m),
         \A i \in 1 .. k : log[i] = logg[i]
  PROVE  \A i \in 0 .. k : f[i] = g[i]
<1> DEFINE S == {i \in Nat : i <= k => f[i] = g[i]}
<1>1. /\ \A i \in 0 .. k : f[i] = IF i = 0 THEN EmptyData
                                  ELSE ApplyEntry(f[i - 1], i, log[i])
      /\ \A i \in 0 .. m : g[i] = IF i = 0 THEN EmptyData
                                  ELSE ApplyEntry(g[i - 1], i, logg[i])
  BY DEF IsReplay
<1>2. 0 \in S
  BY <1>1
<1>3. ASSUME NEW i \in Nat, i \in S
      PROVE  i + 1 \in S
  <2>1. CASE i + 1 <= k
    <3>1. f[i + 1] = ApplyEntry(f[i], i + 1, log[i + 1])
      BY <1>1, <2>1
    <3>2. g[i + 1] = ApplyEntry(g[i], i + 1, logg[i + 1])
      BY <1>1, <2>1
    <3>3. f[i] = g[i] /\ log[i + 1] = logg[i + 1]
      BY <1>3, <2>1
    <3>4. QED
      BY <3>1, <3>2, <3>3
  <2>2. QED
    BY <2>1
<1> HIDE DEF S
<1>4. \A i \in Nat : i >= 0 => i \in S
  BY <1>2, <1>3, SetInduction
<1>5. QED
  BY <1>4 DEF S

(* What Replayed computes: nothing at position 0, and one entry more at    *)
(* each further position.                                                  *)
LEMMA ReplayedSteps ==
  ASSUME NEW log
  PROVE  /\ Replayed(log, 0) = EmptyData
         /\ \A k \in Nat :
              Replayed(log, k + 1)
                = ApplyEntry(Replayed(log, k), k + 1, log[k + 1])
<1> DEFINE F(k) == CHOOSE f : IsReplay(f, log, k)
<1>1. \A k \in Nat : IsReplay(F(k), log, k)
  BY ReplayExists
<1>2. \A k \in Nat : Replayed(log, k) = F(k)[k]
  BY ReplayedDef
<1> HIDE DEF F
<1>3. Replayed(log, 0) = EmptyData
  BY <1>1, <1>2 DEF IsReplay
<1>4. ASSUME NEW k \in Nat
      PROVE  Replayed(log, k + 1)
               = ApplyEntry(Replayed(log, k), k + 1, log[k + 1])
  <2>1. F(k)[k] = F(k + 1)[k]
    BY <1>1, ReplaysAgree
  <2>2. F(k + 1)[k + 1] = ApplyEntry(F(k + 1)[k], k + 1, log[k + 1])
    BY <1>1 DEF IsReplay
  <2>3. QED
    BY <1>2, <2>1, <2>2
<1>5. QED
  BY <1>3, <1>4

(* The replay up to k depends on nothing behind k.                         *)
LEMMA ReplayedPrefix ==
  ASSUME NEW log, NEW logg, NEW k \in Nat, \A i \in 1 .. k : log[i] = logg[i]
  PROVE  Replayed(log, k) = Replayed(logg, k)
<1>1. PICK f, g : /\ f = CHOOSE h : IsReplay(h, log, k)
                  /\ g = CHOOSE h : IsReplay(h, logg, k)
  OBVIOUS
<1>2. IsReplay(f, log, k) /\ IsReplay(g, logg, k)
  BY <1>1, ReplayExists
<1> k <= k
  OBVIOUS
<1>3. \A i \in 0 .. k : f[i] = g[i]
  BY <1>2, ReplaysAgree, Zenon
<1>4. f[k] = g[k]
  BY <1>3
<1>5. QED
  BY <1>1, <1>4, ReplayedDef

(* Applying entries to a document that is a replay, from a log that agrees *)
(* with the one it replays, gives the replay of that log.                  *)
LEMMA ApplyUpToReplays ==
  ASSUME NEW log, NEW logs, NEW a \in Nat, NEW k \in Nat, a <= k,
         NEW data, data = Replayed(log, a), data.last_applied = a,
         \A i \in a + 1 .. k : logs[i] = log[i]
  PROVE  ApplyUpTo(data, logs, k) = Replayed(log, k)
<1> DEFINE w == [i \in a .. k |-> Replayed(log, i)]
<1>1. IsRun(w, data, logs, k)
  <2>1. ASSUME NEW i \in a .. k, i # a
        PROVE  w[i] = ApplyEntry(w[i - 1], i, logs[i])
    <3>1. i - 1 \in Nat /\ i - 1 \in a .. k /\ (i - 1) + 1 = i
      BY <2>1
    <3>2. Replayed(log, i) = ApplyEntry(Replayed(log, i - 1), i, log[i])
      BY <3>1, ReplayedSteps
    <3>3. logs[i] = log[i]
      BY <2>1
    <3>4. QED
      BY <3>1, <3>2, <3>3
  <2>2. w[a] = data
    OBVIOUS
  <2>3. \A i \in a .. k :
          w[i] = IF i = data.last_applied THEN data
                 ELSE ApplyEntry(w[i - 1], i, logs[i])
    BY <2>1, <2>2
  <2>4. QED
    BY <2>3 DEF IsRun
<1> HIDE DEF w
<1>2. ASSUME NEW f, IsRun(f, data, logs, k)
      PROVE  f[k] = Replayed(log, k)
  <2> DEFINE S == {i \in Nat : i <= k => f[i] = Replayed(log, i)}
  <2>1. \A i \in a .. k :
          f[i] = IF i = a THEN data ELSE ApplyEntry(f[i - 1], i, logs[i])
    BY <1>2 DEF IsRun
  <2>2. a \in S
    BY <2>1
  <2>3. ASSUME NEW i \in Nat, i >= a, i \in S
        PROVE  i + 1 \in S
    <3>1. CASE i + 1 <= k
      <4>1. f[i + 1] = ApplyEntry(f[i], i + 1, logs[i + 1])
        BY <2>1, <2>3, <3>1
      <4>2. logs[i + 1] = log[i + 1]
        BY <2>3, <3>1
      <4>3. f[i] = Replayed(log, i)
        BY <2>3, <3>1
      <4>4. QED
        BY <4>1, <4>2, <4>3, ReplayedSteps
    <3>2. QED
      BY <3>1
  <2> HIDE DEF S
  <2>4. \A i \in Nat : i >= a => i \in S
    BY <2>2, <2>3, SetInduction
  <2>5. QED
    BY <2>4 DEF S
<1>3. QED
  BY <1>1, <1>2, ApplyUpToDef

(* What the CAS and the release write is a lease, and writing it and a     *)
(* generation into the document keeps its type.                            *)
LEMMA LeaseTyped ==
  ASSUME NEW s \in ClusterState, NEW n \in Node
  PROVE  /\ [holder |-> n, term |-> s.generation + 1] \in AnyLease
         /\ Vacant \in AnyLease
BY DEF AnyLease, HeldLease, ClusterState

LEMMA WriteTyped ==
  ASSUME NEW s \in ClusterState, NEW l \in AnyLease, NEW g \in Nat
  PROVE  [s EXCEPT !.generation = g, !.lease = l] \in ClusterState
BY DEF ClusterState

LEMMA WritePausedTyped ==
  ASSUME NEW s \in ClusterState, NEW p \in BOOLEAN, NEW g \in Nat
  PROVE  [s EXCEPT !.generation = g, !.paused = p] \in ClusterState
BY DEF ClusterState

LEMMA WriteSwitchoverTyped ==
  ASSUME NEW s \in ClusterState, NEW t \in Node \cup {NoNode}, NEW g \in Nat
  PROVE  [s EXCEPT !.generation = g, !.switchover = t] \in ClusterState
BY DEF ClusterState

LEMMA GenerationTyped ==
  ASSUME NEW s \in ClusterState
  PROVE  s.generation + 1 \in Nat
BY DEF ClusterState

(* A typed command takes a typed document to a typed document: what        *)
(* apply_command returns is again a ClusterState.                          *)
LEMMA ApplyTyped ==
  ASSUME NEW s \in ClusterState, NEW cmd \in ConsensusCommand
  PROVE  ApplyCommand(s, cmd) \in ClusterState
<1>1. CASE cmd \in [op : {"takeover"}, node : Node, lease : AnyLease]
  <2>1. ApplyCommand(s, cmd) = ApplyTakeover(s, cmd.node, cmd.lease)
    BY <1>1 DEF ApplyCommand
  <2>2. cmd.node \in Node
    BY <1>1
  <2>3. QED
    BY <2>1, <2>2, LeaseTyped, GenerationTyped, WriteTyped, ZenonT(60) DEF ApplyTakeover
<1>2. CASE cmd \in [op : {"release"}, node : Node, lease : HeldLease]
  <2>1. ApplyCommand(s, cmd) = ApplyRelease(s, cmd.lease)
    BY <1>2 DEF ApplyCommand
  <2>2. cmd.node \in Node
    BY <1>2
  <2>3. QED
    BY <2>1, <2>2, LeaseTyped, GenerationTyped, WriteTyped DEF ApplyRelease
<1>3. CASE cmd \in [op : {"paused"}, value : BOOLEAN]
  <2>1. ApplyCommand(s, cmd) = ApplySetPaused(s, cmd.value)
    BY <1>3 DEF ApplyCommand
  <2>2. cmd.value \in BOOLEAN
    BY <1>3
  <2>3. QED
    BY <2>1, <2>2, GenerationTyped, WritePausedTyped, ZenonT(60) DEF ApplySetPaused
<1>4. CASE cmd \in [op : {"switchover"}, value : Node \cup {NoNode}]
  <2>1. ApplyCommand(s, cmd) = ApplySetSwitchover(s, cmd.value)
    BY <1>4 DEF ApplyCommand
  <2>2. cmd.value \in Node \cup {NoNode}
    BY <1>4
  <2>3. QED
    BY <2>1, <2>2, GenerationTyped, WriteSwitchoverTyped, ZenonT(60) DEF ApplySetSwitchover
<1>5. QED
  BY <1>1, <1>2, <1>3, <1>4 DEF ConsensusCommand

(* An entry moves the position to its own and keeps the document typed.    *)
LEMMA EntryTyped ==
  ASSUME NEW data \in Data, NEW i \in Index, NEW e \in Entry
  PROVE  /\ ApplyEntry(data, i, e) \in Data
         /\ ApplyEntry(data, i, e).last_applied = i
<1> DEFINE moved == [data EXCEPT !.last_applied = i]
<1>1. moved \in Data /\ moved.last_applied = i
  BY DEF Data
<1>2. CASE e.payload.kind = "normal"
  <2>1. e.payload.cmd \in ConsensusCommand
    BY <1>2, StorageAssumption DEF Entry, Payload
  <2>2. ApplyCommand(moved.cluster, e.payload.cmd) \in ClusterState
    BY <1>1, <2>1, ApplyTyped DEF Data
  <2>3. ApplyEntry(data, i, e)
          = [moved EXCEPT !.cluster = ApplyCommand(moved.cluster, e.payload.cmd)]
    BY <1>2 DEF ApplyEntry
  <2> HIDE DEF moved
  <2>4. QED
    BY <1>1, <2>2, <2>3 DEF Data
<1>3. CASE e.payload.kind = "membership"
  <2>1. ApplyEntry(data, i, e) = [moved EXCEPT !.last_membership = i]
    BY <1>3 DEF ApplyEntry
  <2> HIDE DEF moved
  <2>2. QED
    BY <1>1, <2>1 DEF Data
<1>4. CASE e.payload.kind \notin {"normal", "membership"}
  <2>1. ApplyEntry(data, i, e) = moved
    BY <1>4 DEF ApplyEntry
  <2>2. QED
    BY <1>1, <2>1
<1>5. QED
  BY <1>2, <1>3, <1>4

LEMMA EmptyDataTyped == /\ EmptyData \in Data /\ EmptyData.last_applied = 0
                        /\ NoSnapshot \in Data /\ NoSnapshot.last_applied = 0
<1>1. EmptyState \in ClusterState
  BY DEF EmptyState, ClusterState, AnyLease
<1>2. [EmptyState EXCEPT !.generation = 1] \in ClusterState
  BY <1>1 DEF ClusterState
<1>3. 0 \in Index
  BY StorageAssumption DEF Index
<1>4. QED
  BY <1>1, <1>2, <1>3 DEF EmptyData, NoSnapshot, Data

(* A replay is a typed document at the position it was replayed to.        *)
LEMMA ReplayedTyped ==
  ASSUME NEW log \in Seq(Entry), NEW k \in Index, k <= Len(log)
  PROVE  Replayed(log, k) \in Data /\ Replayed(log, k).last_applied = k
<1> DEFINE S == {i \in Nat : i \in Index /\ i <= Len(log) =>
                   /\ Replayed(log, i) \in Data
                   /\ Replayed(log, i).last_applied = i}
<1>1. 0 \in S
  BY ReplayedSteps, EmptyDataTyped
<1>2. ASSUME NEW i \in Nat, i \in S
      PROVE  i + 1 \in S
  <2>1. CASE i + 1 \in Index /\ i + 1 <= Len(log)
    <3>1. i \in Index /\ i <= Len(log)
      BY <2>1, StorageAssumption DEF Index
    <3>2. log[i + 1] \in Entry
      BY <2>1
    <3>3. Replayed(log, i) \in Data
      BY <1>2, <3>1
    <3>4. Replayed(log, i + 1) = ApplyEntry(Replayed(log, i), i + 1, log[i + 1])
      BY ReplayedSteps
    <3>5. /\ Replayed(log, i + 1) \in Data
          /\ Replayed(log, i + 1).last_applied = i + 1
      BY <2>1, <3>2, <3>3, <3>4, EntryTyped
    <3>6. QED
      BY <3>5
  <2>2. QED
    BY <2>1
<1> HIDE DEF S
<1>3. \A i \in Nat : i >= 0 => i \in S
  BY <1>1, <1>2, SetInduction
<1>4. QED
  BY <1>3 DEF S, Index

-----------------------------------------------------------------------------
(* Operators on the rows of the log.                                       *)
LEMMA LastRow ==
  ASSUME NEW d, NEW m \in Nat, d.last_purged \in Nat, d.last_purged <= m,
         DOMAIN d.logs = d.last_purged + 1 .. m
  PROVE  LastLog(d) = m
<1>1. CASE d.last_purged = m
  BY <1>1 DEF LastLog
<1>2. CASE d.last_purged < m
  <2>1. m \in DOMAIN d.logs /\ \A j \in DOMAIN d.logs : j <= m
    BY <1>2
  <2>2. \A i \in DOMAIN d.logs : (\A j \in DOMAIN d.logs : j <= i) => i = m
    BY <2>1
  <2>3. DOMAIN d.logs # {}
    BY <2>1
  <2>4. QED
    BY <2>1, <2>2, <2>3 DEF LastLog
<1>3. QED
  BY <1>1, <1>2

Logs == UNION {[rows -> Entry] : rows \in SUBSET (1 .. MaxIndex)}

LEMMA LogsType ==
  ASSUME NEW logs \in Logs
  PROVE  /\ DOMAIN logs \subseteq 1 .. MaxIndex
         /\ logs = [i \in DOMAIN logs |-> logs[i]]
         /\ \A i \in DOMAIN logs : logs[i] \in Entry
BY DEF Logs

LEMMA LogsTyped ==
  ASSUME NEW rows \in SUBSET (1 .. MaxIndex), NEW f \in [rows -> Entry]
  PROVE  f \in Logs
BY DEF Logs

LEMMA KeepTyped ==
  ASSUME NEW logs \in Logs, NEW kept
  PROVE  /\ Keep(logs, kept) \in Logs
         /\ DOMAIN Keep(logs, kept) = DOMAIN logs \cap kept
         /\ \A i \in DOMAIN logs \cap kept : Keep(logs, kept)[i] = logs[i]
<1>1. Keep(logs, kept) \in [DOMAIN logs \cap kept -> Entry]
  BY LogsType DEF Keep
<1>2. DOMAIN logs \cap kept \in SUBSET (1 .. MaxIndex)
  BY LogsType
<1>3. QED
  BY <1>1, <1>2, LogsTyped DEF Keep

LEMMA InsertedTyped ==
  ASSUME NEW logs \in Logs, NEW last \in Index,
         NEW n \in Nat, NEW batch \in [1 .. n -> Entry], last + n <= MaxIndex
  PROVE  /\ Len(batch) = n
         /\ Inserted(logs, last, batch) \in Logs
         /\ DOMAIN Inserted(logs, last, batch) = DOMAIN logs \cup (last + 1 .. last + n)
         /\ \A i \in DOMAIN logs : Inserted(logs, last, batch)[i] = logs[i]
<1>1. Len(batch) = n
  <2>1. batch \in Seq(Entry) /\ DOMAIN batch = 1 .. n
    OBVIOUS
  <2>2. QED
    BY <2>1
<1> DEFINE rows == DOMAIN logs \cup (last + 1 .. last + n)
<1>2. rows \in SUBSET (1 .. MaxIndex)
  BY LogsType, StorageAssumption DEF Index
<1>3. \A i \in last + 1 .. last + n : i - last \in 1 .. n
  BY DEF Index
<1>4. Inserted(logs, last, batch) \in [rows -> Entry]
  BY <1>1, <1>3, LogsType DEF Inserted
<1>5. QED
  BY <1>1, <1>2, <1>4, LogsTyped DEF Inserted

(* The types the steps below start from.                                   *)
LEMMA Types ==
  ASSUME TypeOK
  PROVE  /\ disk.vote \in Vote /\ disk.committed \in Index
         /\ disk.last_purged \in Index /\ disk.logs \in Logs
         /\ disk.state_machine \in Data /\ disk.snapshot \in Data
         /\ Applied \in Index /\ disk.snapshot.last_applied \in Index
         /\ mem.vote \in Vote /\ mem.committed \in Index /\ mem.data \in Data
         /\ mem.snapped \in Index /\ mem.builder \in Data
         /\ mem.data.last_applied \in Index /\ mem.builder.last_applied \in Index
         /\ mem.building \in BOOLEAN /\ mem.installing \in BOOLEAN
         /\ MaxIndex \in Nat /\ Len(chosen) \in Index
<1>1. disk \in Disk /\ mem \in Memory /\ chosen \in Seq(Entry)
  BY DEF TypeOK
<1>2. Len(chosen) \in Index /\ MaxIndex \in Nat
  BY StorageAssumption DEF TypeOK, Index
<1>3. /\ disk.state_machine \in Data /\ disk.snapshot \in Data
      /\ mem.data \in Data /\ mem.builder \in Data
  BY <1>1 DEF Disk, Memory
<1>4. QED
  BY <1>1, <1>2, <1>3 DEF Disk, Memory, Data, Logs, Applied

-----------------------------------------------------------------------------
(* apply: the entries it reads are the agreed ones, so that what it        *)
(* persists is the replay.                                                 *)
LEMMA ApplyReplays ==
  ASSUME IInv, NEW k \in Index, Applied <= k,
         k <= disk.committed \/ (up /\ k <= mem.committed)
  PROVE  ApplyUpTo(disk.state_machine, disk.logs, k) = Replayed(chosen, k)
<1>1. Applied \in Nat /\ k \in Nat
  BY Types DEF IInv, Index
<1>2. ASSUME NEW i \in Applied + 1 .. k
      PROVE  disk.logs[i] = chosen[i]
  BY <1>1, <1>2, Types DEF IInv, KeptInv, Kept, Index
<1>3. disk.state_machine = Replayed(chosen, Applied)
  BY DEF IInv, ReplayInv
<1>4. QED
  BY <1>1, <1>2, <1>3, ApplyUpToReplays DEF Applied

LEMMA ApplyFacts ==
  ASSUME IInv, NEW k \in Index, Apply(k)
  PROVE  /\ up /\ Applied < k /\ k <= mem.committed /\ k \in DOMAIN disk.logs
         /\ disk' = [disk EXCEPT !.state_machine = Replayed(chosen, k)]
         /\ mem' = [mem EXCEPT !.data = Replayed(chosen, k)]
         /\ Replayed(chosen, k) \in Data /\ Replayed(chosen, k).last_applied = k
         /\ answered' = k
         /\ UNCHANGED <<up, chosen, granted, lag, crashes>>
<1>1. up /\ mem.data = disk.state_machine /\ Applied < k /\ k <= mem.committed
  BY DEF Apply, IInv, OrderInv, Applied
<1>2. k <= Len(chosen) /\ chosen \in Seq(Entry)
  BY <1>1, Types DEF IInv, OrderInv, Index, TypeOK
<1>3. k \in DOMAIN disk.logs
  BY <1>1, Types DEF IInv, KeptInv, Kept, Index
<1>4. ApplyUpTo(mem.data, disk.logs, k) = Replayed(chosen, k)
  BY <1>1, Types, ApplyReplays DEF IInv, Index
<1>5. QED
  BY <1>1, <1>2, <1>3, <1>4, ReplayedTyped DEF Apply, Persist

(* install_snapshot's first write: the document is ahead of everything     *)
(* this node has applied.                                                  *)
LEMMA InstallFacts ==
  ASSUME IInv, NEW k \in Index, InstallSnapshot(k)
  PROVE  /\ up /\ Applied < k /\ mem.committed < k /\ k <= Len(chosen)
         /\ disk' = [disk EXCEPT !.state_machine = Replayed(chosen, k)]
         /\ mem' = [mem EXCEPT !.data = Replayed(chosen, k), !.committed = k,
                               !.installing = TRUE]
         /\ Replayed(chosen, k) \in Data /\ Replayed(chosen, k).last_applied = k
         /\ \A i \in DOMAIN disk.logs : i <= k => disk.logs[i] = chosen[i]
         /\ UNCHANGED <<up, chosen, granted, answered, lag, crashes>>
<1>1. k <= Len(chosen) /\ chosen \in Seq(Entry)
  BY DEF InstallSnapshot, IInv, TypeOK
<1>2. Replayed(chosen, k) \in Data /\ Replayed(chosen, k).last_applied = k
  BY <1>1, ReplayedTyped
<1>3. up /\ Applied < k /\ mem.committed < k
  BY Types DEF InstallSnapshot, IInv, OrderInv, Index
<1>4. QED
  BY <1>1, <1>2, <1>3 DEF InstallSnapshot, history

(* The same two steps, field by field.                                     *)
LEMMA ApplyFields ==
  ASSUME IInv, NEW k \in Index, Apply(k)
  PROVE  /\ Applied' = k /\ disk'.state_machine = Replayed(chosen, k)
         /\ mem'.data = disk'.state_machine
         /\ disk'.logs = disk.logs /\ disk'.last_purged = disk.last_purged
         /\ disk'.committed = disk.committed /\ disk'.snapshot = disk.snapshot
         /\ mem'.committed = mem.committed /\ mem'.snapped = mem.snapped
         /\ mem'.builder = mem.builder /\ mem'.building = mem.building
         /\ mem'.installing = mem.installing
<1>1. disk \in Disk /\ mem \in Memory
  BY DEF IInv, TypeOK
<1>2. /\ disk' = [disk EXCEPT !.state_machine = Replayed(chosen, k)]
      /\ mem' = [mem EXCEPT !.data = Replayed(chosen, k)]
      /\ Replayed(chosen, k).last_applied = k
  BY ApplyFacts
<1>3. QED
  BY <1>1, <1>2 DEF Applied, Disk, Memory

LEMMA InstallFields ==
  ASSUME IInv, NEW k \in Index, InstallSnapshot(k)
  PROVE  /\ Applied' = k /\ disk'.state_machine = Replayed(chosen, k)
         /\ mem'.data = disk'.state_machine
         /\ disk'.logs = disk.logs /\ disk'.last_purged = disk.last_purged
         /\ disk'.committed = disk.committed /\ disk'.snapshot = disk.snapshot
         /\ mem'.committed = k /\ mem'.snapped = mem.snapped
         /\ mem'.builder = mem.builder /\ mem'.building = mem.building
         /\ mem'.installing = TRUE
<1>1. disk \in Disk /\ mem \in Memory
  BY DEF IInv, TypeOK
<1>2. /\ disk' = [disk EXCEPT !.state_machine = Replayed(chosen, k)]
      /\ mem' = [mem EXCEPT !.data = Replayed(chosen, k), !.committed = k,
                            !.installing = TRUE]
      /\ Replayed(chosen, k).last_applied = k
  BY InstallFacts
<1>3. QED
  BY <1>1, <1>2 DEF Applied, Disk, Memory

(* A start: the state machine is the replay of everything committed or     *)
(* installed, and a log that ended before it is purged up to it.           *)
LEMMA RestartFacts ==
  ASSUME IInv, Restart
  PROVE  \E c \in Index :
           /\ ~up /\ up' /\ mem' = Loaded(disk')
           /\ Applied <= c /\ disk.committed <= c /\ c <= Len(chosen)
           /\ c = Applied \/ (c = disk.committed /\ c \in DOMAIN disk.logs)
           /\ Replayed(chosen, c) \in Data /\ Replayed(chosen, c).last_applied = c
           /\ disk' \in Disk /\ disk'.vote = disk.vote /\ disk'.committed = c
           /\ disk'.state_machine = Replayed(chosen, c)
           /\ \/ /\ c <= LastLog(disk)
                 /\ disk'.last_purged = disk.last_purged
                 /\ disk'.logs = disk.logs
              \/ /\ LastLog(disk) < c
                 /\ disk'.last_purged = c
                 /\ disk'.logs = Keep(disk.logs, c + 1 .. MaxIndex)
           /\ \/ disk'.snapshot = disk.snapshot
              \/ /\ disk.snapshot = NoSnapshot /\ disk'.last_purged > 0
                 /\ disk'.snapshot = Replayed(chosen, c)
           /\ UNCHANGED <<chosen, granted, answered, lag, crashes>>
<1> DEFINE c == IF disk.committed > Applied THEN disk.committed ELSE Applied
           applied == IF disk.committed > disk.state_machine.last_applied
                      THEN ApplyUpTo(disk.state_machine, disk.logs, disk.committed)
                      ELSE disk.state_machine
           clean == IF LastLog(disk) < applied.last_applied
                    THEN Purged(disk, applied.last_applied) ELSE disk
           loaded == [clean EXCEPT
                        !.state_machine = applied,
                        !.committed = IF @ < applied.last_applied
                                      THEN applied.last_applied ELSE @,
                        !.snapshot = IF clean.last_purged > 0 /\ @ = NoSnapshot
                                     THEN applied ELSE @]
<1>1. /\ ~up /\ up' /\ disk' = loaded /\ mem' = Loaded(loaded)
      /\ UNCHANGED <<chosen, granted, answered, lag, crashes>>
  BY DEF Restart, history
<1>2. /\ c \in Index /\ c <= Len(chosen) /\ chosen \in Seq(Entry)
      /\ Applied <= c /\ disk.committed <= c
  BY Types DEF IInv, OrderInv, TypeOK, Index
<1>3. applied = Replayed(chosen, c)
  <2>1. CASE disk.committed > Applied
    BY <2>1, Types, ApplyReplays DEF IInv, Applied, Index
  <2>2. CASE ~(disk.committed > Applied)
    BY <2>2 DEF IInv, ReplayInv, Applied
  <2>3. QED
    BY <2>1, <2>2
<1>4. Replayed(chosen, c) \in Data /\ Replayed(chosen, c).last_applied = c
  BY <1>2, ReplayedTyped
<1>5. c = Applied \/ (c = disk.committed /\ c \in DOMAIN disk.logs)
  BY Types DEF IInv, KeptInv, Kept, Index
<1> HIDE DEF c, applied
<1>6. applied.last_applied = c
  BY <1>3, <1>4
<1>7. disk \in Disk /\ LastLog(disk) \in Nat /\ c \in Nat
  BY <1>2, Types DEF IInv, TypeOK, RowsInv, Index
<1>8. /\ clean \in Disk /\ clean.vote = disk.vote
      /\ clean.committed = disk.committed /\ clean.snapshot = disk.snapshot
      /\ \/ /\ c <= LastLog(disk)
            /\ clean.last_purged = disk.last_purged /\ clean.logs = disk.logs
         \/ /\ LastLog(disk) < c
            /\ clean.last_purged = c
            /\ clean.logs = Keep(disk.logs, c + 1 .. MaxIndex)
  <2>1. CASE LastLog(disk) < c
    <3>1. clean = [disk EXCEPT !.last_purged = c,
                               !.logs = Keep(disk.logs, c + 1 .. MaxIndex)]
      BY <1>6, <2>1 DEF Purged
    <3>2. Keep(disk.logs, c + 1 .. MaxIndex) \in Logs
      BY Types, KeepTyped DEF IInv
    <3>3. QED
      BY <1>2, <1>7, <2>1, <3>1, <3>2 DEF Disk, Logs
  <2>2. CASE ~(LastLog(disk) < c)
    BY <1>6, <1>7, <2>2
  <2>3. QED
    BY <2>1, <2>2
<1> HIDE DEF clean
<1> DEFINE snap == IF clean.last_purged > 0 /\ clean.snapshot = NoSnapshot
                   THEN applied ELSE clean.snapshot
<1>9. loaded = [clean EXCEPT !.state_machine = applied, !.committed = c,
                             !.snapshot = snap]
  <2>1. (IF clean.committed < applied.last_applied
         THEN applied.last_applied ELSE clean.committed) = c
    BY <1>2, <1>6, <1>8, Types DEF IInv, Index
  <2>2. QED
    BY <2>1
<1>10. applied \in Data /\ snap \in Data
  BY <1>3, <1>4, <1>8 DEF Disk
<1> HIDE DEF snap, loaded
<1>11. /\ loaded \in Disk /\ loaded.vote = clean.vote
       /\ loaded.last_purged = clean.last_purged /\ loaded.logs = clean.logs
       /\ loaded.committed = c /\ loaded.state_machine = applied
       /\ loaded.snapshot = snap
  BY <1>2, <1>8, <1>9, <1>10 DEF Disk
<1>12. QED
  BY <1>1, <1>2, <1>3, <1>4, <1>5, <1>8, <1>11 DEF snap
-----------------------------------------------------------------------------
LEMMA LoadedTyped ==
  ASSUME NEW d \in Disk
  PROVE  Loaded(d) \in Memory
<1>1. d.state_machine \in Data /\ d.snapshot \in Data /\ NoSnapshot \in Data
  BY EmptyDataTyped DEF Disk
<1>2. QED
  BY <1>1 DEF Loaded, Memory, Disk, Data

LEMMA FreshDiskTyped == FreshDisk \in Disk
<1>1. <<>> \in Logs
  BY LogsTyped DEF Logs
<1>2. [term |-> 0, node |-> NoNode] \in Vote
  BY StorageAssumption DEF Vote
<1>3. 0 \in Index
  BY StorageAssumption DEF Index
<1>4. QED
  BY <1>1, <1>2, <1>3, EmptyDataTyped DEF FreshDisk, Disk, Logs

(* Each write keeps the file and the memory typed.                         *)
LEMMA TypeStep ==
  ASSUME IInv, [Next]_vars
  PROVE  TypeOK'
<1>0. TypeOK /\ disk \in Disk /\ mem \in Memory
  BY DEF IInv, TypeOK
<1>1. CASE UNCHANGED vars
  BY <1>0, <1>1 DEF TypeOK, vars
<1>2. ASSUME NEW e \in Entry, Choose(e)
      PROVE  TypeOK'
  <2>1. chosen' \in Seq(Entry) /\ Len(chosen') <= MaxIndex
    BY <1>0, <1>2, StorageAssumption DEF TypeOK, Choose
  <2>2. QED
    BY <1>0, <1>2, <2>1 DEF TypeOK, Choose
<1>3. ASSUME NEW v \in Vote, GrantVote(v)
      PROVE  TypeOK'
  <2>1. disk' \in Disk /\ mem' \in Memory
    BY <1>0, <1>3 DEF GrantVote, SaveVote, Disk, Memory
  <2>2. QED
    BY <1>0, <1>3, <2>1 DEF TypeOK, GrantVote
<1>4. ASSUME NEW n \in 1 .. MaxBatch, NEW batch \in [1 .. n -> Entry],
             AppendEntries(batch)
      PROVE  TypeOK'
  <2>1. n \in Nat /\ LastLog(disk) \in Index
    BY <1>0, Types, StorageAssumption DEF IInv, RowsInv, Index
  <2>2. Len(batch) = n
    OBVIOUS
  <2>3. Inserted(disk.logs, LastLog(disk), batch) \in Logs
    BY <1>0, <1>4, <2>1, <2>2, Types, InsertedTyped DEF AppendEntries
  <2>4. disk' \in Disk
    BY <1>0, <1>4, <2>3 DEF AppendEntries, Disk, Logs
  <2>5. QED
    BY <1>0, <1>4, <2>4 DEF TypeOK, AppendEntries, history
<1>5. ASSUME NEW i \in Index, Truncate(i)
      PROVE  TypeOK'
  <2>1. Keep(disk.logs, 0 .. i - 1) \in Logs
    BY <1>0, Types, KeepTyped
  <2>2. disk' \in Disk
    BY <1>0, <1>5, <2>1 DEF Truncate, Disk, Logs
  <2>3. QED
    BY <1>0, <1>5, <2>2 DEF TypeOK, Truncate, history
<1>6. ASSUME NEW i \in Index, SaveCommitted(i)
      PROVE  TypeOK'
  <2>1. disk' \in Disk /\ mem' \in Memory
    BY <1>0, <1>6 DEF SaveCommitted, Disk, Memory
  <2>2. QED
    BY <1>0, <1>6, <2>1 DEF TypeOK, SaveCommitted, history
<1>7. ASSUME NEW i \in Index, Purge(i)
      PROVE  TypeOK'
  <2>1. Keep(disk.logs, i + 1 .. MaxIndex) \in Logs
    BY <1>0, Types, KeepTyped
  <2>2. disk' \in Disk
    BY <1>0, <1>7, <2>1 DEF Purge, Purged, Disk, Logs
  <2>3. QED
    BY <1>0, <1>7, <2>2 DEF TypeOK, Purge, history
<1>8. ASSUME NEW k \in Index, Apply(k)
      PROVE  TypeOK'
  <2>1. disk' \in Disk /\ mem' \in Memory /\ answered' \in Index
    BY <1>0, <1>8, ApplyFacts DEF Disk, Memory
  <2>2. QED
    BY <1>0, <1>8, <2>1, ApplyFacts DEF TypeOK
<1>9. ASSUME NEW k \in Index, InstallSnapshot(k)
      PROVE  TypeOK'
  <2>1. disk' \in Disk
    BY <1>0, <1>9, InstallFacts DEF Disk
  <2>2. mem' \in Memory
    <3>1. /\ mem' = [mem EXCEPT !.data = Replayed(chosen, k), !.committed = k,
                                !.installing = TRUE]
          /\ Replayed(chosen, k) \in Data
      BY <1>9, InstallFacts
    <3>2. QED
      BY <1>0, <3>1 DEF Memory
  <2>3. QED
    BY <1>0, <1>9, <2>1, <2>2, InstallFacts DEF TypeOK
<1>10. CASE GetSnapshotBuilder
  <2>1. mem' \in Memory
    BY <1>0, <1>10 DEF GetSnapshotBuilder, Memory
  <2>2. QED
    BY <1>0, <1>10, <2>1 DEF TypeOK, GetSnapshotBuilder, history
<1>11. CASE BuildSnapshot
  <2>1. disk' \in Disk
    BY <1>0, <1>11 DEF BuildSnapshot, Disk, Memory
  <2>2. mem' \in Memory
    BY <1>0, <1>11, Types, EmptyDataTyped DEF BuildSnapshot, Memory
  <2>3. lag' \in BOOLEAN
    BY <1>11 DEF BuildSnapshot
  <2>4. QED
    BY <1>0, <1>11, <2>1, <2>2, <2>3 DEF TypeOK, BuildSnapshot
<1>12. CASE FinishInstall
  <2>1. disk' \in Disk
    BY <1>0, <1>12 DEF FinishInstall, StoreInstalled, Disk, Memory
  <2>2. mem' \in Memory
    BY <1>0, <1>12, Types DEF FinishInstall, Memory
  <2>3. lag' \in BOOLEAN
    BY <1>12 DEF FinishInstall
  <2>4. QED
    BY <1>0, <1>12, <2>1, <2>2, <2>3 DEF TypeOK, FinishInstall
<1>13. CASE Crash
  <2>1. mem' \in Memory
    BY <1>13, FreshDiskTyped, LoadedTyped DEF Crash
  <2>2. crashes' \in 0 .. MaxCrashes
    BY <1>0, <1>13, StorageAssumption DEF TypeOK, Crash
  <2>3. lag' \in BOOLEAN /\ up' \in BOOLEAN
    BY <1>13 DEF Crash
  <2>4. QED
    BY <1>0, <1>13, <2>1, <2>2, <2>3 DEF TypeOK, Crash
<1>14. CASE Restart
  <2>1. disk' \in Disk /\ mem' = Loaded(disk') /\ up' \in BOOLEAN
    BY <1>14, RestartFacts DEF Restart
  <2>2. mem' \in Memory
    BY <2>1, LoadedTyped
  <2>3. QED
    BY <1>0, <1>14, <2>1, <2>2 DEF TypeOK, Restart, history
<1>15. QED
  BY <1>1, <1>2, <1>3, <1>4, <1>5, <1>6, <1>7, <1>8, <1>9, <1>10, <1>11,
     <1>12, <1>13, <1>14 DEF Next

(* A vote that was answered is in the file, and the file is what the next  *)
(* vote is compared with, before and after a death.                        *)
LEMMA VotesStep ==
  ASSUME IInv, [Next]_vars
  PROVE  VotesInv'
<1>0. VotesInv /\ disk \in Disk /\ mem \in Memory /\ granted \subseteq Vote
  BY DEF IInv, TypeOK
<1>1. ASSUME NEW v \in Vote, GrantVote(v)
      PROVE  VotesInv'
  <2>1. up /\ up' /\ mem.vote = disk.vote
    BY <1>0, <1>1 DEF GrantVote, VotesInv
  <2>2. disk'.vote = v /\ mem'.vote = v
    BY <1>0, <1>1 DEF GrantVote, SaveVote, Disk, Memory
  <2>3. v.term \in Nat /\ disk.vote.term \in Nat /\ \A w \in granted : w.term \in Nat
    BY <1>0, StorageAssumption DEF Vote, Disk
  <2>4. v.term > disk.vote.term \/ v = disk.vote
    BY <1>1, <2>1 DEF GrantVote
  <2>5. \A w \in granted : w.term <= v.term /\ (w.term = v.term => w = v)
    BY <1>0, <2>3, <2>4 DEF VotesInv
  <2>6. granted' = granted \cup {v}
    BY <1>1 DEF GrantVote
  <2>7. \A w \in granted' : w.term <= v.term /\ (w.term = v.term => w = v)
    BY <2>3, <2>5, <2>6
  <2>8. VotesOnce'
    BY <1>0, <2>5, <2>6 DEF VotesInv, VotesOnce
  <2>9. QED
    BY <2>2, <2>7, <2>8 DEF VotesInv
<1>2. CASE Crash
  BY <1>0, <1>2 DEF Crash, VotesInv, VotesOnce
<1>3. CASE Restart
  <2>1. disk'.vote = disk.vote /\ mem'.vote = disk'.vote /\ granted' = granted
    BY <1>3, RestartFacts DEF Loaded
  <2>2. QED
    BY <1>0, <2>1 DEF VotesInv, VotesOnce
<1>4. ASSUME /\ disk'.vote = disk.vote /\ mem'.vote = mem.vote
             /\ UNCHANGED <<up, granted>>
      PROVE  VotesInv'
  BY <1>0, <1>4 DEF VotesInv, VotesOnce
<1>5. CASE UNCHANGED vars
  BY <1>4, <1>5 DEF vars
<1>6. ASSUME NEW e \in Entry, Choose(e)
      PROVE  VotesInv'
  BY <1>4, <1>6 DEF Choose
<1>7. ASSUME NEW n \in 1 .. MaxBatch, NEW batch \in [1 .. n -> Entry],
             AppendEntries(batch)
      PROVE  VotesInv'
  BY <1>0, <1>4, <1>7 DEF AppendEntries, Disk, history
<1>8. ASSUME NEW i \in Index, Truncate(i) \/ SaveCommitted(i) \/ Purge(i)
      PROVE  VotesInv'
  BY <1>0, <1>4, <1>8
  DEF Truncate, SaveCommitted, Purge, Purged, Disk, Memory, history
<1>9. ASSUME NEW i \in Index, Apply(i) \/ InstallSnapshot(i)
      PROVE  VotesInv'
  BY <1>0, <1>4, <1>9 DEF Apply, Persist, InstallSnapshot, Disk, Memory, history
<1>10. CASE GetSnapshotBuilder \/ BuildSnapshot \/ FinishInstall
  BY <1>0, <1>4, <1>10
  DEF GetSnapshotBuilder, BuildSnapshot, FinishInstall, StoreInstalled, Disk,
      Memory, history
<1>11. QED
  BY <1>1, <1>2, <1>3, <1>5, <1>6, <1>7, <1>8, <1>9, <1>10 DEF Next
-----------------------------------------------------------------------------
(* What the actions that write rows make of them.                          *)
LEMMA AppendFacts ==
  ASSUME IInv, NEW n \in 1 .. MaxBatch, NEW batch \in [1 .. n -> Entry],
         AppendEntries(batch)
  PROVE  /\ LastLog(disk') = LastLog(disk) + n /\ LastLog(disk') <= MaxIndex
         /\ disk' = [disk EXCEPT !.logs = disk'.logs]
         /\ DOMAIN disk'.logs = disk.last_purged + 1 .. LastLog(disk')
         /\ \A i \in DOMAIN disk.logs : disk'.logs[i] = disk.logs[i]
         /\ UNCHANGED <<up, mem, chosen, granted, answered, lag, crashes>>
<1> DEFINE last == LastLog(disk)
<1>1. /\ n \in Nat /\ last \in Index /\ disk \in Disk /\ disk.logs \in Logs
      /\ disk.last_purged \in Nat /\ disk.last_purged <= last
      /\ DOMAIN disk.logs = disk.last_purged + 1 .. last
  BY Types, StorageAssumption DEF IInv, TypeOK, RowsInv, Index
<1>2. Len(batch) = n
  OBVIOUS
<1>3. /\ last + n <= MaxIndex
      /\ disk' = [disk EXCEPT !.logs = Inserted(disk.logs, last, batch)]
      /\ UNCHANGED <<up, mem, chosen, granted, answered, lag, crashes>>
  BY <1>2 DEF AppendEntries, history
<1>4. disk'.logs = Inserted(disk.logs, last, batch)
        /\ disk'.last_purged = disk.last_purged
  BY <1>1, <1>3 DEF Disk
<1>5. /\ DOMAIN disk'.logs = DOMAIN disk.logs \cup (last + 1 .. last + n)
      /\ \A i \in DOMAIN disk.logs : disk'.logs[i] = disk.logs[i]
  <2>1. /\ DOMAIN Inserted(disk.logs, last, batch)
             = DOMAIN disk.logs \cup (last + 1 .. last + n)
        /\ \A i \in DOMAIN disk.logs :
             Inserted(disk.logs, last, batch)[i] = disk.logs[i]
    BY <1>2 DEF Inserted
  <2>2. QED
    BY <1>4, <2>1
<1>6. DOMAIN disk'.logs = disk.last_purged + 1 .. last + n
  BY <1>1, <1>5 DEF Index
<1>7. LastLog(disk') = last + n
  <2>1. /\ last + n \in Nat /\ disk'.last_purged \in Nat
        /\ disk'.last_purged <= last + n
        /\ DOMAIN disk'.logs = disk'.last_purged + 1 .. last + n
    BY <1>1, <1>4, <1>6 DEF Index
  <2>2. QED
    BY <2>1, LastRow, Zenon
<1>8. QED
  BY <1>3, <1>4, <1>5, <1>6, <1>7

LEMMA TruncateFacts ==
  ASSUME IInv, NEW i \in Index, Truncate(i)
  PROVE  /\ up /\ mem.committed < i /\ LastLog(disk') = i - 1
         /\ disk' = [disk EXCEPT !.logs = disk'.logs]
         /\ disk.last_purged < i /\ i <= LastLog(disk)
         /\ DOMAIN disk'.logs = disk.last_purged + 1 .. i - 1
         /\ \A j \in DOMAIN disk'.logs : disk'.logs[j] = disk.logs[j]
         /\ UNCHANGED <<up, mem, chosen, granted, answered, lag, crashes>>
<1>1. /\ i \in Nat /\ LastLog(disk) \in Nat /\ disk \in Disk /\ disk.logs \in Logs
      /\ disk.last_purged \in Nat
      /\ DOMAIN disk.logs = disk.last_purged + 1 .. LastLog(disk)
  BY Types DEF IInv, TypeOK, RowsInv, Index
<1>2. /\ up /\ mem.committed < i /\ i \in DOMAIN disk.logs
      /\ disk' = [disk EXCEPT !.logs = Keep(disk.logs, 0 .. i - 1)]
      /\ UNCHANGED <<up, mem, chosen, granted, answered, lag, crashes>>
  BY Types DEF Truncate, history, IInv, Index
<1>3. disk'.logs = Keep(disk.logs, 0 .. i - 1)
        /\ disk'.last_purged = disk.last_purged
  BY <1>1, <1>2 DEF Disk
<1>4. /\ DOMAIN disk'.logs = DOMAIN disk.logs \cap (0 .. i - 1)
      /\ \A j \in DOMAIN disk'.logs : disk'.logs[j] = disk.logs[j]
  <2>1. /\ DOMAIN Keep(disk.logs, 0 .. i - 1) = DOMAIN disk.logs \cap (0 .. i - 1)
        /\ \A j \in DOMAIN disk.logs \cap (0 .. i - 1) :
             Keep(disk.logs, 0 .. i - 1)[j] = disk.logs[j]
    BY <1>1, KeepTyped, Zenon
  <2>2. QED
    BY <1>3, <2>1
<1>5. DOMAIN disk'.logs = disk.last_purged + 1 .. i - 1
  <2>1. \A j : j \in DOMAIN disk'.logs <=> j \in disk.last_purged + 1 .. i - 1
    BY <1>1, <1>2, <1>4
  <2>2. QED
    BY <2>1, Zenon
<1>6. LastLog(disk') = i - 1
  <2>1. i - 1 \in Nat /\ disk.last_purged <= i - 1
    BY <1>1, <1>2
  <2>2. QED
    BY <1>1, <1>3, <1>5, <2>1, LastRow
<1>7. QED
  BY <1>1, <1>2, <1>3, <1>4, <1>5, <1>6

(* Purging up to i leaves the rows behind i, or none when the log ends     *)
(* before.                                                                 *)
LEMMA PurgedRows ==
  ASSUME IInv, NEW i \in Index, disk.last_purged <= i, NEW d,
         d.last_purged = i, d.logs = Keep(disk.logs, i + 1 .. MaxIndex)
  PROVE  /\ LastLog(d) = IF i < LastLog(disk) THEN LastLog(disk) ELSE i
         /\ DOMAIN d.logs = i + 1 .. LastLog(d)
         /\ \A j \in DOMAIN d.logs : j \in DOMAIN disk.logs /\ d.logs[j] = disk.logs[j]
<1> DEFINE m == IF i < LastLog(disk) THEN LastLog(disk) ELSE i
<1>1. /\ i \in Nat /\ LastLog(disk) \in Nat /\ disk.logs \in Logs
      /\ LastLog(disk) <= MaxIndex /\ MaxIndex \in Nat
      /\ disk.last_purged \in Nat
      /\ DOMAIN disk.logs = disk.last_purged + 1 .. LastLog(disk)
  BY Types, SMTT(30) DEF IInv, TypeOK, RowsInv, Index
<1>2. /\ DOMAIN d.logs = DOMAIN disk.logs \cap (i + 1 .. MaxIndex)
      /\ \A j \in DOMAIN d.logs : d.logs[j] = disk.logs[j]
  <2>1. /\ DOMAIN Keep(disk.logs, i + 1 .. MaxIndex) = DOMAIN disk.logs \cap (i + 1 .. MaxIndex)
        /\ \A j \in DOMAIN disk.logs \cap (i + 1 .. MaxIndex) :
             Keep(disk.logs, i + 1 .. MaxIndex)[j] = disk.logs[j]
    BY <1>1, KeepTyped, Zenon
  <2>2. QED
    BY <2>1
<1>3. DOMAIN d.logs = i + 1 .. m /\ m \in Nat /\ i <= m
  <2>1. m \in Nat /\ i <= m
    BY <1>1
  <2>2. \A j : j \in DOMAIN d.logs <=> j \in i + 1 .. m
    BY <1>1, <1>2
  <2>3. QED
    BY <2>1, <2>2, Zenon
<1>4. LastLog(d) = m
  BY <1>1, <1>3, LastRow
<1>5. QED
  BY <1>2, <1>3, <1>4

LEMMA PurgeFacts ==
  ASSUME IInv, NEW i \in Index, Purge(i)
  PROVE  /\ up /\ disk.last_purged < i /\ i <= mem.snapped
         /\ disk' = [disk EXCEPT !.last_purged = i, !.logs = disk'.logs]
         /\ LastLog(disk') = IF i < LastLog(disk) THEN LastLog(disk) ELSE i
         /\ DOMAIN disk'.logs = i + 1 .. LastLog(disk')
         /\ \A j \in DOMAIN disk'.logs :
              j \in DOMAIN disk.logs /\ disk'.logs[j] = disk.logs[j]
         /\ UNCHANGED <<up, mem, chosen, granted, answered, lag, crashes>>
<1>1. /\ up /\ disk.last_purged < i /\ i <= mem.snapped
      /\ disk' = [disk EXCEPT !.last_purged = i,
                              !.logs = Keep(disk.logs, i + 1 .. MaxIndex)]
      /\ UNCHANGED <<up, mem, chosen, granted, answered, lag, crashes>>
  BY DEF Purge, Purged, history
<1>2. disk \in Disk /\ disk.last_purged <= i
  BY <1>1, Types DEF IInv, TypeOK, Index
<1>3. disk'.last_purged = i /\ disk'.logs = Keep(disk.logs, i + 1 .. MaxIndex)
  BY <1>1, <1>2 DEF Disk
<1>4. QED
  BY <1>1, <1>2, <1>3, PurgedRows

(* A start leaves the rows, or none when the log ended before what was     *)
(* applied.                                                                *)
LEMMA RestartRows ==
  ASSUME IInv, Restart
  PROVE  /\ Applied' <= LastLog(disk')
         /\ LastLog(disk') \in disk'.last_purged .. MaxIndex
         /\ DOMAIN disk'.logs = disk'.last_purged + 1 .. LastLog(disk')
         /\ disk'.last_purged <= Applied'
         /\ \A j \in DOMAIN disk'.logs : disk'.logs[j] = disk.logs[j]
         /\ \A j \in DOMAIN disk.logs : j > Applied' => j \in DOMAIN disk'.logs
<1>1. PICK c \in Index :
        /\ Applied <= c /\ disk.committed <= c
        /\ Replayed(chosen, c).last_applied = c
        /\ disk'.state_machine = Replayed(chosen, c)
        /\ \/ /\ c <= LastLog(disk)
              /\ disk'.last_purged = disk.last_purged
              /\ disk'.logs = disk.logs
           \/ /\ LastLog(disk) < c
              /\ disk'.last_purged = c
              /\ disk'.logs = Keep(disk.logs, c + 1 .. MaxIndex)
  BY RestartFacts
<1>2. Applied' = c
  BY <1>1 DEF Applied
<1>3. /\ LastLog(disk) \in disk.last_purged .. MaxIndex /\ disk.last_purged <= Applied
      /\ disk.last_purged \in Nat /\ MaxIndex \in Nat /\ c \in Nat
      /\ c <= MaxIndex /\ Applied \in Nat
      /\ DOMAIN disk.logs = disk.last_purged + 1 .. LastLog(disk)
  BY Types DEF IInv, RowsInv, OrderInv, Index
<1>4. CASE /\ c <= LastLog(disk)
           /\ disk'.last_purged = disk.last_purged
           /\ disk'.logs = disk.logs
  <2>1. LastLog(disk') = LastLog(disk)
    BY <1>4 DEF LastLog
  <2>2. QED
    BY <1>1, <1>2, <1>3, <1>4, <2>1
<1>5. CASE /\ LastLog(disk) < c
           /\ disk'.last_purged = c
           /\ disk'.logs = Keep(disk.logs, c + 1 .. MaxIndex)
  <2>1. /\ LastLog(disk') = c /\ DOMAIN disk'.logs = c + 1 .. LastLog(disk')
        /\ \A j \in DOMAIN disk'.logs : disk'.logs[j] = disk.logs[j]
    BY <1>1, <1>3, <1>5, PurgedRows
  <2>2. QED
    BY <1>2, <1>3, <1>5, <2>1
<1>6. QED
  BY <1>1, <1>4, <1>5

(* The rows have no hole, whatever is appended, truncated or purged, and   *)
(* whenever the agent dies.                                                *)
LEMMA RowsStep ==
  ASSUME IInv, [Next]_vars
  PROVE  RowsInv'
<1>0. RowsInv /\ disk \in Disk
  BY DEF IInv, TypeOK
<1>1. ASSUME disk'.logs = disk.logs, disk'.last_purged = disk.last_purged
      PROVE  RowsInv'
  <2>1. LastLog(disk') = LastLog(disk)
    BY <1>1 DEF LastLog
  <2>2. QED
    BY <1>0, <1>1, <2>1 DEF RowsInv
<1>2. CASE UNCHANGED vars
  BY <1>1, <1>2 DEF vars
<1>3. ASSUME NEW e \in Entry, Choose(e)
      PROVE  RowsInv'
  BY <1>1, <1>3 DEF Choose
<1>4. ASSUME NEW v \in Vote, GrantVote(v)
      PROVE  RowsInv'
  BY <1>0, <1>1, <1>4 DEF GrantVote, SaveVote, Disk
<1>5. ASSUME NEW n \in 1 .. MaxBatch, NEW batch \in [1 .. n -> Entry],
             AppendEntries(batch)
      PROVE  RowsInv'
  <2>1. disk'.last_purged = disk.last_purged
    BY <1>0, <1>5, AppendFacts DEF Disk
  <2>2. LastLog(disk) \in disk.last_purged .. MaxIndex /\ n \in Nat
          /\ disk.last_purged \in Nat
    BY <1>0, Types, StorageAssumption DEF RowsInv, IInv, Index
  <2>3. QED
    BY <1>5, <2>1, <2>2, AppendFacts, StorageAssumption DEF RowsInv
<1>6. ASSUME NEW i \in Index, Truncate(i)
      PROVE  RowsInv'
  <2>1. disk'.last_purged = disk.last_purged
    BY <1>0, <1>6, TruncateFacts DEF Disk
  <2>2. i \in Nat /\ i <= MaxIndex /\ disk.last_purged \in Nat /\ MaxIndex \in Nat
    BY Types DEF IInv, Index
  <2>3. QED
    BY <1>6, <2>1, <2>2, TruncateFacts DEF RowsInv
<1>7. ASSUME NEW i \in Index, Purge(i)
      PROVE  RowsInv'
  <2>1. disk'.last_purged = i
    BY <1>0, <1>7, PurgeFacts DEF Disk
  <2>2. i \in 0 .. MaxIndex /\ LastLog(disk) \in 0 .. MaxIndex /\ MaxIndex \in Nat
    BY <1>0, Types DEF RowsInv, IInv, Index
  <2>3. /\ LastLog(disk') = IF i < LastLog(disk) THEN LastLog(disk) ELSE i
        /\ DOMAIN disk'.logs = i + 1 .. LastLog(disk')
    BY <1>7, PurgeFacts
  <2>4. LastLog(disk') \in i .. MaxIndex
    BY <2>2, <2>3
  <2>5. QED
    BY <2>1, <2>3, <2>4 DEF RowsInv
<1>8. ASSUME NEW i \in Index, SaveCommitted(i) \/ Apply(i) \/ InstallSnapshot(i)
      PROVE  RowsInv'
  BY <1>0, <1>1, <1>8 DEF SaveCommitted, Apply, Persist, InstallSnapshot, Disk
<1>9. CASE GetSnapshotBuilder \/ BuildSnapshot \/ FinishInstall \/ Crash
  BY <1>0, <1>1, <1>9
  DEF GetSnapshotBuilder, BuildSnapshot, FinishInstall, StoreInstalled, Crash, Disk
<1>10. CASE Restart
  BY <1>10, RestartRows DEF RowsInv
<1>11. QED
  BY <1>2, <1>3, <1>4, <1>5, <1>6, <1>7, <1>8, <1>9, <1>10 DEF Next
(* The positions are numbers.                                              *)
LEMMA Numbers ==
  ASSUME IInv
  PROVE  /\ \A i \in Index : i \in Nat /\ i <= MaxIndex
         /\ Applied \in Nat /\ disk.committed \in Nat /\ disk.last_purged \in Nat
         /\ disk.snapshot.last_applied \in Nat /\ LastLog(disk) \in Nat
         /\ mem.committed \in Nat /\ mem.snapped \in Nat /\ MaxIndex \in Nat
         /\ mem.data.last_applied \in Nat /\ mem.builder.last_applied \in Nat
         /\ Len(chosen) \in Nat /\ answered \in Nat
         /\ disk \in Disk /\ mem \in Memory /\ chosen \in Seq(Entry)
<1>1. TypeOK /\ RowsInv
  BY DEF IInv
<1>2. /\ disk.committed \in Index /\ disk.last_purged \in Index
      /\ Applied \in Index /\ disk.snapshot.last_applied \in Index
      /\ mem.committed \in Index /\ mem.snapped \in Index
      /\ mem.data.last_applied \in Index /\ mem.builder.last_applied \in Index
      /\ MaxIndex \in Nat /\ Len(chosen) \in Index
  BY <1>1, Types
<1>3. answered \in Index /\ disk \in Disk /\ mem \in Memory /\ chosen \in Seq(Entry)
  BY <1>1 DEF TypeOK
<1>4. LastLog(disk) \in disk.last_purged .. MaxIndex
  BY <1>1 DEF RowsInv
<1>5. \A i \in Index : i \in Nat /\ i <= MaxIndex
  BY <1>2 DEF Index
<1>6. LastLog(disk) \in Nat
  BY <1>2, <1>4, <1>5
<1>7. QED
  BY <1>2, <1>3, <1>5, <1>6

-----------------------------------------------------------------------------
(* Positions keep their order: a snapshot is built from what was applied,  *)
(* a purge goes no further than a snapshot, and a start applies everything *)
(* the file calls committed.                                               *)
LEMMA OrderStep ==
  ASSUME IInv, [Next]_vars
  PROVE  OrderInv'
<1>0. /\ OrderInv
      /\ \A i \in Index : i \in Nat /\ i <= MaxIndex
      /\ Applied \in Nat /\ disk.committed \in Nat /\ disk.last_purged \in Nat
      /\ disk.snapshot.last_applied \in Nat /\ LastLog(disk) \in Nat
      /\ mem.committed \in Nat /\ mem.snapped \in Nat /\ MaxIndex \in Nat
      /\ mem.data.last_applied \in Nat /\ mem.builder.last_applied \in Nat
      /\ Len(chosen) \in Nat /\ answered \in Nat
      /\ disk \in Disk /\ mem \in Memory /\ chosen \in Seq(Entry)
  BY Numbers DEF IInv
<1>1. CASE UNCHANGED vars
  BY <1>0, <1>1 DEF OrderInv, Applied, vars
<1>2. ASSUME NEW e \in Entry, Choose(e)
      PROVE  OrderInv'
  <2>1. Len(chosen') = Len(chosen) + 1
    BY <1>2 DEF Choose
  <2>2. UNCHANGED <<disk, up, mem, answered>>
    BY <1>2 DEF Choose
  <2>3. QED
    BY <1>0, <2>1, <2>2 DEF OrderInv, Applied
<1>3. ASSUME NEW v \in Vote, GrantVote(v)
      PROVE  OrderInv'
  BY <1>0, <1>3 DEF GrantVote, SaveVote, OrderInv, Applied, Disk, Memory
<1>4. ASSUME NEW n \in 1 .. MaxBatch, NEW batch \in [1 .. n -> Entry],
             AppendEntries(batch)
      PROVE  OrderInv'
  <2>1. /\ UNCHANGED <<up, mem, chosen, answered>>
        /\ disk' = [disk EXCEPT !.logs = disk'.logs]
    BY <1>4, AppendFacts
  <2>2. /\ Applied' = Applied /\ disk'.committed = disk.committed
        /\ disk'.snapshot = disk.snapshot
        /\ disk'.last_purged = disk.last_purged
        /\ disk'.state_machine = disk.state_machine
    BY <1>0, <2>1 DEF Applied, Disk
  <2>3. QED
    BY <1>0, <2>1, <2>2 DEF OrderInv
<1>5. ASSUME NEW i \in Index, Truncate(i)
      PROVE  OrderInv'
  <2>1. /\ UNCHANGED <<up, mem, chosen, answered>>
        /\ disk' = [disk EXCEPT !.logs = disk'.logs]
    BY <1>5, TruncateFacts
  <2>2. /\ Applied' = Applied /\ disk'.committed = disk.committed
        /\ disk'.snapshot = disk.snapshot
        /\ disk'.last_purged = disk.last_purged
        /\ disk'.state_machine = disk.state_machine
    BY <1>0, <2>1 DEF Applied, Disk
  <2>3. QED
    BY <1>0, <2>1, <2>2 DEF OrderInv
<1>6. ASSUME NEW i \in Index, SaveCommitted(i)
      PROVE  OrderInv'
  BY <1>0, <1>6 DEF SaveCommitted, OrderInv, Applied, Disk, Memory, history
<1>7. ASSUME NEW i \in Index, Purge(i)
      PROVE  OrderInv'
  <2>1. /\ up /\ i <= mem.snapped /\ UNCHANGED <<up, mem, chosen, answered>>
        /\ disk' = [disk EXCEPT !.last_purged = i, !.logs = disk'.logs]
    BY <1>7, PurgeFacts
  <2>2. /\ Applied' = Applied /\ disk'.committed = disk.committed
        /\ disk'.snapshot = disk.snapshot /\ disk'.last_purged = i
        /\ disk'.state_machine = disk.state_machine
    BY <1>0, <2>1 DEF Applied, Disk
  <2>3. QED
    BY <1>0, <2>1, <2>2 DEF OrderInv
<1>8. ASSUME NEW k \in Index, Apply(k)
      PROVE  OrderInv'
  <2>1. /\ up /\ Applied < k /\ k <= mem.committed /\ answered' = k
        /\ UNCHANGED <<up, chosen>>
    BY <1>8, ApplyFacts
  <2>2. /\ Applied' = k /\ mem'.data = disk'.state_machine
        /\ disk'.last_purged = disk.last_purged
        /\ disk'.committed = disk.committed /\ disk'.snapshot = disk.snapshot
        /\ mem'.committed = mem.committed /\ mem'.snapped = mem.snapped
        /\ mem'.builder = mem.builder
    BY <1>8, ApplyFields
  <2>3. k \in Nat
    BY <1>0
  <2>4. QED
    BY <1>0, <2>1, <2>2, <2>3, SMTT(30) DEF OrderInv
<1>9. ASSUME NEW k \in Index, InstallSnapshot(k)
      PROVE  OrderInv'
  <2>1. /\ up /\ Applied < k /\ mem.committed < k /\ k <= Len(chosen)
        /\ UNCHANGED <<up, chosen, answered>>
    BY <1>9, InstallFacts
  <2>2. /\ Applied' = k /\ mem'.data = disk'.state_machine
        /\ disk'.last_purged = disk.last_purged
        /\ disk'.committed = disk.committed /\ disk'.snapshot = disk.snapshot
        /\ mem'.committed = k /\ mem'.snapped = mem.snapped
        /\ mem'.builder = mem.builder
    BY <1>9, InstallFields
  <2>3. k \in Nat
    BY <1>0
  <2>4. QED
    BY <1>0, <2>1, <2>2, <2>3, SMTT(30) DEF OrderInv
<1>10. CASE GetSnapshotBuilder
  BY <1>0, <1>10 DEF GetSnapshotBuilder, OrderInv, Applied, Memory, history
<1>11. CASE BuildSnapshot
  BY <1>0, <1>11, EmptyDataTyped DEF BuildSnapshot, OrderInv, Applied, Disk, Memory
<1>12. CASE FinishInstall
  BY <1>0, <1>12 DEF FinishInstall, StoreInstalled, OrderInv, Applied, Disk, Memory
<1>13. CASE Crash
  BY <1>0, <1>13 DEF Crash, OrderInv, Applied
<1>14. CASE Restart
  <2>1. PICK c \in Index :
          /\ up' /\ mem' = Loaded(disk')
          /\ Applied <= c /\ disk.committed <= c /\ c <= Len(chosen)
          /\ Replayed(chosen, c).last_applied = c
          /\ disk'.committed = c /\ disk'.state_machine = Replayed(chosen, c)
          /\ \/ disk'.snapshot = disk.snapshot
             \/ disk'.snapshot = Replayed(chosen, c)
          /\ UNCHANGED <<chosen, answered>>
    BY <1>14, RestartFacts
  <2>2. disk'.last_purged <= Applied'
    BY <1>14, RestartRows
  <2>3. Applied' = c /\ disk'.snapshot.last_applied <= c
    BY <1>0, <2>1 DEF Applied, OrderInv
  <2>4. /\ mem'.data = disk'.state_machine /\ mem'.committed = c
        /\ mem'.snapped = disk'.snapshot.last_applied
        /\ mem'.builder.last_applied = 0 /\ mem'.installing = FALSE
    BY <2>1, EmptyDataTyped DEF Loaded
  <2>5. QED
    BY <1>0, <2>1, <2>2, <2>3, <2>4 DEF OrderInv
<1>15. QED
  BY <1>1, <1>2, <1>3, <1>4, <1>5, <1>6, <1>7, <1>8, <1>9, <1>10, <1>11,
     <1>12, <1>13, <1>14 DEF Next

(* No committed entry is lost before it is applied.                        *)
LEMMA KeptStep ==
  ASSUME IInv, [Next]_vars
  PROVE  KeptInv'
<1>0. /\ KeptInv /\ OrderInv
      /\ DOMAIN disk.logs = disk.last_purged + 1 .. LastLog(disk)
      /\ \A i \in Index : i \in Nat /\ i <= MaxIndex
      /\ Applied \in Nat /\ disk.committed \in Nat /\ disk.last_purged \in Nat
      /\ disk.snapshot.last_applied \in Nat /\ LastLog(disk) \in Nat
      /\ mem.committed \in Nat /\ mem.snapped \in Nat /\ MaxIndex \in Nat
      /\ mem.data.last_applied \in Nat /\ mem.builder.last_applied \in Nat
      /\ Len(chosen) \in Nat /\ answered \in Nat
      /\ disk \in Disk /\ mem \in Memory /\ chosen \in Seq(Entry)
  BY Numbers DEF IInv, RowsInv
<1>1. ASSUME /\ UNCHANGED <<up, chosen>> /\ disk'.logs = disk.logs
             /\ Applied <= Applied' /\ Applied' \in Nat
             /\ disk'.committed = disk.committed /\ mem'.committed = mem.committed
      PROVE  KeptInv'
  BY <1>0, <1>1, SMTT(30) DEF KeptInv, Kept
<1>2. CASE UNCHANGED vars
  BY <1>0, <1>1, <1>2 DEF vars, Applied
<1>3. ASSUME NEW e \in Entry, Choose(e)
      PROVE  KeptInv'
  <2>1. \A i \in 1 .. Len(chosen) : chosen'[i] = chosen[i]
    BY <1>3 DEF Choose
  <2>2. UNCHANGED <<disk, up, mem>>
    BY <1>3 DEF Choose
  <2>3. QED
    BY <1>0, <2>1, <2>2, SMTT(30) DEF KeptInv, Kept, OrderInv, Applied
<1>4. ASSUME NEW v \in Vote, GrantVote(v)
      PROVE  KeptInv'
  BY <1>0, <1>1, <1>4 DEF GrantVote, SaveVote, Applied, Disk, Memory
<1>5. ASSUME NEW n \in 1 .. MaxBatch, NEW batch \in [1 .. n -> Entry],
             AppendEntries(batch)
      PROVE  KeptInv'
  <2>1. /\ UNCHANGED <<up, mem, chosen>>
        /\ disk' = [disk EXCEPT !.logs = disk'.logs]
        /\ LastLog(disk') = LastLog(disk) + n
        /\ DOMAIN disk'.logs = disk.last_purged + 1 .. LastLog(disk')
        /\ \A i \in DOMAIN disk.logs : disk'.logs[i] = disk.logs[i]
    BY <1>5, AppendFacts
  <2>2. Applied' = Applied /\ disk'.committed = disk.committed
    BY <1>0, <2>1 DEF Applied, Disk
  <2>3. DOMAIN disk.logs \subseteq DOMAIN disk'.logs
    BY <1>0, <2>1, StorageAssumption
  <2>4. QED
    BY <1>0, <2>1, <2>2, <2>3 DEF KeptInv, Kept
<1>6. ASSUME NEW i \in Index, Truncate(i)
      PROVE  KeptInv'
  <2>1. /\ up /\ mem.committed < i /\ UNCHANGED <<up, mem, chosen>>
        /\ disk' = [disk EXCEPT !.logs = disk'.logs]
        /\ DOMAIN disk'.logs = disk.last_purged + 1 .. i - 1
        /\ \A j \in DOMAIN disk'.logs : disk'.logs[j] = disk.logs[j]
    BY <1>6, TruncateFacts
  <2>2. Applied' = Applied /\ disk'.committed = disk.committed
    BY <1>0, <2>1 DEF Applied, Disk
  <2>3. i \in Nat /\ disk.committed < i
    BY <1>0, <2>1 DEF OrderInv
  <2>4. \A j \in DOMAIN disk.logs : j < i =>
          j \in DOMAIN disk'.logs /\ disk'.logs[j] = disk.logs[j]
    BY <1>0, <2>1, <2>3, SMTT(30)
  <2>5. QED
    BY <1>0, <2>1, <2>2, <2>3, <2>4, SMTT(30) DEF KeptInv, Kept
<1>7. ASSUME NEW i \in Index, Purge(i)
      PROVE  KeptInv'
  <2>1. /\ up /\ i <= mem.snapped /\ UNCHANGED <<up, mem, chosen>>
        /\ disk' = [disk EXCEPT !.last_purged = i, !.logs = disk'.logs]
        /\ LastLog(disk') = IF i < LastLog(disk) THEN LastLog(disk) ELSE i
        /\ DOMAIN disk'.logs = i + 1 .. LastLog(disk')
        /\ \A j \in DOMAIN disk'.logs :
             j \in DOMAIN disk.logs /\ disk'.logs[j] = disk.logs[j]
    BY <1>7, PurgeFacts
  <2>2. Applied' = Applied /\ disk'.committed = disk.committed
    BY <1>0, <2>1 DEF Applied, Disk
  <2>3. i \in Nat /\ i <= Applied
    BY <1>0, <2>1 DEF OrderInv
  <2>4. \A j \in DOMAIN disk.logs : j > i =>
          j \in DOMAIN disk'.logs /\ disk'.logs[j] = disk.logs[j]
    BY <1>0, <2>1, <2>3
  <2>5. QED
    BY <1>0, <2>1, <2>2, <2>3, <2>4, SMTT(30) DEF KeptInv, Kept
<1>8. ASSUME NEW i \in Index, SaveCommitted(i)
      PROVE  KeptInv'
  <2>1. /\ UNCHANGED <<up, chosen>> /\ Applied' = Applied /\ disk'.logs = disk.logs
        /\ disk'.committed = i /\ mem'.committed = i
    BY <1>0, <1>8 DEF SaveCommitted, history, Applied, Disk, Memory
  <2>2. \A j \in 1 .. i : \/ j <= Applied
                          \/ j \in DOMAIN disk.logs /\ disk.logs[j] = chosen[j]
    BY <1>0, <1>8, SMTT(30) DEF SaveCommitted, OrderInv
  <2>3. QED
    BY <2>1, <2>2 DEF KeptInv, Kept
<1>9. ASSUME NEW k \in Index, Apply(k)
      PROVE  KeptInv'
  <2>1. Applied' = k /\ disk'.logs = disk.logs /\ disk'.committed = disk.committed
          /\ mem'.committed = mem.committed
    BY <1>9, ApplyFields
  <2>2. Applied < k /\ UNCHANGED <<up, chosen>> /\ k \in Nat
    BY <1>0, <1>9, ApplyFacts
  <2>3. QED
    BY <1>0, <1>1, <2>1, <2>2
<1>10. ASSUME NEW k \in Index, InstallSnapshot(k)
      PROVE  KeptInv'
  <2>1. /\ up /\ mem.committed < k /\ Replayed(chosen, k).last_applied = k
        /\ disk' = [disk EXCEPT !.state_machine = Replayed(chosen, k)]
        /\ mem' = [mem EXCEPT !.data = Replayed(chosen, k), !.committed = k,
                              !.installing = TRUE]
    BY <1>10, InstallFacts
  <2>2. Applied' = k /\ disk'.committed = disk.committed /\ mem'.committed = k
    BY <1>0, <2>1 DEF Applied, Disk, Memory
  <2>3. k \in Nat /\ disk.committed <= k
    BY <1>0, <2>1 DEF OrderInv
  <2>4. QED
    BY <1>0, <2>2, <2>3 DEF KeptInv, Kept
<1>11. CASE GetSnapshotBuilder \/ BuildSnapshot \/ FinishInstall
  <2>1. /\ UNCHANGED <<up, chosen>> /\ disk'.logs = disk.logs
        /\ disk'.state_machine = disk.state_machine
        /\ disk'.committed = disk.committed /\ mem'.committed = mem.committed
    BY <1>0, <1>11
    DEF GetSnapshotBuilder, BuildSnapshot, FinishInstall, StoreInstalled, Disk,
        Memory, history
  <2>2. Applied' = Applied
    BY <2>1 DEF Applied
  <2>3. QED
    BY <1>0, <1>1, <2>1, <2>2
<1>12. CASE Crash
  BY <1>0, <1>12 DEF Crash, KeptInv, Kept, Applied
<1>13. CASE Restart
  <2>1. PICK c \in Index :
          /\ mem' = Loaded(disk') /\ Replayed(chosen, c).last_applied = c
          /\ disk'.committed = c /\ disk'.state_machine = Replayed(chosen, c)
    BY <1>13, RestartFacts
  <2>2. disk'.committed = Applied' /\ mem'.committed = Applied'
    BY <2>1 DEF Applied, Loaded
  <2>3. QED
    BY <2>2 DEF KeptInv, Kept
<1>14. QED
  BY <1>2, <1>3, <1>4, <1>5, <1>6, <1>7, <1>8, <1>9, <1>10, <1>11, <1>12,
     <1>13 DEF Next

-----------------------------------------------------------------------------
(* The snapshot covers the purge point unless an older one was left in     *)
(* place: a purge goes no further than a snapshot the store has written, a *)
(* build only replaces an older one or is counted as a lag, and a start    *)
(* that purges finds the log behind a document whose snapshot is stored.   *)
LEMMA SnapshotStep ==
  ASSUME IInv, [Next]_vars
  PROVE  SnapshotInv'
<1>0. /\ SnapshotInv /\ OrderInv
      /\ DOMAIN disk.logs = disk.last_purged + 1 .. LastLog(disk)
      /\ \A i \in Index : i \in Nat /\ i <= MaxIndex
      /\ Applied \in Nat /\ disk.committed \in Nat /\ disk.last_purged \in Nat
      /\ disk.snapshot.last_applied \in Nat /\ LastLog(disk) \in Nat
      /\ mem.committed \in Nat /\ mem.snapped \in Nat /\ MaxIndex \in Nat
      /\ mem.data.last_applied \in Nat /\ mem.builder.last_applied \in Nat
      /\ disk \in Disk /\ mem \in Memory
  BY Numbers DEF IInv, RowsInv
<1>1. NoSnapshot.last_applied = 0
  BY EmptyDataTyped
<1>2. ASSUME /\ UNCHANGED <<up, lag>> /\ disk'.snapshot = disk.snapshot
             /\ disk'.last_purged = disk.last_purged /\ Applied' = Applied
             /\ mem'.snapped = mem.snapped /\ mem'.installing = mem.installing
             /\ LastLog(disk') \in Nat
             /\ LastLog(disk') >= LastLog(disk) \/ LastLog(disk') >= Applied
      PROVE  SnapshotInv'
  BY <1>0, <1>2 DEF SnapshotInv, SnapshotCoversPurge
<1>3. ASSUME disk'.logs = disk.logs, disk'.last_purged = disk.last_purged
      PROVE  LastLog(disk') = LastLog(disk)
  BY <1>3 DEF LastLog
<1>4. CASE UNCHANGED vars
  BY <1>0, <1>2, <1>4 DEF vars, Applied
<1>5. ASSUME NEW e \in Entry, Choose(e)
      PROVE  SnapshotInv'
  BY <1>0, <1>2, <1>5 DEF Choose, Applied
<1>6. ASSUME NEW v \in Vote, GrantVote(v)
      PROVE  SnapshotInv'
  <2>1. /\ UNCHANGED <<up, lag>> /\ disk'.snapshot = disk.snapshot
        /\ disk'.last_purged = disk.last_purged /\ disk'.logs = disk.logs
        /\ mem'.snapped = mem.snapped /\ mem'.installing = mem.installing
        /\ disk'.state_machine = disk.state_machine
    BY <1>0, <1>6 DEF GrantVote, SaveVote, Disk, Memory
  <2>2. Applied' = Applied /\ LastLog(disk') = LastLog(disk)
    BY <1>3, <2>1 DEF Applied
  <2>3. QED
    BY <1>0, <1>2, <2>1, <2>2
<1>7. ASSUME NEW n \in 1 .. MaxBatch, NEW batch \in [1 .. n -> Entry],
             AppendEntries(batch)
      PROVE  SnapshotInv'
  <2>1. /\ UNCHANGED <<up, mem, lag>> /\ LastLog(disk') = LastLog(disk) + n
        /\ disk' = [disk EXCEPT !.logs = disk'.logs]
    BY <1>7, AppendFacts
  <2>2. /\ disk'.snapshot = disk.snapshot /\ disk'.last_purged = disk.last_purged
        /\ disk'.state_machine = disk.state_machine
    BY <1>0, <2>1 DEF Disk
  <2>3. Applied' = Applied /\ n \in Nat
    BY <2>2, StorageAssumption DEF Applied
  <2>4. QED
    BY <1>0, <1>2, <2>1, <2>2, <2>3
<1>8. ASSUME NEW i \in Index, Truncate(i)
      PROVE  SnapshotInv'
  <2>1. /\ up /\ mem.committed < i /\ LastLog(disk') = i - 1
        /\ UNCHANGED <<up, mem, lag>> /\ disk' = [disk EXCEPT !.logs = disk'.logs]
    BY <1>8, TruncateFacts
  <2>2. /\ disk'.snapshot = disk.snapshot /\ disk'.last_purged = disk.last_purged
        /\ disk'.state_machine = disk.state_machine
    BY <1>0, <2>1 DEF Disk
  <2>3. Applied' = Applied /\ i \in Nat /\ Applied <= mem.committed
    BY <1>0, <2>1, <2>2 DEF Applied, OrderInv
  <2>4. QED
    BY <1>0, <1>2, <2>1, <2>2, <2>3
<1>9. ASSUME NEW i \in Index, SaveCommitted(i)
      PROVE  SnapshotInv'
  <2>1. /\ UNCHANGED <<up, lag>> /\ disk'.snapshot = disk.snapshot
        /\ disk'.last_purged = disk.last_purged /\ disk'.logs = disk.logs
        /\ mem'.snapped = mem.snapped /\ mem'.installing = mem.installing
        /\ disk'.state_machine = disk.state_machine
    BY <1>0, <1>9 DEF SaveCommitted, history, Disk, Memory
  <2>2. Applied' = Applied /\ LastLog(disk') = LastLog(disk)
    BY <1>3, <2>1 DEF Applied
  <2>3. QED
    BY <1>0, <1>2, <2>1, <2>2
<1>10. ASSUME NEW i \in Index, Purge(i)
       PROVE  SnapshotInv'
  <2>1. /\ up /\ disk.last_purged < i /\ i <= mem.snapped
        /\ UNCHANGED <<up, mem, lag>>
        /\ disk' = [disk EXCEPT !.last_purged = i, !.logs = disk'.logs]
        /\ LastLog(disk') = IF i < LastLog(disk) THEN LastLog(disk) ELSE i
    BY <1>10, PurgeFacts
  <2>2. /\ disk'.snapshot = disk.snapshot /\ disk'.last_purged = i
        /\ disk'.state_machine = disk.state_machine
    BY <1>0, <2>1 DEF Disk
  <2>3. Applied' = Applied /\ i \in Nat
    BY <1>0, <2>2 DEF Applied
  <2>4. QED
    BY <1>0, <1>1, <2>1, <2>2, <2>3 DEF SnapshotInv, SnapshotCoversPurge
<1>11. ASSUME NEW k \in Index, Apply(k)
       PROVE  SnapshotInv'
  <2>1. k \in DOMAIN disk.logs /\ UNCHANGED <<up, lag>>
    BY <1>11, ApplyFacts
  <2>2. /\ Applied' = k /\ disk'.logs = disk.logs
        /\ disk'.last_purged = disk.last_purged /\ disk'.snapshot = disk.snapshot
        /\ mem'.snapped = mem.snapped
    BY <1>11, ApplyFields
  <2>3. LastLog(disk') = LastLog(disk) /\ k \in Nat /\ k <= LastLog(disk)
    BY <1>0, <1>3, <2>1, <2>2
  <2>4. QED
    BY <1>0, <2>1, <2>2, <2>3 DEF SnapshotInv, SnapshotCoversPurge
<1>12. ASSUME NEW k \in Index, InstallSnapshot(k)
       PROVE  SnapshotInv'
  <2>1. UNCHANGED <<up, lag>>
    BY <1>12, InstallFacts
  <2>2. /\ disk'.last_purged = disk.last_purged /\ disk'.snapshot = disk.snapshot
        /\ mem'.snapped = mem.snapped /\ mem'.installing = TRUE
    BY <1>12, InstallFields
  <2>3. QED
    BY <1>0, <2>1, <2>2 DEF SnapshotInv, SnapshotCoversPurge
<1>13. CASE GetSnapshotBuilder
  <2>1. /\ UNCHANGED <<disk, up, lag>> /\ mem'.snapped = mem.snapped
        /\ mem'.installing = mem.installing
    BY <1>0, <1>13 DEF GetSnapshotBuilder, history, Memory
  <2>2. QED
    BY <1>0, <1>2, <2>1 DEF Applied
<1>14. CASE BuildSnapshot
  <2>1. /\ disk'.snapshot = mem.builder /\ disk'.last_purged = disk.last_purged
        /\ disk'.logs = disk.logs /\ disk'.state_machine = disk.state_machine
        /\ mem'.installing = mem.installing
        /\ mem'.snapped = IF mem.snapped < mem.builder.last_applied
                          THEN mem.builder.last_applied ELSE mem.snapped
        /\ UNCHANGED up
        /\ lag' = (lag \/ mem.builder.last_applied < disk.snapshot.last_applied)
        /\ up
    BY <1>0, <1>14 DEF BuildSnapshot, Disk, Memory
  <2>2. Applied' = Applied /\ LastLog(disk') = LastLog(disk)
    BY <1>3, <2>1 DEF Applied
  <2>3. ASSUME ~lag'
        PROVE  /\ ~lag /\ disk.snapshot.last_applied <= mem.builder.last_applied
               /\ mem.snapped <= disk.snapshot.last_applied
    <3>1. ~lag /\ ~(mem.builder.last_applied < disk.snapshot.last_applied)
      BY <2>1, <2>3, Zenon
    <3>2. QED
      BY <1>0, <2>1, <3>1 DEF SnapshotInv
  <2>4. SnapshotCoversPurge'
    BY <1>0, <1>1, <2>1, <2>3 DEF SnapshotInv, SnapshotCoversPurge
  <2>5. QED
    BY <1>0, <2>1, <2>2, <2>3, <2>4 DEF SnapshotInv
<1>15. CASE FinishInstall
  <2>1. /\ disk'.snapshot = mem.data /\ disk'.last_purged = disk.last_purged
        /\ disk'.logs = disk.logs /\ disk'.state_machine = disk.state_machine
        /\ mem'.installing = FALSE /\ mem'.snapped = mem.data.last_applied
        /\ UNCHANGED up /\ up /\ mem.installing
        /\ lag' = (lag /\ disk.last_purged > mem.data.last_applied)
    BY <1>0, <1>15 DEF FinishInstall, StoreInstalled, Disk, Memory
  <2>2. Applied' = Applied /\ mem.data.last_applied = Applied /\ Applied > 0
    BY <1>0, <2>1 DEF Applied, OrderInv
  <2>3. QED
    BY <1>0, <1>1, <2>1, <2>2 DEF SnapshotInv, SnapshotCoversPurge, OrderInv
<1>16. CASE Crash
  <2>1. UNCHANGED disk /\ up' = FALSE /\ lag' = (lag \/ mem.installing)
    BY <1>16 DEF Crash
  <2>2. QED
    BY <1>0, <2>1 DEF SnapshotInv, SnapshotCoversPurge, Applied
<1>17. CASE Restart
  <2>1. PICK c \in Index :
          /\ ~up /\ up' /\ mem' = Loaded(disk') /\ Applied <= c
          /\ c = Applied \/ (c = disk.committed /\ c \in DOMAIN disk.logs)
          /\ \/ /\ c <= LastLog(disk) /\ disk'.last_purged = disk.last_purged
             \/ /\ LastLog(disk) < c /\ disk'.last_purged = c
          /\ \/ disk'.snapshot = disk.snapshot
             \/ disk.snapshot = NoSnapshot /\ disk'.last_purged > 0
          /\ UNCHANGED lag
    BY <1>17, RestartFacts
  <2>2. mem'.snapped = disk'.snapshot.last_applied /\ mem.installing = FALSE
    BY <1>0, <2>1 DEF Loaded, OrderInv
  <2>3. Applied' <= LastLog(disk') /\ Applied' \in Nat /\ LastLog(disk') \in Nat
    <3>1. /\ Applied' <= LastLog(disk')
          /\ LastLog(disk') \in disk'.last_purged .. MaxIndex
      BY <1>17, RestartRows
    <3>2. TypeOK'
      BY TypeStep
    <3>3. disk'.last_purged \in Index /\ Applied' \in Index
      BY <3>2 DEF TypeOK, Disk, Data, Applied
    <3>4. QED
      BY <1>0, <3>1, <3>3 DEF Index
  <2>4. ASSUME ~lag, disk'.last_purged > 0
        PROVE  /\ disk.snapshot # NoSnapshot
               /\ disk'.last_purged <= disk.snapshot.last_applied
    <3>1. CASE disk'.last_purged = disk.last_purged
      BY <1>0, <2>4, <3>1 DEF SnapshotInv, SnapshotCoversPurge
    <3>2. CASE LastLog(disk) < c /\ disk'.last_purged = c
      <4>1. c = Applied
        BY <1>0, <2>1, <3>2
      <4>2. Applied <= disk.snapshot.last_applied
        BY <1>0, <2>2, <2>4, <3>2, <4>1 DEF SnapshotInv
      <4>3. QED
        BY <1>0, <1>1, <2>4, <3>2, <4>1, <4>2
    <3>3. QED
      BY <2>1, <3>1, <3>2
  <2>5. disk'.snapshot.last_applied \in Nat
    BY <1>17, TypeStep, EmptyDataTyped DEF TypeOK, Disk, Data, Index
  <2>6. QED
    BY <2>1, <2>2, <2>3, <2>4, <2>5 DEF SnapshotInv, SnapshotCoversPurge
<1>18. QED
  BY <1>4, <1>5, <1>6, <1>7, <1>8, <1>9, <1>10, <1>11, <1>12, <1>13, <1>14,
     <1>15, <1>16, <1>17 DEF Next

(* The documents are replays of the agreed log, which only grows.          *)
LEMMA ReplayStep ==
  ASSUME IInv, [Next]_vars
  PROVE  ReplayInv'
<1>0. /\ ReplayInv /\ OrderInv
      /\ Applied \in Nat /\ disk.snapshot.last_applied \in Nat
      /\ mem.builder.last_applied \in Nat /\ Len(chosen) \in Nat
      /\ disk \in Disk /\ mem \in Memory /\ chosen \in Seq(Entry)
  BY Numbers DEF IInv
<1>1. ASSUME /\ UNCHANGED chosen /\ disk'.state_machine = disk.state_machine
             /\ disk'.snapshot = disk.snapshot
             /\ mem'.builder = mem.builder /\ mem'.building = mem.building
      PROVE  ReplayInv'
  BY <1>0, <1>1 DEF ReplayInv, Applied
<1>2. CASE UNCHANGED vars
  BY <1>1, <1>2 DEF vars
<1>3. ASSUME NEW e \in Entry, Choose(e)
      PROVE  ReplayInv'
  <2>1. \A i \in 1 .. Len(chosen) : chosen'[i] = chosen[i]
    BY <1>3 DEF Choose
  <2>2. UNCHANGED <<disk, up, mem>>
    BY <1>3 DEF Choose
  <2>3. ASSUME NEW k \in Nat, k <= Len(chosen)
        PROVE  Replayed(chosen', k) = Replayed(chosen, k)
    <3>1. \A i \in 1 .. k : chosen'[i] = chosen[i]
      BY <1>0, <2>1, <2>3
    <3>2. QED
      BY <3>1, ReplayedPrefix
  <2>4. disk.snapshot.last_applied <= Len(chosen) /\ Applied <= Len(chosen)
    BY <1>0 DEF OrderInv
  <2>5. mem.building => mem.builder.last_applied <= Len(chosen)
    BY <1>0 DEF OrderInv, Loaded
  <2>6. /\ Replayed(chosen', Applied) = Replayed(chosen, Applied)
        /\ Replayed(chosen', disk.snapshot.last_applied)
             = Replayed(chosen, disk.snapshot.last_applied)
        /\ mem.building => Replayed(chosen', mem.builder.last_applied)
                             = Replayed(chosen, mem.builder.last_applied)
    BY <1>0, <2>3, <2>4, <2>5
  <2>7. QED
    BY <1>0, <2>2, <2>6 DEF ReplayInv, Applied
<1>4. ASSUME NEW v \in Vote, GrantVote(v)
      PROVE  ReplayInv'
  BY <1>0, <1>1, <1>4 DEF GrantVote, SaveVote, Disk, Memory
<1>5. ASSUME NEW n \in 1 .. MaxBatch, NEW batch \in [1 .. n -> Entry],
             AppendEntries(batch)
      PROVE  ReplayInv'
  <2>1. UNCHANGED <<mem, chosen>> /\ disk' = [disk EXCEPT !.logs = disk'.logs]
    BY <1>5, AppendFacts
  <2>2. QED
    BY <1>0, <1>1, <2>1 DEF Disk
<1>6. ASSUME NEW i \in Index, Truncate(i)
      PROVE  ReplayInv'
  <2>1. UNCHANGED <<mem, chosen>> /\ disk' = [disk EXCEPT !.logs = disk'.logs]
    BY <1>6, TruncateFacts
  <2>2. QED
    BY <1>0, <1>1, <2>1 DEF Disk
<1>7. ASSUME NEW i \in Index, SaveCommitted(i)
      PROVE  ReplayInv'
  BY <1>0, <1>1, <1>7 DEF SaveCommitted, history, Disk, Memory
<1>8. ASSUME NEW i \in Index, Purge(i)
      PROVE  ReplayInv'
  <2>1. /\ UNCHANGED <<mem, chosen>>
        /\ disk' = [disk EXCEPT !.last_purged = i, !.logs = disk'.logs]
    BY <1>8, PurgeFacts
  <2>2. QED
    BY <1>0, <1>1, <2>1 DEF Disk
<1>9. ASSUME NEW k \in Index, Apply(k) \/ InstallSnapshot(k)
      PROVE  ReplayInv'
  <2>1. /\ UNCHANGED chosen /\ Applied' = k
        /\ disk'.state_machine = Replayed(chosen, k)
        /\ disk'.snapshot = disk.snapshot
        /\ mem'.builder = mem.builder /\ mem'.building = mem.building
    BY <1>9, ApplyFacts, ApplyFields, InstallFacts, InstallFields
  <2>2. QED
    BY <1>0, <2>1 DEF ReplayInv
<1>10. CASE GetSnapshotBuilder
  <2>1. UNCHANGED <<disk, chosen>> /\ mem'.builder = disk.state_machine
    BY <1>0, <1>10 DEF GetSnapshotBuilder, history, Memory, OrderInv
  <2>2. mem'.builder = Replayed(chosen', mem'.builder.last_applied)
    BY <1>0, <2>1 DEF ReplayInv, Applied
  <2>3. QED
    BY <1>0, <2>1, <2>2 DEF ReplayInv, Applied
<1>11. CASE BuildSnapshot
  <2>1. /\ UNCHANGED chosen /\ mem.building /\ mem'.building = FALSE
        /\ disk'.snapshot = mem.builder
        /\ disk'.state_machine = disk.state_machine
    BY <1>0, <1>11 DEF BuildSnapshot, Disk, Memory
  <2>2. QED
    BY <1>0, <2>1 DEF ReplayInv, Applied
<1>12. CASE FinishInstall
  <2>1. /\ UNCHANGED chosen /\ mem'.building = mem.building
        /\ mem'.builder = mem.builder /\ disk'.snapshot = disk.state_machine
        /\ disk'.state_machine = disk.state_machine
    BY <1>0, <1>12 DEF FinishInstall, StoreInstalled, Disk, Memory, OrderInv
  <2>2. QED
    BY <1>0, <2>1 DEF ReplayInv, Applied
<1>13. CASE Crash
  <2>1. UNCHANGED <<disk, chosen>> /\ mem'.building = FALSE
    BY <1>13 DEF Crash, Loaded
  <2>2. QED
    BY <1>0, <2>1 DEF ReplayInv, Applied
<1>14. CASE Restart
  <2>1. PICK c \in Index :
          /\ mem' = Loaded(disk') /\ Replayed(chosen, c).last_applied = c
          /\ disk'.state_machine = Replayed(chosen, c)
          /\ \/ disk'.snapshot = disk.snapshot
             \/ disk'.snapshot = Replayed(chosen, c)
          /\ UNCHANGED chosen
    BY <1>14, RestartFacts
  <2>2. Applied' = c /\ mem'.building = FALSE
    BY <2>1 DEF Applied, Loaded
  <2>3. QED
    BY <1>0, <2>1, <2>2 DEF ReplayInv
<1>15. QED
  BY <1>2, <1>3, <1>4, <1>5, <1>6, <1>7, <1>8, <1>9, <1>10, <1>11, <1>12,
     <1>13, <1>14 DEF Next
-----------------------------------------------------------------------------
LEMMA InitIInv == Init => IInv
<1> SUFFICES ASSUME Init PROVE IInv
  OBVIOUS
<1>1. /\ FreshDisk \in Disk /\ EmptyData \in Data /\ NoSnapshot \in Data
      /\ EmptyData.last_applied = 0 /\ NoSnapshot.last_applied = 0
  BY FreshDiskTyped, EmptyDataTyped
<1>2. /\ disk.vote = [term |-> 0, node |-> NoNode] /\ disk.committed = 0
      /\ disk.last_purged = 0 /\ disk.logs = <<>>
      /\ disk.state_machine = EmptyData /\ disk.snapshot = NoSnapshot
      /\ up = TRUE /\ chosen = <<>> /\ granted = {} /\ answered = 0
      /\ lag = FALSE /\ crashes = 0
  BY DEF Init, FreshDisk
<1>3. mem = Loaded(disk)
  BY DEF Init
<1>4. /\ mem.vote = disk.vote /\ mem.committed = 0 /\ mem.data = EmptyData
      /\ mem.snapped = 0 /\ mem.builder = NoSnapshot
      /\ mem.building = FALSE /\ mem.installing = FALSE
  BY <1>1, <1>2, <1>3 DEF Loaded
<1>5. DOMAIN disk.logs = {} /\ LastLog(disk) = 0
  BY <1>2 DEF LastLog
<1>6. Applied = 0 /\ Len(chosen) = 0
  BY <1>1, <1>2 DEF Applied
<1>7. TypeOK
  <2>1. disk \in Disk /\ mem \in Memory
    BY <1>1, <1>3, LoadedTyped DEF Init
  <2>2. chosen \in Seq(Entry) /\ Len(chosen) <= MaxIndex /\ answered \in Index
          /\ crashes \in 0 .. MaxCrashes
    BY <1>2, <1>6, StorageAssumption DEF Index
  <2>3. up \in BOOLEAN /\ lag \in BOOLEAN /\ granted \subseteq Vote
    BY <1>2, Zenon
  <2>4. QED
    BY <2>1, <2>2, <2>3 DEF TypeOK
<1>8. VotesInv
  BY <1>2, <1>4 DEF VotesInv, VotesOnce
<1>9. RowsInv
  BY <1>2, <1>5, StorageAssumption DEF RowsInv
<1>10. OrderInv
  BY <1>1, <1>2, <1>4, <1>6 DEF OrderInv
<1>11. KeptInv
  BY <1>2, <1>4 DEF KeptInv, Kept
<1>12. SnapshotInv
  BY <1>1, <1>2, <1>4, <1>6 DEF SnapshotInv, SnapshotCoversPurge
<1>13. ReplayInv
  BY <1>1, <1>2, <1>4, <1>6, ReplayedSteps DEF ReplayInv
<1>14. QED
  BY <1>7, <1>8, <1>9, <1>10, <1>11, <1>12, <1>13 DEF IInv

LEMMA StepIInv == IInv /\ [Next]_vars => IInv'
BY TypeStep, VotesStep, RowsStep, OrderStep, KeptStep, SnapshotStep, ReplayStep
DEF IInv

LEMMA InvariantIInv == Spec => []IInv
<1>1. Init => IInv
  BY InitIInv
<1>2. IInv /\ [Next]_vars => IInv'
  BY StepIInv
<1>3. QED
  BY <1>1, <1>2, PTL DEF Spec

(* The rows of the file and what memory holds have their types: no handler *)
(* of raftstore.rs writes a position past the agreed log's bound or a      *)
(* document of another shape, deaths and starts included.                  *)
THEOREM TypeCorrect == Spec => []TypeOK
<1>1. IInv => TypeOK
  BY DEF IInv
<1>2. QED
  BY <1>1, InvariantIInv, PTL

(* save_vote: the vote is durable before it is used, so that this node     *)
(* answers at most one candidate in a term, whatever number of deaths lies *)
(* between two requests.                                                   *)
THEOREM NoDoubleVote == Spec => []VotesOnce
<1>1. IInv => VotesOnce
  BY DEF IInv, VotesInv
<1>2. QED
  BY <1>1, InvariantIInv, PTL

(* append, truncate, purge, apply, save_committed, build_snapshot and      *)
(* install_snapshot leave a file that openraft can start and serve from,   *)
(* wherever the agent dies between two transactions: no hole in the rows,  *)
(* no committed entry lost, a purge point that the applied document and,   *)
(* but for the two orders `lag` counts, the stored snapshot cover.         *)
THEOREM AlwaysRecoverable == Spec => []Recoverable
<1>1. IInv => Recoverable
  <2> SUFFICES ASSUME IInv PROVE Recoverable
    OBVIOUS
  <2>1. TypeOK /\ RowsInv /\ OrderInv /\ KeptInv /\ SnapshotInv
    BY DEF IInv
  <2>2. QED
    BY <2>1 DEF Recoverable, RowsInv, OrderInv, KeptInv, Kept, SnapshotInv,
                Applied
<1>2. QED
  BY <1>1, InvariantIInv, PTL

(* apply and Raft::new's second application, install_snapshot and          *)
(* build_snapshot: every document of this node is the replay of the agreed *)
(* log up to its own position, none applied twice and none skipped, and a  *)
(* response that went out is on disk.                                      *)
THEOREM DocumentIsReplay == Spec => []AppliedIsReplay
<1>1. IInv => AppliedIsReplay
  <2> SUFFICES ASSUME IInv PROVE AppliedIsReplay
    OBVIOUS
  <2>1. TypeOK /\ OrderInv /\ ReplayInv
    BY DEF IInv
  <2>2. CASE up
    BY <2>1, <2>2 DEF AppliedIsReplay, OrderInv, ReplayInv, Applied, Read
  <2>3. CASE ~up
    <3>1. mem.data = EmptyData
      BY <2>1, <2>3 DEF OrderInv, Loaded, FreshDisk
    <3>2. mem.data = Replayed(chosen, mem.data.last_applied)
      BY <3>1, EmptyDataTyped, ReplayedSteps
    <3>3. QED
      BY <2>1, <3>2 DEF AppliedIsReplay, OrderInv, ReplayInv, Applied, Read
  <2>4. QED
    BY <2>2, <2>3
<1>2. QED
  BY <1>1, InvariantIInv, PTL
=============================================================================
