-------------------------- MODULE LeaseStoreProofs --------------------------
(***************************************************************************)
(* Proofs about LeaseStore, for every pool of nodes and every number of    *)
(* calls.  The inductive invariant IInv adds to the properties the runs    *)
(* check what they rest on: every granted term is at most the generation,  *)
(* a successor's term is larger than the term it deposed, and a command in *)
(* flight speaks for the node that issued it.                              *)
(***************************************************************************)
EXTENDS LeaseStore, TLAPS

-----------------------------------------------------------------------------
(* The commands of the replicated document.                                *)

(* What the CAS and the release write is a lease, and writing it and a     *)
(* generation into the document keeps its type.                            *)
LEMMA LeaseTyped ==
  ASSUME NEW s \in ClusterState, NEW n \in Node
  PROVE  /\ [holder |-> n, term |-> s.generation + 1] \in AnyLease
         /\ Vacant \in AnyLease
BY DEF AnyLease, HeldLease, ClusterState

LEMMA WriteTyped ==
  ASSUME NEW s \in ClusterState, NEW l \in AnyLease, NEW g \in Nat
  PROVE  [s EXCEPT !.generation = g, !.lease = l] \in ClusterState
BY DEF ClusterState

LEMMA WritePausedTyped ==
  ASSUME NEW s \in ClusterState, NEW p \in BOOLEAN, NEW g \in Nat
  PROVE  [s EXCEPT !.generation = g, !.paused = p] \in ClusterState
BY DEF ClusterState

LEMMA WriteSwitchoverTyped ==
  ASSUME NEW s \in ClusterState, NEW t \in Node \cup {NoNode}, NEW g \in Nat
  PROVE  [s EXCEPT !.generation = g, !.switchover = t] \in ClusterState
BY DEF ClusterState

LEMMA GenerationTyped ==
  ASSUME NEW s \in ClusterState
  PROVE  s.generation + 1 \in Nat
BY DEF ClusterState

(* A typed command takes a typed document to a typed document: what        *)
(* apply_command returns is again a ClusterState.                          *)
LEMMA ApplyTyped ==
  ASSUME NEW s \in ClusterState, NEW cmd \in ConsensusCommand
  PROVE  ApplyCommand(s, cmd) \in ClusterState
<1>1. CASE cmd \in [op : {"takeover"}, node : Node, lease : AnyLease]
  <2>1. ApplyCommand(s, cmd) = ApplyTakeover(s, cmd.node, cmd.lease)
    BY <1>1 DEF ApplyCommand
  <2>2. cmd.node \in Node
    BY <1>1
  <2>3. QED
    BY <2>1, <2>2, LeaseTyped, GenerationTyped, WriteTyped, ZenonT(60) DEF ApplyTakeover
<1>2. CASE cmd \in [op : {"release"}, node : Node, lease : HeldLease]
  <2>1. ApplyCommand(s, cmd) = ApplyRelease(s, cmd.lease)
    BY <1>2 DEF ApplyCommand
  <2>2. cmd.node \in Node
    BY <1>2
  <2>3. QED
    BY <2>1, <2>2, LeaseTyped, GenerationTyped, WriteTyped DEF ApplyRelease
<1>3. CASE cmd \in [op : {"paused"}, value : BOOLEAN]
  <2>1. ApplyCommand(s, cmd) = ApplySetPaused(s, cmd.value)
    BY <1>3 DEF ApplyCommand
  <2>2. cmd.value \in BOOLEAN
    BY <1>3
  <2>3. QED
    BY <2>1, <2>2, GenerationTyped, WritePausedTyped, ZenonT(60) DEF ApplySetPaused
<1>4. CASE cmd \in [op : {"switchover"}, value : Node \cup {NoNode}]
  <2>1. ApplyCommand(s, cmd) = ApplySetSwitchover(s, cmd.value)
    BY <1>4 DEF ApplyCommand
  <2>2. cmd.value \in Node \cup {NoNode}
    BY <1>4
  <2>3. QED
    BY <2>1, <2>2, GenerationTyped, WriteSwitchoverTyped, ZenonT(60) DEF ApplySetSwitchover
<1>5. QED
  BY <1>1, <1>2, <1>3, <1>4 DEF ConsensusCommand

(* The four kinds of command and what each does to the lease and to the    *)
(* generation: only a takeover that wins grants, only a matching release   *)
(* vacates, and the generation never decreases.                            *)
LEMMA ApplyLease ==
  ASSUME NEW s \in ClusterState, NEW cmd \in ConsensusCommand
  PROVE  LET t == ApplyCommand(s, cmd)
         IN  \/ /\ t.lease = s.lease
                /\ t.generation >= s.generation
                /\ ~(cmd.op = "takeover" /\ TakeoverWins(s, cmd.lease))
             \/ /\ cmd \in [op : {"takeover"}, node : Node, lease : AnyLease]
                /\ TakeoverWins(s, cmd.lease)
                /\ t.lease = [holder |-> cmd.node, term |-> s.generation + 1]
                /\ t.generation = s.generation + 1
             \/ /\ cmd \in [op : {"release"}, node : Node, lease : HeldLease]
                /\ s.lease = cmd.lease
                /\ t.lease = Vacant
                /\ t.generation >= s.generation
<1>1. CASE cmd \in [op : {"takeover"}, node : Node, lease : AnyLease]
  <2>1. ApplyCommand(s, cmd) = ApplyTakeover(s, cmd.node, cmd.lease)
    BY <1>1 DEF ApplyCommand
  <2>2. QED
    BY <1>1, <2>1 DEF ApplyTakeover, ClusterState, TakeoverWins
<1>2. CASE cmd \in [op : {"release"}, node : Node, lease : HeldLease]
  <2>1. ApplyCommand(s, cmd) = ApplyRelease(s, cmd.lease)
    BY <1>2 DEF ApplyCommand
  <2>2. QED
    BY <1>2, <2>1 DEF ApplyRelease, ClusterState, ReleaseMatches
<1>3. CASE cmd \in [op : {"paused"}, value : BOOLEAN]
  <2>1. ApplyCommand(s, cmd) = ApplySetPaused(s, cmd.value)
    BY <1>3 DEF ApplyCommand
  <2>2. QED
    BY <1>3, <2>1 DEF ApplySetPaused, ClusterState
<1>4. CASE cmd \in [op : {"switchover"}, value : Node \cup {NoNode}]
  <2>1. ApplyCommand(s, cmd) = ApplySetSwitchover(s, cmd.value)
    BY <1>4 DEF ApplyCommand
  <2>2. QED
    BY <1>4, <2>1 DEF ApplySetSwitchover, ClusterState
<1>5. QED
  BY <1>1, <1>2, <1>3, <1>4 DEF ConsensusCommand

-----------------------------------------------------------------------------
TermsBelow == \A g \in grants : g.lease.term <= cluster.generation
ExpectedOlder == \A g \in grants : g.expected.term < g.lease.term

SpeaksFor(n, cmd) ==
  /\ cmd.op \in {"takeover", "release"} => cmd.node = n
  /\ cmd.op = "release" => cmd.lease.holder = n

CommandsOwn ==
  /\ \A e \in log : SpeaksFor(e.by, e.cmd)
  /\ \A m \in net : SpeaksFor(m.by, m.cmd)
  /\ \A n \in Node : SpeaksFor(n, call[n].cmd)

LeaseInv ==
  /\ TermsUnique
  /\ OneSuccessor
  /\ LatestInForce
  /\ TermsBelow
  /\ ExpectedOlder

IInv == TypeOK /\ CommandsOwn /\ LeaseInv /\ WonIsTrue

-----------------------------------------------------------------------------
(* The commands the callers build are commands, and each speaks for the    *)
(* node that issues it: nobody proposes a takeover or a release for        *)
(* another node.                                                           *)
LEMMA TakeoverCmdTyped ==
  ASSUME NEW n \in Node, NEW l \in AnyLease
  PROVE  TakeoverCmd(n, l) \in ConsensusCommand /\ SpeaksFor(n, TakeoverCmd(n, l))
BY DEF TakeoverCmd, ConsensusCommand, SpeaksFor

LEMMA ReleaseCmdTyped ==
  ASSUME NEW l \in HeldLease
  PROVE  ReleaseCmd(l) \in ConsensusCommand /\ SpeaksFor(l.holder, ReleaseCmd(l))
BY DEF ReleaseCmd, ConsensusCommand, SpeaksFor, HeldLease

LEMMA PausedCmdTyped ==
  ASSUME NEW n \in Node, NEW p \in BOOLEAN
  PROVE  PausedCmd(p) \in ConsensusCommand /\ SpeaksFor(n, PausedCmd(p))
BY DEF PausedCmd, ConsensusCommand, SpeaksFor

LEMMA SwitchoverCmdTyped ==
  ASSUME NEW n \in Node, NEW t \in Node \cup {NoNode}
  PROVE  SwitchoverCmd(t) \in ConsensusCommand /\ SpeaksFor(n, SwitchoverCmd(t))
BY DEF SwitchoverCmd, ConsensusCommand, SpeaksFor

(* Every call is the local write of some typed command that speaks for its *)
(* caller.                                                                 *)
LEMMA CallsTyped ==
  ASSUME TypeOK, NEW n \in Node,
         TryTakeover(n) \/ Release(n) \/ SetPaused(n) \/ SetSwitchover(n)
  PROVE  \E cmd \in ConsensusCommand : SpeaksFor(n, cmd) /\ Call(n, cmd)
<1>1. Expectable \subseteq AnyLease
  BY DEF TypeOK, Expectable, AnyLease
<1>2. CASE TryTakeover(n)
  BY <1>1, <1>2, TakeoverCmdTyped DEF TryTakeover
<1>3. CASE Release(n)
  <2>1. PICK l \in Expectable : l.holder = n /\ Call(n, ReleaseCmd(l))
    BY <1>3 DEF Release
  <2>2. l \in HeldLease
    BY <1>1, <2>1, NoNodeAssumption DEF AnyLease, Vacant
  <2>3. QED
    BY <2>1, <2>2, ReleaseCmdTyped
<1>4. CASE SetPaused(n)
  BY <1>4, StoreAssumption, PausedCmdTyped DEF SetPaused
<1>5. CASE SetSwitchover(n)
  BY <1>5, StoreAssumption, SwitchoverCmdTyped DEF SetSwitchover
<1>6. QED
  BY <1>2, <1>3, <1>4, <1>5

(* A step of the store, as the proofs split it.                            *)
LEMMA StepCases ==
  ASSUME TypeOK, [Next]_vars
  PROVE  \/ UNCHANGED vars
         \/ \E n \in Node : \E cmd \in ConsensusCommand :
              SpeaksFor(n, cmd) /\ Call(n, cmd)
         \/ \E n \in Node : LocalFails(n) \/ ForwardFails(n) \/ Return(n)
         \/ \E m \in net : Arrive(m)
         \/ \E e \in log : Commit(e) \/ LoseEntry(e)
BY CallsTyped DEF Next

(* The records a call goes through are well formed.                        *)
LEMMA IdleTyped == Idle \in CallRecord
BY DEF Idle, CallRecord, Reply, AnyLease, PausedCmd, ConsensusCommand

LEMMA FreshCallTyped ==
  ASSUME NEW r \in CallRecord, NEW cmd \in ConsensusCommand, NEW i \in Nat
  PROVE  [r EXCEPT !.stage = "local", !.id = i, !.cmd = cmd]
           \in CallRecord
BY DEF CallRecord

LEMMA AnswerTyped ==
  ASSUME NEW r \in CallRecord, NEW reply \in Reply, NEW l \in AnyLease
  PROVE  [r EXCEPT !.stage = "done", !.reply = reply, !.lease = l]
           \in CallRecord
BY DEF CallRecord

(* The type invariant is preserved: one step per kind of action.           *)
LEMMA TypeStep ==
  ASSUME TypeOK, [Next]_vars
  PROVE  TypeOK'
<1>1. CASE UNCHANGED vars
  BY <1>1 DEF TypeOK, vars
<1>2. ASSUME NEW n \in Node, NEW cmd \in ConsensusCommand, Call(n, cmd)
      PROVE  TypeOK'
  <2> calls + 1 \in Nat
    BY DEF TypeOK
  <2>1. [Idle EXCEPT !.stage = "local", !.id = calls + 1, !.cmd = cmd]
           \in CallRecord
    BY IdleTyped, FreshCallTyped
  <2>2. call' \in [Node -> CallRecord]
    BY <1>2, <2>1 DEF TypeOK, Call
  <2>3. log' \in SUBSET LogEntry /\ appended' \in Nat
    BY <1>2 DEF TypeOK, Call, Append, LogEntry
  <2>4. QED
    BY <1>2, <2>2, <2>3 DEF TypeOK, Call
<1>3. ASSUME NEW n \in Node, LocalFails(n) \/ ForwardFails(n) \/ Return(n)
      PROVE  TypeOK'
  <2>1. Idle \in CallRecord
    BY IdleTyped
  <2>2. call' \in [Node -> CallRecord]
    BY <1>3, <2>1
    DEF TypeOK, LocalFails, ForwardFails, Return, Answer, Reply, AnyLease,
        CallRecord
  <2>3. net' \in SUBSET [by : Node, call : Nat, cmd : ConsensusCommand]
    BY <1>3 DEF TypeOK, LocalFails, ForwardFails, Return, CallRecord
  <2>4. QED
    BY <1>3, <2>2, <2>3 DEF TypeOK, LocalFails, ForwardFails, Return
<1>4. ASSUME NEW m \in net, Arrive(m)
      PROVE  TypeOK'
  BY <1>4 DEF TypeOK, Arrive, Append, LogEntry
<1>5. ASSUME NEW e \in log, LoseEntry(e)
      PROVE  TypeOK'
  BY <1>5 DEF TypeOK, LoseEntry
<1>6. ASSUME NEW e \in log, Commit(e)
      PROVE  TypeOK'
  <2>1. e \in LogEntry /\ e.by \in Node /\ e.call \in Nat /\ e.cmd \in ConsensusCommand
          /\ cluster \in ClusterState
    BY DEF TypeOK, LogEntry
  <2>2. cluster' \in ClusterState
    BY <1>6, <2>1, ApplyTyped DEF Commit
  <2>3. grants' \in SUBSET [call : Nat, expected : AnyLease, lease : HeldLease]
    <3>1. ASSUME e.cmd.op = "takeover", TakeoverWins(cluster, e.cmd.lease)
          PROVE  /\ e.cmd.lease \in AnyLease
                 /\ ApplyCommand(cluster, e.cmd).lease \in HeldLease
      <4>1. e.cmd \in [op : {"takeover"}, node : Node, lease : AnyLease]
        BY <2>1, <3>1 DEF ConsensusCommand
      <4>2. cluster.generation + 1 \in Nat \ {0}
        BY <2>1 DEF ClusterState
      <4>3. ApplyCommand(cluster, e.cmd).lease
              = [holder |-> e.cmd.node, term |-> cluster.generation + 1]
        BY <2>1, <3>1, <4>1, ApplyLease
      <4>4. QED
        BY <4>1, <4>2, <4>3 DEF HeldLease
    <3>2. NewGrants(e)
            \in SUBSET [call : Nat, expected : AnyLease, lease : HeldLease]
      BY <2>1, <3>1 DEF NewGrants
    <3>3. QED
      BY <1>6, <3>2 DEF Commit, TypeOK
  <2>4. Outcome(cluster, e.cmd) \in Reply
    BY DEF Outcome, Reply
  <2>5. call' \in [Node -> CallRecord]
    BY <1>6, <2>1, <2>2, <2>4
    DEF TypeOK, Commit, Answer, ClusterState, CallRecord
  <2>6. QED
    BY <1>6, <2>2, <2>3, <2>5 DEF TypeOK, Commit
<1>7. QED
  BY <1>1, <1>2, <1>3, <1>4, <1>5, <1>6, StepCases

-----------------------------------------------------------------------------
(* Commands in flight keep speaking for the node that issued them: an      *)
(* entry or a forwarded request is a copy of its caller's command.         *)
LEMMA OwnStep ==
  ASSUME TypeOK, CommandsOwn, [Next]_vars
  PROVE  CommandsOwn'
<1>1. CASE UNCHANGED vars
  BY <1>1 DEF CommandsOwn, SpeaksFor, vars
<1>2. ASSUME NEW n \in Node, NEW cmd \in ConsensusCommand,
             SpeaksFor(n, cmd), Call(n, cmd)
      PROVE  CommandsOwn'
  <2>1. \A k \in Node : SpeaksFor(k, call'[k].cmd)
    BY <1>2 DEF Call, Idle, CommandsOwn, TypeOK
  <2>2. \A e \in log' : SpeaksFor(e.by, e.cmd)
    BY <1>2 DEF Call, Append, CommandsOwn
  <2>3. QED
    BY <1>2, <2>1, <2>2 DEF Call, CommandsOwn
<1>3. ASSUME NEW n \in Node, LocalFails(n) \/ ForwardFails(n) \/ Return(n)
      PROVE  CommandsOwn'
  <2>1. SpeaksFor(n, Idle.cmd)
    BY DEF Idle, PausedCmd, SpeaksFor
  <2>2. \A k \in Node : SpeaksFor(k, call'[k].cmd)
    BY <1>3, <2>1
    DEF LocalFails, ForwardFails, Return, Answer, CommandsOwn, TypeOK,
        CallRecord
  <2>3. \A m \in net' : SpeaksFor(m.by, m.cmd)
    BY <1>3 DEF LocalFails, ForwardFails, Return, CommandsOwn
  <2>4. QED
    BY <1>3, <2>2, <2>3 DEF LocalFails, ForwardFails, Return, CommandsOwn
<1>4. ASSUME NEW m \in net, Arrive(m)
      PROVE  CommandsOwn'
  BY <1>4 DEF Arrive, Append, CommandsOwn
<1>5. ASSUME NEW e \in log, LoseEntry(e)
      PROVE  CommandsOwn'
  BY <1>5 DEF LoseEntry, CommandsOwn
<1>6. ASSUME NEW e \in log, Commit(e)
      PROVE  CommandsOwn'
  <2>1. \A k \in Node : call'[k].cmd = call[k].cmd
    BY <1>6 DEF Commit, Answer, TypeOK, CallRecord
  <2>2. QED
    BY <1>6, <2>1 DEF Commit, CommandsOwn
<1>7. QED
  BY <1>1, <1>2, <1>3, <1>4, <1>5, <1>6, StepCases

(* What a commit does to the lease and to the history, in the three cases  *)
(* of ApplyLease.                                                          *)
LEMMA CommitCases ==
  ASSUME TypeOK, CommandsOwn, NEW e \in log, Commit(e)
  PROVE  \/ /\ cluster'.lease = cluster.lease
            /\ cluster'.generation >= cluster.generation
            /\ grants' = grants
            /\ ~(e.cmd.op = "takeover" /\ TakeoverWins(cluster, e.cmd.lease))
         \/ /\ e.cmd.op = "takeover" /\ TakeoverWins(cluster, e.cmd.lease)
            /\ cluster'.lease
                 = [holder |-> e.by, term |-> cluster.generation + 1]
            /\ cluster'.generation = cluster.generation + 1
            /\ grants' = grants \cup {[call |-> e.call,
                                       expected |-> cluster.lease,
                                       lease |-> cluster'.lease]}
         \/ /\ e.cmd \in [op : {"release"}, node : Node, lease : HeldLease]
            /\ e.by = cluster.lease.holder
            /\ e.cmd.lease = cluster.lease
            /\ cluster'.lease = Vacant
            /\ cluster'.generation >= cluster.generation
            /\ grants' = grants
<1>1. /\ cluster \in ClusterState
      /\ e.cmd \in ConsensusCommand
      /\ cluster' = ApplyCommand(cluster, e.cmd)
      /\ grants' = grants \cup NewGrants(e)
  BY DEF TypeOK, LogEntry, Commit
<1>2. SpeaksFor(e.by, e.cmd)
  BY DEF CommandsOwn
<1>3. CASE /\ cluster'.lease = cluster.lease
           /\ cluster'.generation >= cluster.generation
           /\ ~(e.cmd.op = "takeover" /\ TakeoverWins(cluster, e.cmd.lease))
  BY <1>1, <1>3 DEF NewGrants
<1>4. CASE /\ e.cmd \in [op : {"takeover"}, node : Node, lease : AnyLease]
           /\ TakeoverWins(cluster, e.cmd.lease)
           /\ cluster'.lease
                = [holder |-> e.cmd.node, term |-> cluster.generation + 1]
           /\ cluster'.generation = cluster.generation + 1
  <2>1. e.cmd.op = "takeover" /\ e.cmd.node = e.by
    BY <1>2, <1>4 DEF SpeaksFor
  <2>2. e.cmd.lease = cluster.lease
    BY <1>4 DEF TakeoverWins
  <2>3. NewGrants(e) = {[call |-> e.call, expected |-> cluster.lease,
                         lease |-> cluster'.lease]}
    BY <1>1, <1>4, <2>1, <2>2 DEF NewGrants
  <2>4. QED
    BY <1>1, <1>4, <2>1, <2>2, <2>3
<1>5. CASE /\ e.cmd \in [op : {"release"}, node : Node, lease : HeldLease]
           /\ cluster.lease = e.cmd.lease
           /\ cluster'.lease = Vacant
           /\ cluster'.generation >= cluster.generation
  <2>1. e.by = cluster.lease.holder
    BY <1>2, <1>5 DEF SpeaksFor
  <2>2. grants' = grants
    BY <1>1, <1>5 DEF NewGrants
  <2>3. QED
    BY <1>5, <2>1, <2>2
<1>6. QED
  BY <1>1, <1>3, <1>4, <1>5, ApplyLease

(* Only a commit touches the document or the history of grants.            *)
LEMMA OnlyCommit ==
  ASSUME TypeOK, [Next]_vars
  PROVE  \/ cluster' = cluster /\ grants' = grants
         \/ \E e \in log : Commit(e)
BY StepCases
DEF vars, Call, LocalFails, ForwardFails, Return, Arrive, LoseEntry

(* A new grant is younger than every other one, and deposes the lease in   *)
(* force: the invariant on grants survives it because no older grant can   *)
(* have the term generation + 1, nor have deposed the lease in force.      *)
LEMMA LeaseStep ==
  ASSUME TypeOK, CommandsOwn, LeaseInv, [Next]_vars
  PROVE  LeaseInv'
<1>1. CASE cluster' = cluster /\ grants' = grants
  BY <1>1 DEF LeaseInv, TermsUnique, OneSuccessor, LatestInForce, TermsBelow,
              ExpectedOlder
<1>2. ASSUME NEW e \in log, Commit(e)
      PROVE  LeaseInv'
  <2> cluster.generation \in Nat /\ cluster.lease \in AnyLease
    BY DEF TypeOK, ClusterState
  <2> \A g \in grants : g.lease.term \in Nat /\ g.expected.term \in Nat
    BY DEF TypeOK, HeldLease, AnyLease, Vacant
  <2> cluster.lease # Vacant => cluster.lease.term \in Nat
    BY DEF AnyLease, HeldLease
  <2>1. CASE /\ cluster'.lease = cluster.lease
             /\ cluster'.generation >= cluster.generation
             /\ grants' = grants
    <3>1. cluster'.generation \in Nat
      BY TypeStep DEF TypeOK, ClusterState
    <3>2. TermsBelow'
      BY <2>1, <3>1 DEF LeaseInv, TermsBelow
    <3>3. QED
      BY <2>1, <3>2 DEF LeaseInv, TermsUnique, OneSuccessor, LatestInForce,
                        ExpectedOlder
  <2>2. CASE /\ cluster'.lease
                  = [holder |-> e.by, term |-> cluster.generation + 1]
             /\ cluster'.generation = cluster.generation + 1
             /\ grants' = grants \cup {[call |-> e.call,
                                        expected |-> cluster.lease,
                                        lease |-> cluster'.lease]}
    <3> DEFINE new == [call |-> e.call, expected |-> cluster.lease,
                       lease |-> cluster'.lease]
    <3>1. /\ new.lease.term = cluster.generation + 1
          /\ new.expected = cluster.lease
          /\ new.lease = cluster'.lease
          /\ cluster'.lease.term = cluster.generation + 1
      BY <2>2
    <3> HIDE DEF new
    <3>2. \A g \in grants : g.lease.term < new.lease.term
      BY <3>1 DEF LeaseInv, TermsBelow
    <3>3. cluster.lease.term <= cluster.generation
      <4>1. CASE cluster.lease = Vacant
        BY <4>1 DEF Vacant
      <4>2. CASE cluster.lease # Vacant
        BY <4>2 DEF LeaseInv, LatestInForce, TermsBelow
      <4>3. QED
        BY <4>1, <4>2
    <3>4. cluster.lease.term \in Nat
      BY DEF AnyLease, HeldLease, Vacant
    <3>5. ASSUME NEW g \in grants, g.expected = cluster.lease,
                 cluster.lease # Vacant
          PROVE  FALSE
      <4>1. g.lease.term <= cluster.lease.term
        BY <3>5 DEF LeaseInv, LatestInForce
      <4>2. cluster.lease.term < g.lease.term
        BY <3>5 DEF LeaseInv, ExpectedOlder
      <4>3. QED
        BY <3>4, <4>1, <4>2
    <3>6. grants' = grants \cup {new}
      BY <2>2 DEF new
    <3>7. TermsUnique'
      <4> SUFFICES ASSUME NEW g \in grants', NEW h \in grants',
                          g.lease.term = h.lease.term
                   PROVE  g = h
        BY DEF TermsUnique
      <4> QED
        BY <3>1, <3>2, <3>6 DEF LeaseInv, TermsUnique
    <3>8. OneSuccessor'
      <4> SUFFICES ASSUME NEW g \in grants', NEW h \in grants',
                          g.expected = h.expected, g.expected # Vacant
                   PROVE  g = h
        BY DEF OneSuccessor
      <4> QED
        BY <3>1, <3>5, <3>6 DEF LeaseInv, OneSuccessor
    <3>9. LatestInForce'
      BY <3>1, <3>2, <3>6 DEF LatestInForce
    <3>10. TermsBelow'
      BY <2>2, <3>1, <3>6 DEF LeaseInv, TermsBelow
    <3>11. ExpectedOlder'
      BY <3>1, <3>3, <3>4, <3>6 DEF LeaseInv, ExpectedOlder
    <3>12. QED
      BY <3>7, <3>8, <3>9, <3>10, <3>11 DEF LeaseInv
  <2>3. CASE /\ cluster'.lease = Vacant
             /\ cluster'.generation >= cluster.generation
             /\ grants' = grants
    <3>1. cluster'.generation \in Nat
      BY TypeStep DEF TypeOK, ClusterState
    <3>2. TermsBelow'
      BY <2>3, <3>1 DEF LeaseInv, TermsBelow
    <3>3. QED
      BY <2>3, <3>2 DEF LeaseInv, TermsUnique, OneSuccessor, LatestInForce,
                        ExpectedOlder
  <2>4. QED
    BY <1>2, <2>1, <2>2, <2>3, CommitCases
<1>3. QED
  BY <1>1, <1>2, OnlyCommit

(* A Won is answered only by the commit that grants, to the call that      *)
(* asked; later steps keep the grant and the record of the call, until the *)
(* call is over.                                                           *)
LEMMA WonStep ==
  ASSUME TypeOK, CommandsOwn, WonIsTrue, [Next]_vars
  PROVE  WonIsTrue'
<1>1. CASE UNCHANGED vars
  BY <1>1 DEF WonIsTrue, vars
<1>2. ASSUME NEW n \in Node, NEW cmd \in ConsensusCommand, Call(n, cmd)
      PROVE  WonIsTrue'
  BY <1>2 DEF Call, Idle, WonIsTrue, TypeOK
<1>3. ASSUME NEW n \in Node, LocalFails(n) \/ ForwardFails(n) \/ Return(n)
      PROVE  WonIsTrue'
  <2>1. /\ grants' = grants
        /\ \A k \in Node :
             \/ call'[k].reply # "Won"
             \/ /\ call'[k].id = call[k].id
                /\ call'[k].lease = call[k].lease
                /\ call'[k].reply = call[k].reply
    <3>1. grants' = grants /\ call \in [Node -> CallRecord]
      BY <1>3 DEF LocalFails, ForwardFails, Return, TypeOK
    <3>2. CASE call' = [call EXCEPT ![n].stage = "forwarded"]
      BY <3>1, <3>2 DEF CallRecord
    <3>3. CASE Answer(n, "Err", Vacant)
      BY <3>1, <3>3 DEF Answer, CallRecord
    <3>4. CASE call' = [call EXCEPT ![n] = Idle]
      BY <3>1, <3>4 DEF Idle
    <3>5. QED
      BY <1>3, <3>2, <3>3, <3>4 DEF LocalFails, ForwardFails, Return
  <2>2. QED
    BY <2>1 DEF WonIsTrue
<1>4. ASSUME NEW m \in net, Arrive(m)
      PROVE  WonIsTrue'
  BY <1>4 DEF Arrive, WonIsTrue
<1>5. ASSUME NEW e \in log, LoseEntry(e)
      PROVE  WonIsTrue'
  BY <1>5 DEF LoseEntry, WonIsTrue
<1>6. ASSUME NEW e \in log, Commit(e)
      PROVE  WonIsTrue'
  <2>1. grants \subseteq grants'
    BY <1>6 DEF Commit
  <2>2. CASE UNCHANGED call
    BY <2>1, <2>2 DEF WonIsTrue
  <2>3. CASE /\ call[e.by].id = e.call
             /\ Answer(e.by, Outcome(cluster, e.cmd), cluster'.lease)
    <3>1. \A k \in Node \ {e.by} : call'[k] = call[k]
      BY <2>3 DEF Answer, TypeOK
    <3>2. e.by \in Node
      BY DEF TypeOK, LogEntry
    <3>3. /\ call'[e.by].reply = Outcome(cluster, e.cmd)
          /\ call'[e.by].id = e.call
          /\ call'[e.by].lease = cluster'.lease
      BY <2>3, <3>2 DEF Answer, TypeOK, CallRecord
    <3>4. ASSUME Outcome(cluster, e.cmd) = "Won"
          PROVE  /\ cluster'.lease.holder = e.by
                 /\ \E g \in grants' :
                      g.call = e.call /\ g.lease = cluster'.lease
      <4>1. e.cmd \in ConsensusCommand
        BY DEF TypeOK, LogEntry
      <4>2. e.cmd.op = "takeover" /\ TakeoverWins(cluster, e.cmd.lease)
        BY <3>4, <4>1 DEF Outcome, ConsensusCommand
      <4>3. /\ cluster'.lease
                 = [holder |-> e.by, term |-> cluster.generation + 1]
            /\ grants' = grants \cup {[call |-> e.call,
                                       expected |-> cluster.lease,
                                       lease |-> cluster'.lease]}
        BY <1>6, <4>2, CommitCases
      <4> DEFINE new == [call |-> e.call, expected |-> cluster.lease,
                         lease |-> cluster'.lease]
      <4>4. new \in grants' /\ new.call = e.call /\ new.lease = cluster'.lease
        BY <4>3
      <4>5. cluster'.lease.holder = e.by
        BY <4>3
      <4>6. QED
        BY <4>4, <4>5
    <3>5. QED
      BY <2>1, <3>1, <3>2, <3>3, <3>4 DEF WonIsTrue
  <2>4. QED
    BY <1>6, <2>2, <2>3 DEF Commit
<1>7. QED
  BY <1>1, <1>2, <1>3, <1>4, <1>5, <1>6, StepCases

-----------------------------------------------------------------------------
(* The invariant holds before the first call.                              *)
LEMMA InitInv == Init => IInv
<1> SUFFICES ASSUME Init PROVE IInv
  OBVIOUS
<1>1. TypeOK
  <2>1. cluster \in ClusterState
    BY DEF Init, EmptyState, ClusterState, AnyLease
  <2>2. QED
    BY <2>1, IdleTyped DEF Init, TypeOK
<1>2. CommandsOwn
  BY DEF Init, CommandsOwn, SpeaksFor, Idle, PausedCmd
<1>3. LeaseInv
  BY DEF Init, EmptyState, LeaseInv, TermsUnique, OneSuccessor, LatestInForce,
         TermsBelow, ExpectedOlder
<1>4. WonIsTrue
  BY DEF Init, WonIsTrue, Idle
<1>5. QED
  BY <1>1, <1>2, <1>3, <1>4 DEF IInv

(* ... and is preserved by every step.                                     *)
LEMMA NextInv == IInv /\ [Next]_vars => IInv'
BY TypeStep, OwnStep, LeaseStep, WonStep DEF IInv

(* The inductive invariant of the lease store.                             *)
THEOREM Invariance == Spec => []IInv
BY InitInv, NextInv, PTL DEF Spec

(* The store keeps its types: what is replicated is always a ClusterState, *)
(* and a release always names a lease somebody held.                       *)
THEOREM TypeCorrect == Spec => []TypeOK
<1>1. IInv => TypeOK
  BY DEF IInv
<1>2. QED
  BY <1>1, Invariance, PTL

(* Terms are fencing tokens: none is ever granted twice.                   *)
THEOREM Fencing == Spec => []TermsUnique
<1>1. IInv => TermsUnique
  BY DEF IInv, LeaseInv
<1>2. QED
  BY <1>1, Invariance, PTL

(* However many copies of however many takeovers are in the log or on the  *)
(* wire, a held lease is deposed at most once.                             *)
THEOREM SingleSuccessor == Spec => []OneSuccessor
<1>1. IInv => OneSuccessor
  BY DEF IInv, LeaseInv
<1>2. QED
  BY <1>1, Invariance, PTL

(* The lease in force is the youngest one granted.                         *)
THEOREM LatestWins == Spec => []LatestInForce
<1>1. IInv => LatestInForce
  BY DEF IInv, LeaseInv
<1>2. QED
  BY <1>1, Invariance, PTL

(* A caller told Won was granted that very lease by that very call.        *)
THEOREM WonSound == Spec => []WonIsTrue
<1>1. IInv => WonIsTrue
  BY DEF IInv
<1>2. QED
  BY <1>1, Invariance, PTL

-----------------------------------------------------------------------------
(* The step a vacancy can come from: only the commit of a release its own  *)
(* holder issued for the term in force.                                    *)
LEMMA VacatesOwnStep ==
  ASSUME IInv, [Next]_vars
  PROVE  VacatesOwn
<1> SUFFICES ASSUME cluster.lease # Vacant, cluster'.lease = Vacant
             PROVE  \E e \in log : /\ e \notin log'
                                   /\ e.by = cluster.lease.holder
                                   /\ e.cmd = ReleaseCmd(cluster.lease)
  BY DEF VacatesOwn
<1>1. PICK e \in log : Commit(e)
  BY OnlyCommit DEF IInv
<1>2. e.by \in Node
  BY DEF IInv, TypeOK, LogEntry
<1>3. [holder |-> e.by, term |-> cluster.generation + 1] # Vacant
  BY <1>2, NoNodeAssumption DEF Vacant
<1>4. /\ e.cmd \in [op : {"release"}, node : Node, lease : HeldLease]
      /\ e.by = cluster.lease.holder
      /\ e.cmd.lease = cluster.lease
  BY <1>1, <1>3, CommitCases DEF IInv
<1>5. e.cmd.node = e.by
  BY <1>4 DEF IInv, CommandsOwn, SpeaksFor
<1>6. e.cmd = ReleaseCmd(cluster.lease)
  BY <1>4, <1>5 DEF ReleaseCmd
<1>7. e \notin log'
  BY <1>1 DEF Commit
<1>8. QED
  BY <1>4, <1>6, <1>7

(* A stale holder never clobbers its successor's lease.                    *)
THEOREM ReleaseIsOwn == Spec => NoClobber
<1>1. IInv /\ [Next]_vars => [VacatesOwn]_vars
  BY VacatesOwnStep
<1>2. QED
  BY <1>1, Invariance, PTL DEF Spec, NoClobber

-----------------------------------------------------------------------------
(* A step of the store is a step of the abstract lease or leaves it alone. *)
LEMMA AbstractStep ==
  ASSUME IInv, [Next]_vars
  PROVE  [AL!ANext]_(AL!avars)
<1> DEFINE granted == {g.lease : g \in grants}
<1>1. CASE cluster' = cluster /\ grants' = grants
  BY <1>1 DEF AL!avars
<1>2. ASSUME NEW e \in log, Commit(e)
      PROVE  [AL!ANext]_(AL!avars)
  <2>1. e.by \in Node /\ cluster.generation \in Nat
    BY DEF IInv, TypeOK, LogEntry, ClusterState
  <2>2. CASE cluster'.lease = cluster.lease /\ grants' = grants
    BY <2>2 DEF AL!avars
  <2>3. CASE /\ cluster'.lease
                  = [holder |-> e.by, term |-> cluster.generation + 1]
             /\ grants' = grants \cup {[call |-> e.call,
                                        expected |-> cluster.lease,
                                        lease |-> cluster'.lease]}
    <3>1. \A g \in granted : g.term < cluster'.lease.term
      BY <2>1, <2>3 DEF IInv, LeaseInv, TermsBelow, TypeOK, HeldLease
    <3>2. granted' = granted \cup {cluster'.lease}
      <4> DEFINE new == [call |-> e.call, expected |-> cluster.lease,
                         lease |-> cluster'.lease]
      <4>1. grants' = grants \cup {new} /\ new.lease = cluster'.lease
        BY <2>3
      <4> HIDE DEF new
      <4>2. QED
        BY <4>1
    <3>3. /\ cluster'.lease = [holder |-> e.by, term |-> cluster'.lease.term]
          /\ cluster'.lease.term \in Nat \ {0}
      BY <2>1, <2>3
    <3>4. AL!Grant(e.by)
      BY <3>1, <3>2, <3>3 DEF AL!Grant
    <3>5. QED
      BY <2>1, <3>4 DEF AL!ANext
  <2>4. CASE /\ e.cmd.lease \in HeldLease
             /\ e.cmd.lease = cluster.lease
             /\ cluster'.lease = Vacant
             /\ grants' = grants
    <3>1. cluster.lease # AL!NoLease
      BY <2>4, NoNodeAssumption DEF HeldLease, AL!NoLease
    <3>2. AL!Vacate
      BY <2>4, <3>1 DEF AL!Vacate, AL!NoLease, Vacant
    <3>3. QED
      BY <3>2 DEF AL!ANext
  <2>5. QED
    BY <1>2, <2>2, <2>3, <2>4, CommitCases DEF IInv
<1>3. QED
  BY <1>1, <1>2, OnlyCommit DEF IInv

(* The store implements the abstract lease: seen through the lease in      *)
(* force and the leases granted, it is a sequence of grants under growing  *)
(* terms and of vacancies.                                                 *)
THEOREM Refinement == Spec => ImplementsLease
<1>1. Init => AL!AInit
  BY DEF Init, EmptyState, Vacant, AL!AInit, AL!NoLease
<1>2. IInv /\ [Next]_vars => [AL!ANext]_(AL!avars)
  BY AbstractStep
<1>3. QED
  BY <1>1, <1>2, Invariance, PTL DEF Spec, ImplementsLease, AL!ASpec
=============================================================================
