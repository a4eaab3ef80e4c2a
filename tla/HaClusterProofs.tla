-------------------------- MODULE HaClusterProofs --------------------------
(***************************************************************************)
(* Proofs about HaCluster, for every pool of nodes, every timing the       *)
(* configuration accepts and any number of faults: terms fence, what was   *)
(* acknowledged stays on two nodes, the ttl protects the holder, and one   *)
(* broken link moves nothing.  The four rest on one inductive invariant,   *)
(* IInv, and the last three add their own to it.                           *)
(***************************************************************************)
EXTENDS HaCluster, FiniteSetTheorems, SequenceTheorems, TLAPS

(* The decisions that let the executor act for the lease's holder.         *)
OwnKinds == {"TookOver", "AwaitingPromotion", "RetainedLease", "Claimed"}

(* Such a decision was taken on a lease of this node's own.                *)
DecisionOK(n, x) ==
  x.at = "release" \/ (x.at = "apply" /\ x.dec.kind \in OwnKinds)
    => x.dec.lease \in HeldLease /\ x.dec.lease.holder = n

DecisionInv == \A n \in Node : DecisionOK(n, agent[n])

(* Every lease somebody still acts on, the one each instance was last      *)
(* promoted under included.                                                *)
InPlay ==
  {store.lease} \cup {agent[n].view.lease : n \in Node}
    \cup {agent[n].dec.lease : n \in Node}
    \cup {[holder |-> n, term |-> mandate[n]] : n \in Node}

(* A term names one lease, and a term yet to be minted names none.         *)
TermInv ==
  /\ \A l \in InPlay : l.term \in 0 .. store.generation
  /\ \A l, k \in InPlay : l.term = k.term /\ l.term > 0 => l = k

(* An instance is, or is about to be, a primary only under a term.         *)
PromotedInv ==
  \A n \in Node :
    /\ pg[n].promoting => pg[n].shape = "standby"
    /\ pg[n].promoting \/ pg[n].shape = "primary" => mandate[n] > 0

IInv == TypeOK /\ DecisionInv /\ TermInv /\ PromotedInv
-----------------------------------------------------------------------------
(* Constants and initial values have their types.                          *)
LEMMA Constants ==
  /\ LoopWait \in Nat /\ LeaderTtl \in Nat /\ RetryTimeout \in Nat
  /\ MaxAge \in Nat /\ MaxAge > 0 /\ MaxFaults \in Nat
  /\ NoClock \in Age /\ 0 \in Age /\ MaxAge \in Age
  /\ \A a \in Age : Older(a) \in Age
  /\ \A a \in 0 .. MaxAge : Older(a) \in 0 .. MaxAge /\ a \in Age
  /\ Backoffs \subseteq 0 .. 2 * LoopWait
<1>1. LoopWait \in Nat /\ LeaderTtl \in Nat /\ RetryTimeout \in Nat /\ MaxFaults \in Nat
  BY TimingAssumption, ClusterAssumption
<1>2. MaxAge \in Nat /\ MaxAge > 0
  BY <1>1 DEF MaxAge
<1> HIDE DEF MaxAge
<1>3. /\ NoClock \in Age /\ 0 \in Age /\ MaxAge \in Age
      /\ \A a \in Age : Older(a) \in Age
      /\ \A a \in 0 .. MaxAge : Older(a) \in 0 .. MaxAge /\ a \in Age
  BY <1>2 DEF Age, NoClock, Older
<1>4. Backoffs \subseteq 0 .. 2 * LoopWait
  BY <1>1 DEF Backoffs
<1>5. QED
  BY <1>1, <1>2, <1>3, <1>4

LEMMA Leases ==
  /\ Vacant \in AnyLease /\ Vacant.term = 0 /\ Vacant.holder = NoNode
  /\ \A l \in AnyLease : /\ l.holder \in AnyNode /\ l.term \in Nat
                         /\ l.holder \in Node => l \in HeldLease
  /\ HeldLease \subseteq AnyLease
  /\ \A l \in HeldLease : l.holder \in Node /\ l.term \in Nat /\ l.term > 0
BY NoNodeAssumption DEF AnyLease, HeldLease, Vacant, AnyNode

LEMMA FreshTyped ==
  /\ FreshTickState \in TickState /\ FreshExecutor \in Executor
  /\ NoSample \in [Node -> Nat \X Nat]
  /\ NoView \in [known : BOOLEAN, lease : AnyLease, paused : BOOLEAN]
  /\ NoDecision \in [kind : Decisions, lease : AnyLease]
  /\ \A n \in Node : NeverSeen(n) \in [Peers(n) -> 0 .. MaxAge]
  /\ \A at \in Stages : Awake(at) \in Agent
<1>1. NoSample \in [Node -> Nat \X Nat]
  BY DEF NoSample, NoPos
<1>2. /\ NoView \in [known : BOOLEAN, lease : AnyLease, paused : BOOLEAN]
      /\ NoDecision \in [kind : Decisions, lease : AnyLease]
  BY Leases DEF NoView, NoDecision, Decisions
<1>3. FreshTickState \in TickState
  BY <1>1, Constants DEF FreshTickState, TickState, AnyNode
<1>4. FreshExecutor \in Executor
  BY Constants DEF FreshExecutor, Executor, AnyNode
<1>5. \A n \in Node : NeverSeen(n) \in [Peers(n) -> 0 .. MaxAge]
  BY Constants DEF NeverSeen
<1>6. \A at \in Stages : Awake(at) \in Agent
  BY <1>2, Constants DEF Awake, Agent
<1>7. QED
  BY <1>1, <1>2, <1>3, <1>4, <1>5, <1>6

-----------------------------------------------------------------------------
(* What the groups of actions leave alone.                                 *)
LEMMA LoopFrame ==
  ASSUME NEW n \in Node, Loop(n)
  PROVE  UNCHANGED <<pg, cut, acked, risked, exec, mandate>>
BY DEF Loop, Tick, TickRead, TickStoreUnknown, TickPaused, TickHolder,
       TickFollower, TickWatch, TickDepose, TickVacant, TakeoverWon,
       TakeoverLost, TakeoverFails, ReleaseLease, Observing, exvars, pgvars

LEMMA ExecutorFrame ==
  ASSUME NEW n \in Node, Apply(n)
  PROVE  UNCHANGED <<store, late, ts, seen, tenure, cut, acked, risked>>
BY DEF Apply, ApplyPromote, PromotionSeen, PromotionTimesOut, ApplyDemote,
       FollowAsPrimary, FollowConfirmed, Follow, FollowNothing, ApplyDetach,
       ApplyRetain, Fence, pgvars

LEMMA StartupFrame ==
  ASSUME NEW n \in Node, Startup(n)
  PROVE  UNCHANGED <<store, late, ts, tenure, cut, acked, risked, exec, mandate>>
BY DEF Startup, StartVerify, ColdStart, StartPostgres, pgvars, exvars

LEMMA DatabaseFrame ==
  ASSUME NEW n \in Node, Database(n)
  PROVE  UNCHANGED <<store, late, agent, ts, seen, faults, tenure, cut, exec, mandate>>
BY DEF Database, Write, Acknowledge, Replicate, PromotionEnds, havars, exvars

LEMMA FaultsFrame ==
  ASSUME NEW n \in Node, Faults(n)
  PROVE  UNCHANGED <<store, late, tenure, acked, cut, mandate>>
BY DEF Faults, AgentStart, AgentCrash, HostCrash, PgCrash, PgDeaf, Rejoin,
       AgentDown, pgvars, exvars

-----------------------------------------------------------------------------
(* The agents.  After a step every agent acts on a lease that was in play  *)
(* before it, or on the one the step has made.                             *)
Placed(n, x) ==
  /\ x \in Agent /\ DecisionOK(n, x)
  /\ x.view.lease \in InPlay \cup {Vacant}
  /\ x.dec.lease \in InPlay \cup {Vacant, store'.lease}

AgentsPlaced == /\ agent' \in [Node -> Agent]
                /\ \A m \in Node : Placed(m, agent'[m])

LEMMA AgentFacts ==
  ASSUME IInv, NEW n \in Node
  PROVE  /\ agent \in [Node -> Agent] /\ agent[n] \in Agent
         /\ agent[n].at \in Stages /\ agent[n].wait \in 0 .. LoopWait
         /\ agent[n].age \in 0 .. MaxAge
         /\ agent[n].view \in [known : BOOLEAN, lease : AnyLease, paused : BOOLEAN]
         /\ agent[n].dec \in [kind : Decisions, lease : AnyLease]
         /\ agent[n].view.lease \in AnyLease /\ agent[n].dec.lease \in AnyLease
         /\ agent[n].dec.kind \in Decisions
         /\ agent[n].view.lease \in InPlay /\ agent[n].dec.lease \in InPlay
         /\ store.lease \in InPlay /\ store.lease \in AnyLease
         /\ DecisionOK(n, agent[n]) /\ Placed(n, agent[n])
<1>1. agent \in [Node -> Agent] /\ agent[n] \in Agent /\ DecisionOK(n, agent[n])
  BY DEF IInv, TypeOK, DecisionInv
<1>2. agent[n].view.lease \in InPlay /\ agent[n].dec.lease \in InPlay
        /\ store.lease \in InPlay
  BY DEF InPlay
<1>3. /\ agent[n].at \in Stages /\ agent[n].wait \in 0 .. LoopWait
      /\ agent[n].age \in 0 .. MaxAge
      /\ agent[n].view \in [known : BOOLEAN, lease : AnyLease, paused : BOOLEAN]
      /\ agent[n].dec \in [kind : Decisions, lease : AnyLease]
  BY <1>1 DEF Agent
<1>4. store.lease \in AnyLease
  BY DEF IInv, TypeOK, ClusterState
<1>5. Placed(n, agent[n])
  BY <1>1, <1>2 DEF Placed
<1>6. QED
  BY <1>1, <1>2, <1>3, <1>4, <1>5

LEMMA OneMoves ==
  ASSUME IInv, NEW n \in Node, NEW x, Placed(n, x), agent' = [agent EXCEPT ![n] = x]
  PROVE  AgentsPlaced
<1>1. agent \in [Node -> Agent]
  BY AgentFacts
<1>2. ASSUME NEW m \in Node
      PROVE  Placed(m, agent'[m])
  <2>1. CASE m = n
    BY <1>1, <2>1
  <2>2. CASE m # n
    <3>1. agent'[m] = agent[m]
      BY <1>1, <2>2
    <3>2. QED
      BY <3>1, AgentFacts
  <2>3. QED
    BY <2>1, <2>2
<1>3. x \in Agent
  BY DEF Placed
<1>4. agent' \in [Node -> Agent]
  BY <1>1, <1>3
<1>5. QED
  BY <1>2, <1>4 DEF AgentsPlaced

LEMMA GoPlaces ==
  ASSUME IInv, NEW n \in Node, NEW at \in Stages, NEW kind \in Decisions,
         NEW lease \in AnyLease, lease \in InPlay \cup {Vacant, store'.lease},
         at = "release" \/ (at = "apply" /\ kind \in OwnKinds) => lease.holder = n,
         Go(n, at, kind, lease)
  PROVE  AgentsPlaced
<1> DEFINE x == [at |-> at, view |-> NoView, dec |-> [kind |-> kind, lease |-> lease],
                 wait |-> LoopWait, age |-> 0]
<1>1. agent' = [agent EXCEPT ![n] = x]
  BY DEF Go
<1>2. x \in Agent
  BY FreshTyped, Constants DEF Agent
<1>3. x.view.lease = Vacant /\ x.dec.lease = lease /\ x.at = at /\ x.dec.kind = kind
  BY DEF NoView
<1> HIDE DEF x
<1>4. DecisionOK(n, x)
  BY <1>3, Leases DEF DecisionOK
<1>5. Placed(n, x)
  BY <1>2, <1>3, <1>4 DEF Placed
<1>6. QED
  BY <1>1, <1>5, OneMoves

LEMMA SleepPlaces ==
  ASSUME IInv, NEW n \in Node, Sleep(n)
  PROVE  AgentsPlaced
<1>1. Vacant \in AnyLease /\ "sleep" \in Stages /\ "none" \in Decisions
  BY Leases DEF Stages, Decisions
<1>2. QED
  BY <1>1, GoPlaces DEF Sleep

LEMMA AwakePlaces ==
  ASSUME IInv, NEW n \in Node, NEW at \in {"verify", "down"},
         agent' = [agent EXCEPT ![n] = Awake(at)]
  PROVE  AgentsPlaced
<1>1. Awake(at) \in Agent
  BY FreshTyped DEF Stages
<1>2. Awake(at).at = at /\ Awake(at).view.lease = Vacant /\ Awake(at).dec.lease = Vacant
  BY DEF Awake, NoView, NoDecision
<1>3. Placed(n, Awake(at))
  BY <1>1, <1>2 DEF Placed, DecisionOK
<1>4. QED
  BY <1>3, OneMoves

LEMMA UnchangedPlaces ==
  ASSUME IInv, UNCHANGED agent
  PROVE  AgentsPlaced
<1>1. agent \in [Node -> Agent]
  BY DEF IInv, TypeOK
<1>2. QED
  BY <1>1, AgentFacts DEF AgentsPlaced

-----------------------------------------------------------------------------
(* The store.  A lease is kept, vacated, or minted with the next           *)
(* generation as its term.                                                 *)
StoreMoves ==
  /\ store' \in ClusterState /\ store'.generation >= store.generation
  /\ \/ store'.lease = store.lease
     \/ store'.lease = Vacant
     \/ /\ store'.generation = store.generation + 1
        /\ \E c \in Node :
             store'.lease = [holder |-> c, term |-> store.generation + 1]

(* What is written into the document keeps its type.                       *)
LEMMA LeaseTyped ==
  ASSUME NEW s \in ClusterState, NEW n \in Node
  PROVE  /\ s.generation + 1 \in Nat
         /\ [holder |-> n, term |-> s.generation + 1] \in AnyLease
         /\ Vacant \in AnyLease
BY DEF AnyLease, HeldLease, ClusterState

LEMMA WriteTyped ==
  ASSUME NEW s \in ClusterState, NEW l \in AnyLease, NEW g \in Nat
  PROVE  [s EXCEPT !.generation = g, !.lease = l] \in ClusterState
BY DEF ClusterState

LEMMA WritePausedTyped ==
  ASSUME NEW s \in ClusterState, NEW p \in BOOLEAN, NEW g \in Nat
  PROVE  [s EXCEPT !.generation = g, !.paused = p] \in ClusterState
BY DEF ClusterState

(* The commands an agent writes to the log on its own.                     *)
AgentCommand ==
  [op : {"takeover"}, node : Node, lease : AnyLease]
    \cup [op : {"release"}, node : Node, lease : HeldLease]

LEMMA CommandMoves ==
  ASSUME IInv, NEW cmd \in AgentCommand, store' = ApplyCommand(store, cmd)
  PROVE  StoreMoves
<1>1. store \in ClusterState /\ store.generation \in Nat /\ store.generation + 1 \in Nat
  BY DEF IInv, TypeOK, ClusterState
<1>2. CASE store' = store
  BY <1>1, <1>2 DEF StoreMoves
<1>3. ASSUME NEW l \in AnyLease,
             store' = [store EXCEPT !.generation = store.generation + 1, !.lease = l]
      PROVE  /\ store' \in ClusterState /\ store'.lease = l
             /\ store'.generation = store.generation + 1
  <2>1. store' \in ClusterState
    BY <1>1, <1>3, WriteTyped
  <2>2. QED
    BY <1>1, <1>3, <2>1 DEF ClusterState
<1>4. CASE cmd \in [op : {"takeover"}, node : Node, lease : AnyLease]
  <2> DEFINE l == [holder |-> cmd.node, term |-> store.generation + 1]
  <2>1. cmd.node \in Node /\ l \in AnyLease
    BY <1>1, <1>4, LeaseTyped
  <2>2. \/ store' = store
        \/ store' = [store EXCEPT !.generation = store.generation + 1, !.lease = l]
    BY <1>1, <1>4 DEF ApplyCommand, ApplyTakeover
  <2>3. ASSUME store' = [store EXCEPT !.generation = store.generation + 1, !.lease = l]
        PROVE  StoreMoves
    <3>1. /\ store' \in ClusterState /\ store'.lease = l
          /\ store'.generation = store.generation + 1
      BY <1>3, <2>1, <2>3
    <3>2. store'.generation >= store.generation
      BY <1>1, <3>1
    <3>3. QED
      BY <2>1, <3>1, <3>2 DEF StoreMoves
  <2>4. QED
    BY <1>2, <2>2, <2>3
<1>5. CASE cmd \in [op : {"release"}, node : Node, lease : HeldLease]
  <2>1. \/ store' = store
        \/ store' = [store EXCEPT !.generation = store.generation + 1, !.lease = Vacant]
    BY <1>1, <1>5 DEF ApplyCommand, ApplyRelease
  <2>2. ASSUME store' = [store EXCEPT !.generation = store.generation + 1,
                                      !.lease = Vacant]
        PROVE  StoreMoves
    <3>1. /\ store' \in ClusterState /\ store'.lease = Vacant
          /\ store'.generation = store.generation + 1
      BY <1>3, <2>2, Leases
    <3>2. store'.generation >= store.generation
      BY <1>1, <3>1
    <3>3. QED
      BY <3>1, <3>2 DEF StoreMoves
  <2>3. QED
    BY <1>2, <2>1, <2>2
<1>6. QED
  BY <1>4, <1>5 DEF AgentCommand

LEMMA ProposalWins ==
  ASSUME IInv, NEW n \in Node, TakeoverWins(store, agent[n].dec.lease),
         store' = ApplyCommand(store, Proposal(n))
  PROVE  /\ StoreMoves
         /\ store'.lease = [holder |-> n, term |-> store.generation + 1]
         /\ store'.lease \in AnyLease
<1>1. store \in ClusterState /\ agent[n].dec.lease \in AnyLease
  BY AgentFacts DEF IInv, TypeOK
<1>2. /\ Proposal(n) \in AgentCommand /\ Proposal(n).op = "takeover"
      /\ Proposal(n).node = n /\ Proposal(n).lease = agent[n].dec.lease
  BY <1>1 DEF Proposal, TakeoverCmd, AgentCommand
<1>3. StoreMoves
  BY <1>2, CommandMoves
<1>4. store' = ApplyTakeover(store, n, agent[n].dec.lease)
  BY <1>2 DEF ApplyCommand
<1>5. store'.lease = [holder |-> n, term |-> store.generation + 1]
  BY <1>1, <1>4 DEF ApplyTakeover, ClusterState
<1>6. QED
  BY <1>1, <1>3, <1>5, LeaseTyped

LEMMA StoreStep ==
  ASSUME IInv, [Next]_vars
  PROVE  StoreMoves
<1>1. store \in ClusterState /\ store.generation \in Nat
  BY DEF IInv, TypeOK, ClusterState
<1>2. CASE UNCHANGED store
  BY <1>1, <1>2 DEF StoreMoves
<1>3. CASE UNCHANGED vars
  BY <1>2, <1>3 DEF vars, havars
<1>4. ASSUME NEW n \in Node, Loop(n)
      PROVE  StoreMoves
  <2>1. CASE TakeoverWon(n)
    BY <2>1, ProposalWins DEF TakeoverWon
  <2>2. CASE ReleaseLease(n)
    <3>1. agent[n].dec.lease \in HeldLease
      BY <2>2, AgentFacts DEF ReleaseLease, DecisionOK
    <3>2. ReleaseCmd(agent[n].dec.lease) \in AgentCommand
      BY <3>1, Leases DEF ReleaseCmd, AgentCommand
    <3>3. QED
      BY <1>2, <2>2, <3>2, CommandMoves DEF ReleaseLease
  <2>3. CASE ~TakeoverWon(n) /\ ~ReleaseLease(n)
    <3>1. UNCHANGED store
      BY <1>4, <2>3
      DEF Loop, Tick, TickRead, TickStoreUnknown, TickPaused, TickHolder,
          TickFollower, TickWatch, TickDepose, TickVacant, TakeoverLost,
          TakeoverFails, Observing
    <3>2. QED
      BY <1>2, <3>1
  <2>4. QED
    BY <2>1, <2>2, <2>3
<1>5. ASSUME NEW n \in Node, Apply(n) \/ Startup(n) \/ Database(n) \/ Faults(n)
      PROVE  StoreMoves
  BY <1>2, <1>5, ExecutorFrame, StartupFrame, DatabaseFrame, FaultsFrame
<1>6. ASSUME NEW cmd \in late, CommitLate(cmd)
      PROVE  StoreMoves
  <2>1. cmd \in AgentCommand
    BY DEF IInv, TypeOK, AgentCommand
  <2>2. QED
    BY <1>6, <2>1, CommandMoves DEF CommitLate
<1>7. CASE Partition \/ Heal \/ Elapse
  BY <1>2, <1>7 DEF Partition, Heal, Elapse
<1>8. CASE SetPaused
  <2>1. store' = [store EXCEPT !.generation = store.generation + 1,
                               !.paused = ~store.paused]
    BY <1>8 DEF SetPaused, ApplySetPaused
  <2>2. (~store.paused) \in BOOLEAN /\ store.generation + 1 \in Nat
    BY <1>1
  <2>3. store' \in ClusterState
    BY <1>1, <2>1, <2>2, WritePausedTyped
  <2>4. store'.lease = store.lease /\ store'.generation = store.generation + 1
    BY <1>1, <2>1 DEF ClusterState
  <2>5. QED
    BY <1>1, <2>3, <2>4 DEF StoreMoves
<1>9. QED
  BY <1>3, <1>4, <1>5, <1>6, <1>7, <1>8 DEF Next

-----------------------------------------------------------------------------
LEMMA CandidacyPlaces ==
  ASSUME IInv, NEW n \in Node, NEW expected \in AnyLease,
         expected \in InPlay \cup {Vacant}, NEW heard, NEW t,
         Candidacy(n, expected, heard, t)
  PROVE  AgentsPlaced
<1>1. CASE Sleep(n)
  BY <1>1, SleepPlaces
<1>2. CASE Act(n, "DetachingFromDeposed", expected)
  <2>1. "apply" \in Stages /\ "DetachingFromDeposed" \in Decisions
          /\ "DetachingFromDeposed" \notin OwnKinds
    BY DEF Stages, Decisions, OwnKinds
  <2>2. QED
    BY <1>2, <2>1, GoPlaces DEF Act
<1>3. ASSUME NEW kind \in {"Claimed", "TookOver"}, Go(n, "propose", kind, expected)
      PROVE  AgentsPlaced
  <2>1. "propose" \in Stages /\ kind \in Decisions
    BY DEF Stages, Decisions
  <2>2. QED
    BY <1>3, <2>1, GoPlaces
<1>4. QED
  BY <1>1, <1>2, <1>3 DEF Candidacy

LEMMA LoopPlaces ==
  ASSUME IInv, NEW n \in Node, Loop(n)
  PROVE  AgentsPlaced
<1> DEFINE lease == agent[n].view.lease
<1>0. /\ lease \in AnyLease /\ lease \in InPlay
      /\ agent[n].dec.lease \in AnyLease /\ agent[n].dec.lease \in InPlay
      /\ agent[n].dec.kind \in Decisions
  BY AgentFacts
<1>1. Vacant \in AnyLease /\ {"apply", "release", "propose", "observe"} \subseteq Stages
        /\ {"WouldDemote", "RetainedLease", "AwaitingPromotion", "Following"}
             \subseteq Decisions
        /\ "WouldDemote" \notin OwnKinds /\ "Following" \notin OwnKinds
  BY Leases DEF Stages, Decisions, OwnKinds
<1>2. CASE Sleep(n)
  BY <1>2, SleepPlaces
<1>3. CASE Act(n, "WouldDemote", Vacant)
  BY <1>1, <1>3, GoPlaces DEF Act
<1>4. CASE TickRead(n)
  <2>1. PICK view \in {NoView, [known |-> TRUE, lease |-> store.lease,
                                paused |-> store.paused]} :
          agent' = [agent EXCEPT ![n].at = "observe", ![n].view = view]
    BY <1>4 DEF TickRead
  <2> DEFINE x == [agent[n] EXCEPT !.at = "observe", !.view = view]
  <2>2. agent' = [agent EXCEPT ![n] = x]
    BY <2>1, AgentFacts
  <2>3. /\ view \in [known : BOOLEAN, lease : AnyLease, paused : BOOLEAN]
        /\ view.lease \in InPlay \cup {Vacant}
    <3>1. store.lease \in AnyLease /\ store.paused \in BOOLEAN
      BY DEF IInv, TypeOK, ClusterState
    <3>2. store.lease \in InPlay
      BY AgentFacts
    <3>3. CASE view = NoView
      <4>1. NoView.lease = Vacant
        BY DEF NoView
      <4>2. QED
        BY <3>3, <4>1, FreshTyped
    <3>4. CASE view = [known |-> TRUE, lease |-> store.lease, paused |-> store.paused]
      BY <3>1, <3>2, <3>4
    <3>5. QED
      BY <3>3, <3>4
  <2>4. /\ x \in Agent /\ x.at = "observe" /\ x.view = view
        /\ x.dec = agent[n].dec
    BY <1>1, <2>3, AgentFacts DEF Agent
  <2> HIDE DEF x
  <2>5. Placed(n, x)
    BY <1>0, <2>3, <2>4 DEF Placed, DecisionOK
  <2>6. QED
    BY <2>2, <2>5, OneMoves
<1>5. CASE TickStoreUnknown(n) \/ TickPaused(n) \/ TickWatch(n)
  <2>1. Sleep(n) \/ Act(n, "WouldDemote", Vacant)
    BY <1>5 DEF TickStoreUnknown, TickPaused, TickWatch
  <2>2. QED
    BY <1>2, <1>3, <2>1
<1>6. CASE TickHolder(n)
  <2>1. /\ lease.holder = n
        /\ \/ Act(n, "RetainedLease", lease) \/ Act(n, "AwaitingPromotion", lease)
           \/ Go(n, "release", "WouldDemote", lease) \/ Act(n, "WouldDemote", Vacant)
    BY <1>6 DEF TickHolder
  <2>2. CASE Act(n, "RetainedLease", lease) \/ Act(n, "AwaitingPromotion", lease)
    BY <1>0, <1>1, <2>1, <2>2, GoPlaces DEF Act
  <2>3. CASE Go(n, "release", "WouldDemote", lease)
    BY <1>0, <1>1, <2>1, <2>3, GoPlaces
  <2>4. QED
    BY <1>3, <2>1, <2>2, <2>3
<1>7. CASE TickFollower(n)
  <2>1. Act(n, "Following", lease)
    BY <1>7 DEF TickFollower
  <2>2. QED
    BY <1>0, <1>1, <2>1, GoPlaces DEF Act
<1>8. CASE TickDepose(n)
  <2>1. PICK heard : Candidacy(n, lease, heard, Watched(n, lease.holder))
    BY <1>8 DEF TickDepose
  <2>2. QED
    BY <1>0, <2>1, CandidacyPlaces
<1>9. CASE TickVacant(n)
  <2>1. Sleep(n) \/ \E heard : Candidacy(n, Vacant, heard, ReadState(n))
    BY <1>9 DEF TickVacant
  <2>2. QED
    BY <1>1, <1>2, <2>1, CandidacyPlaces
<1>10. CASE TakeoverWon(n)
  <2>1. /\ Act(n, agent[n].dec.kind, store'.lease)
        /\ store'.lease \in AnyLease
        /\ store'.lease = [holder |-> n, term |-> store.generation + 1]
    BY <1>10, ProposalWins DEF TakeoverWon
  <2>2. store'.lease.holder = n
    BY <2>1
  <2>3. QED
    BY <1>0, <1>1, <2>1, <2>2, GoPlaces DEF Act
<1>11. CASE TakeoverLost(n) \/ TakeoverFails(n)
  BY <1>2, <1>11 DEF TakeoverLost, TakeoverFails
<1>12. CASE ReleaseLease(n)
  BY <1>3, <1>12 DEF ReleaseLease
<1>13. QED
  BY <1>4, <1>5, <1>6, <1>7, <1>8, <1>9, <1>10, <1>11, <1>12 DEF Loop, Tick

LEMMA ExecutorPlaces ==
  ASSUME IInv, NEW n \in Node, Apply(n)
  PROVE  AgentsPlaced
<1>1. CASE Sleep(n)
  BY <1>1, SleepPlaces
<1>2. CASE Go(n, "promote", agent[n].dec.kind, agent[n].dec.lease)
  <2>1. agent[n].dec.lease \in AnyLease /\ agent[n].dec.kind \in Decisions
          /\ agent[n].dec.lease \in InPlay /\ "promote" \in Stages
    BY AgentFacts DEF Stages
  <2>2. QED
    BY <1>2, <2>1, GoPlaces
<1>3. QED
  BY <1>1, <1>2
  DEF Apply, ApplyPromote, PromotionSeen, PromotionTimesOut, ApplyDemote,
      FollowAsPrimary, FollowConfirmed, Follow, FollowNothing, ApplyDetach,
      ApplyRetain, Fence

LEMMA StartupPlaces ==
  ASSUME IInv, NEW n \in Node, Startup(n)
  PROVE  AgentsPlaced
<1>1. CASE Sleep(n)
  BY <1>1, SleepPlaces
<1>2. ASSUME NEW at \in {"cold", "start", "down"}, Go(n, at, "none", Vacant)
      PROVE  AgentsPlaced
  <2>1. at \in Stages /\ "none" \in Decisions /\ Vacant \in AnyLease
    BY Leases DEF Stages, Decisions
  <2>2. QED
    BY <1>2, <2>1, GoPlaces
<1>3. QED
  BY <1>1, <1>2 DEF Startup, StartVerify, ColdStart, StartPostgres

LEMMA FaultsPlace ==
  ASSUME IInv, NEW n \in Node, Faults(n)
  PROVE  AgentsPlaced
<1>1. CASE UNCHANGED agent
  BY <1>1, UnchangedPlaces
<1>2. ASSUME NEW at \in {"verify", "down"}, agent' = [agent EXCEPT ![n] = Awake(at)]
      PROVE  AgentsPlaced
  BY <1>2, AwakePlaces
<1>3. QED
  BY <1>1, <1>2 DEF Faults, AgentStart, AgentCrash, HostCrash, PgCrash, PgDeaf,
                    Rejoin, AgentDown

LEMMA ElapsePlaces ==
  ASSUME IInv, Elapse
  PROVE  AgentsPlaced
<1> DEFINE x(n) ==
      [agent[n] EXCEPT !.wait = IF agent[n].at = "sleep" /\ @ > 0 THEN @ - 1 ELSE @,
                       !.age = IF agent[n].at \in {"promote", "verify", "cold"}
                               THEN Older(@) ELSE @]
<1>1. agent' = [n \in Node |-> x(n)]
  BY DEF Elapse
<1>2. ASSUME NEW n \in Node
      PROVE  Placed(n, x(n))
  <2>1. /\ agent[n] \in Agent /\ agent[n].wait \in 0 .. LoopWait
        /\ agent[n].age \in 0 .. MaxAge
    BY AgentFacts
  <2> DEFINE w == IF agent[n].at = "sleep" /\ agent[n].wait > 0
                  THEN agent[n].wait - 1 ELSE agent[n].wait
             a == IF agent[n].at \in {"promote", "verify", "cold"}
                  THEN Older(agent[n].age) ELSE agent[n].age
  <2>2. w \in 0 .. LoopWait /\ a \in 0 .. MaxAge
    BY <2>1, Constants
  <2>3. x(n) = [agent[n] EXCEPT !.wait = w, !.age = a]
    BY <2>1 DEF Agent
  <2> HIDE DEF w, a, x
  <2>4. x(n) \in Agent /\ x(n).at = agent[n].at /\ x(n).view = agent[n].view
          /\ x(n).dec = agent[n].dec
    BY <2>1, <2>2, <2>3 DEF Agent
  <2>5. QED
    BY <2>4, AgentFacts DEF Placed, DecisionOK
<1> HIDE DEF x
<1>3. \A n \in Node : x(n) \in Agent
  BY <1>2 DEF Placed
<1>4. agent' \in [Node -> Agent]
  BY <1>1, <1>3
<1>5. \A n \in Node : agent'[n] = x(n)
  BY <1>1
<1>6. QED
  BY <1>2, <1>4, <1>5 DEF AgentsPlaced

LEMMA AgentStep ==
  ASSUME IInv, [Next]_vars
  PROVE  AgentsPlaced
<1>1. CASE UNCHANGED agent
  BY <1>1, UnchangedPlaces
<1>2. CASE UNCHANGED vars
  BY <1>1, <1>2 DEF vars, havars
<1>3. ASSUME NEW n \in Node,
             Loop(n) \/ Apply(n) \/ Startup(n) \/ Database(n) \/ Faults(n)
      PROVE  AgentsPlaced
  BY <1>1, <1>3, LoopPlaces, ExecutorPlaces, StartupPlaces, FaultsPlace, DatabaseFrame
<1>4. ASSUME NEW cmd \in late, CommitLate(cmd)
      PROVE  AgentsPlaced
  BY <1>1, <1>4 DEF CommitLate
<1>5. CASE Partition \/ Heal \/ SetPaused
  BY <1>1, <1>5 DEF Partition, Heal, SetPaused
<1>6. CASE Elapse
  BY <1>6, ElapsePlaces
<1>7. QED
  BY <1>2, <1>3, <1>4, <1>5, <1>6 DEF Next

-----------------------------------------------------------------------------
(* The mandates: the executor promotes, or confirms, its instance under    *)
(* the term of a lease this node holds in its decision.                    *)
MandatesHeld ==
  /\ mandate' \in [Node -> Nat]
  /\ \A m \in Node : \/ mandate'[m] = mandate[m]
                     \/ /\ mandate'[m] > 0
                        /\ [holder |-> m, term |-> mandate'[m]] \in InPlay

LEMMA DecidedHeld ==
  ASSUME IInv, NEW n \in Node, Applying(n, OwnKinds)
  PROVE  /\ agent[n].dec.lease.term > 0
         /\ [holder |-> n, term |-> agent[n].dec.lease.term] \in InPlay
<1>1. agent[n].dec.lease \in HeldLease /\ agent[n].dec.lease.holder = n
        /\ agent[n].dec.lease \in InPlay
  BY AgentFacts DEF DecisionOK, Applying
<1>2. agent[n].dec.lease = [holder |-> n, term |-> agent[n].dec.lease.term]
  BY <1>1 DEF HeldLease
<1>3. QED
  BY <1>1, <1>2, Leases

LEMMA MandateStep ==
  ASSUME IInv, [Next]_vars
  PROVE  MandatesHeld
<1>1. mandate \in [Node -> Nat]
  BY DEF IInv, TypeOK, ClusterState
<1>2. CASE UNCHANGED mandate
  BY <1>1, <1>2 DEF MandatesHeld
<1>3. ASSUME NEW n \in Node, Applying(n, OwnKinds),
             mandate' = [mandate EXCEPT ![n] = agent[n].dec.lease.term]
      PROVE  MandatesHeld
  <2>1. agent[n].dec.lease.term \in Nat
    BY AgentFacts, Leases
  <2>2. QED
    BY <1>1, <1>3, <2>1, DecidedHeld DEF MandatesHeld
<1>4. ASSUME NEW n \in Node, Apply(n)
      PROVE  MandatesHeld
  <2>1. CASE ApplyPromote(n) \/ ApplyRetain(n)
    <3>1. Applying(n, OwnKinds)
      BY <2>1 DEF ApplyPromote, ApplyRetain, Applying, OwnKinds
    <3>2. \/ UNCHANGED mandate
          \/ mandate' = [mandate EXCEPT ![n] = agent[n].dec.lease.term]
      BY <2>1 DEF ApplyPromote, ApplyRetain
    <3>3. QED
      BY <1>2, <1>3, <3>1, <3>2
  <2>2. CASE ~ApplyPromote(n) /\ ~ApplyRetain(n)
    <3>1. UNCHANGED mandate
      BY <1>4, <2>2
      DEF Apply, PromotionSeen, PromotionTimesOut, ApplyDemote, FollowAsPrimary,
          FollowConfirmed, Follow, FollowNothing, ApplyDetach, Fence, exvars
    <3>2. QED
      BY <1>2, <3>1
  <2>3. QED
    BY <2>1, <2>2
<1>5. ASSUME NEW n \in Node, Loop(n) \/ Startup(n) \/ Database(n) \/ Faults(n)
      PROVE  MandatesHeld
  BY <1>2, <1>5, LoopFrame, StartupFrame, DatabaseFrame, FaultsFrame
<1>6. ASSUME NEW cmd \in late, CommitLate(cmd) /\ UNCHANGED exvars
      PROVE  MandatesHeld
  BY <1>2, <1>6 DEF exvars
<1>7. CASE Partition \/ Heal \/ SetPaused \/ Elapse \/ UNCHANGED vars
  BY <1>2, <1>7 DEF Partition, Heal, SetPaused, Elapse, exvars, vars
<1>8. QED
  BY <1>4, <1>5, <1>6, <1>7 DEF Next

(* Every lease in play after a step was so before it, or is the new one,   *)
(* whose term nobody has seen.                                             *)
LEMMA TermStep ==
  ASSUME IInv, [Next]_vars
  PROVE  TermInv'
<1>0. /\ \A l \in InPlay : l.term \in 0 .. store.generation
      /\ \A l, k \in InPlay : l.term = k.term /\ l.term > 0 => l = k
      /\ store.generation \in Nat /\ store.lease \in InPlay
  BY DEF IInv, TermInv, TypeOK, ClusterState, InPlay
<1>1. StoreMoves /\ AgentsPlaced /\ MandatesHeld
  BY StoreStep, AgentStep, MandateStep
<1>2. ASSUME NEW l \in InPlay'
      PROVE  l \in InPlay \/ l = Vacant \/ l = store'.lease
  <2>1. CASE \E m \in Node : l \in {agent'[m].view.lease, agent'[m].dec.lease}
    BY <1>1, <2>1 DEF AgentsPlaced, Placed
  <2>2. CASE \E m \in Node : l = [holder |-> m, term |-> mandate'[m]]
    <3>1. PICK m \in Node : l = [holder |-> m, term |-> mandate'[m]]
      BY <2>2
    <3>2. [holder |-> m, term |-> mandate[m]] \in InPlay
      BY DEF InPlay
    <3>3. QED
      BY <1>1, <3>1, <3>2 DEF MandatesHeld
  <2>3. QED
    BY <1>2, <2>1, <2>2 DEF InPlay
<1>3. \/ store'.lease \in InPlay \cup {Vacant}
      \/ /\ store'.lease.term = store.generation + 1
         /\ store'.generation = store.generation + 1
  <2>1. ASSUME NEW c, store'.lease = [holder |-> c, term |-> store.generation + 1]
        PROVE  store'.lease.term = store.generation + 1
    BY <2>1
  <2>2. QED
    BY <1>0, <1>1, <2>1 DEF StoreMoves
<1>4. store'.generation \in Nat /\ store'.generation >= store.generation
  BY <1>1 DEF StoreMoves, ClusterState
<1>5. Vacant.term = 0
  BY Leases
<1>6. ASSUME NEW l \in InPlay'
      PROVE  l.term \in 0 .. store'.generation
  BY <1>0, <1>2, <1>3, <1>4, <1>5
<1>7. ASSUME NEW l \in InPlay', NEW k \in InPlay', l.term = k.term, l.term > 0
      PROVE  l = k
  <2>1. CASE l \in InPlay /\ k \in InPlay
    BY <1>0, <1>7, <2>1
  <2>2. CASE l \notin InPlay \/ k \notin InPlay
    BY <1>0, <1>2, <1>3, <1>5, <1>7, <2>2
  <2>3. QED
    BY <2>1, <2>2
<1>8. QED
  BY <1>6, <1>7 DEF TermInv

LEMMA MandateTyped ==
  ASSUME IInv, [Next]_vars
  PROVE  /\ mandate' \in [Node -> 0 .. store'.generation]
         /\ store'.lease.term <= store'.generation
         /\ \A m \in Node : mandate[m] > 0 => mandate'[m] > 0
<1>1. mandate' \in [Node -> Nat] /\ \A m \in Node : mandate'[m] = mandate[m] \/ mandate'[m] > 0
  BY MandateStep DEF MandatesHeld
<1>2. \A l \in InPlay' : l.term \in 0 .. store'.generation
  BY TermStep DEF TermInv
<1>3. \A m \in Node : mandate'[m] \in 0 .. store'.generation
  <2>1. \A m \in Node : [holder |-> m, term |-> mandate'[m]] \in InPlay'
    BY DEF InPlay
  <2>2. QED
    BY <1>2, <2>1
<1>4. store'.lease \in InPlay' /\ store'.generation \in Nat
  BY StoreStep DEF InPlay, StoreMoves, ClusterState
<1>5. \A m \in Node : mandate[m] > 0 => mandate'[m] > 0
  BY <1>1
<1>6. mandate' \in [Node -> 0 .. store'.generation]
  BY <1>1, <1>3
<1>7. QED
  BY <1>2, <1>4, <1>5, <1>6

-----------------------------------------------------------------------------
(* The instances.                                                          *)
Mandated(x, term) ==
  /\ x \in Instance /\ (x.promoting => x.shape = "standby")
  /\ x.promoting \/ x.shape = "primary" => term > 0

InstancesMandated ==
  /\ pg' \in [Node -> Instance]
  /\ \A m \in Node : Mandated(pg'[m], mandate'[m])

LEMMA InstanceFacts ==
  ASSUME IInv, NEW n \in Node
  PROVE  /\ pg \in [Node -> Instance] /\ pg[n] \in Instance
         /\ pg[n].running \in BOOLEAN /\ pg[n].promoting \in BOOLEAN
         /\ pg[n].deaf \in BOOLEAN /\ pg[n].shape \in {"primary", "standby"}
         /\ pg[n].upstream \in AnyNode /\ pg[n].tl \in Nat
         /\ pg[n].wal \in Seq(Record) /\ pg[n].sync \in SUBSET Node
         /\ pg[n].armed \in BOOLEAN
         /\ Mandated(pg[n], mandate[n])
<1>1. pg \in [Node -> Instance] /\ pg[n] \in Instance
  BY DEF IInv, TypeOK
<1>2. Mandated(pg[n], mandate[n])
  BY <1>1 DEF IInv, PromotedInv, Mandated
<1>3. QED
  BY <1>1, <1>2 DEF Instance, AnyNode

LEMMA OneInstance ==
  ASSUME IInv, [Next]_vars, NEW n \in Node, NEW x, Mandated(x, mandate'[n]),
         pg' = [pg EXCEPT ![n] = x]
  PROVE  InstancesMandated
<1>1. pg \in [Node -> Instance] /\ x \in Instance
  BY DEF IInv, TypeOK, Mandated
<1>2. pg' \in [Node -> Instance]
  BY <1>1
<1>3. ASSUME NEW m \in Node
      PROVE  Mandated(pg'[m], mandate'[m])
  <2>1. CASE m = n
    BY <1>1, <2>1
  <2>2. CASE m # n
    <3>1. pg'[m] = pg[m] /\ Mandated(pg[m], mandate[m])
      BY <1>1, <2>2, InstanceFacts
    <3>2. QED
      BY <3>1, MandateTyped DEF Mandated
  <2>3. QED
    BY <2>1, <2>2
<1>4. QED
  BY <1>2, <1>3 DEF InstancesMandated

(* A write that leaves role and promotion alone, or ends the promotion.    *)
LEMMA EditedInstance ==
  ASSUME IInv, [Next]_vars, NEW n \in Node, NEW x \in Instance,
         x.shape = pg[n].shape, x.promoting = pg[n].promoting \/ x.promoting = FALSE,
         pg' = [pg EXCEPT ![n] = x]
  PROVE  InstancesMandated
<1>1. Mandated(pg[n], mandate[n])
  BY InstanceFacts
<1>2. mandate[n] > 0 => mandate'[n] > 0
  BY MandateTyped
<1>3. Mandated(x, mandate'[n])
  BY <1>1, <1>2 DEF Mandated
<1>4. QED
  BY <1>3, OneInstance

LEMMA UnchangedInstances ==
  ASSUME IInv, [Next]_vars, UNCHANGED pg
  PROVE  InstancesMandated
<1>1. pg' \in [Node -> Instance]
  BY DEF IInv, TypeOK
<1>2. ASSUME NEW m \in Node
      PROVE  Mandated(pg'[m], mandate'[m])
  <2>1. Mandated(pg[m], mandate[m])
    BY InstanceFacts
  <2>2. QED
    BY <2>1, MandateTyped DEF Mandated
<1>3. QED
  BY <1>1, <1>2 DEF InstancesMandated

LEMMA StoppedInstance ==
  ASSUME IInv, [Next]_vars, NEW n \in Node, pg' = [pg EXCEPT ![n] = Stopped(pg[n])]
  PROVE  InstancesMandated
<1>1. pg[n] \in Instance
  BY InstanceFacts
<1>2. /\ Stopped(pg[n]) \in Instance /\ Stopped(pg[n]).shape = pg[n].shape
      /\ Stopped(pg[n]).promoting = FALSE
  BY <1>1 DEF Stopped, Instance
<1>3. QED
  BY <1>2, EditedInstance

LEMMA QuorumTyped ==
  ASSUME IInv, NEW n \in Node
  PROVE  QuorumCommit(n) \in SUBSET Node
<1>1. pg[n].sync \in SUBSET Node
  BY InstanceFacts
<1>2. QED
  BY <1>1 DEF QuorumCommit, Peers

LEMMA ExecutorInstances ==
  ASSUME IInv, [Next]_vars, NEW n \in Node, Apply(n)
  PROVE  InstancesMandated
<1>0. pg \in [Node -> Instance] /\ pg[n] \in Instance
  BY InstanceFacts
<1>1. CASE UNCHANGED pg
  BY <1>1, UnchangedInstances
<1>2. ASSUME NEW q \in SUBSET Node, NEW b \in BOOLEAN,
             pg' = [pg EXCEPT ![n].sync = q, ![n].armed = b]
      PROVE  InstancesMandated
  <2> DEFINE x == [pg[n] EXCEPT !.sync = q, !.armed = b]
  <2>1. pg' = [pg EXCEPT ![n] = x]
    BY <1>0, <1>2
  <2>2. x \in Instance /\ x.shape = pg[n].shape /\ x.promoting = pg[n].promoting
    BY <1>0 DEF Instance
  <2> HIDE DEF x
  <2>3. QED
    BY <2>1, <2>2, EditedInstance
<1>3. ASSUME NEW u \in AnyNode, pg' = [pg EXCEPT ![n].upstream = u]
      PROVE  InstancesMandated
  <2> DEFINE x == [pg[n] EXCEPT !.upstream = u]
  <2>1. pg' = [pg EXCEPT ![n] = x]
    BY <1>0, <1>3
  <2>2. x \in Instance /\ x.shape = pg[n].shape /\ x.promoting = pg[n].promoting
    BY <1>0 DEF Instance, AnyNode
  <2> HIDE DEF x
  <2>3. QED
    BY <2>1, <2>2, EditedInstance
<1>4. CASE Fence(n)
  BY <1>1, <1>4, StoppedInstance DEF Fence
<1>5. CASE ApplyPromote(n)
  <2>1. CASE UNCHANGED pg
    BY <1>1, <2>1
  <2>2. CASE /\ pg[n].shape = "standby"
             /\ pg' = [pg EXCEPT ![n].promoting = TRUE]
             /\ mandate' = [mandate EXCEPT ![n] = agent[n].dec.lease.term]
    <3> DEFINE x == [pg[n] EXCEPT !.promoting = TRUE]
    <3>1. pg' = [pg EXCEPT ![n] = x]
      BY <1>0, <2>2
    <3>2. x \in Instance /\ x.shape = "standby"
      BY <1>0, <2>2 DEF Instance
    <3> HIDE DEF x
    <3>3. mandate'[n] > 0
      <4>1. Applying(n, OwnKinds) /\ mandate \in [Node -> 0 .. store.generation]
        BY <1>5 DEF ApplyPromote, Applying, OwnKinds, IInv, TypeOK
      <4>2. QED
        BY <2>2, <4>1, DecidedHeld
    <3>4. Mandated(x, mandate'[n])
      BY <3>2, <3>3 DEF Mandated
    <3>5. QED
      BY <3>1, <3>4, OneInstance
  <2>3. QED
    BY <1>5, <2>1, <2>2 DEF ApplyPromote
<1>6. CASE PromotionSeen(n)
  <2>1. pg' = [pg EXCEPT ![n].sync = QuorumCommit(n),
                         ![n].armed = pg[n].armed \/ Attached(n) # {}]
    BY <1>0, <1>6 DEF PromotionSeen, EnsureQuorumCommit
  <2>2. QED
    BY <1>2, <2>1, QuorumTyped, InstanceFacts
<1>7. CASE PromotionTimesOut(n) \/ FollowConfirmed(n) \/ FollowNothing(n)
  BY <1>1, <1>7 DEF PromotionTimesOut, FollowConfirmed, FollowNothing, pgvars
<1>8. CASE ApplyDemote(n) \/ FollowAsPrimary(n)
  BY <1>4, <1>8 DEF ApplyDemote, FollowAsPrimary
<1>9. CASE Follow(n)
  <2>1. agent[n].dec.lease.holder \in AnyNode
    BY AgentFacts, Leases
  <2>2. QED
    BY <1>1, <1>3, <1>9, <2>1 DEF Follow
<1>10. CASE ApplyDetach(n)
  <2> DEFINE u == IF Answers(n) THEN NoNode ELSE pg[n].upstream
  <2>1. u \in AnyNode
    BY InstanceFacts DEF AnyNode
  <2>2. pg' = [pg EXCEPT ![n].upstream = u]
    BY <1>0, <1>10 DEF ApplyDetach
  <2> HIDE DEF u
  <2>3. QED
    BY <1>3, <2>1, <2>2
<1>11. CASE ApplyRetain(n)
  <2>1. \/ UNCHANGED pg
        \/ pg' = [pg EXCEPT ![n].sync = QuorumCommit(n),
                            ![n].armed = pg[n].armed \/ Attached(n) # {}]
    BY <1>0, <1>11 DEF ApplyRetain, EnsureQuorumCommit
  <2>2. QED
    BY <1>1, <1>2, <2>1, QuorumTyped, InstanceFacts
<1>12. QED
  BY <1>5, <1>6, <1>7, <1>8, <1>9, <1>10, <1>11 DEF Apply

LEMMA DatabaseInstances ==
  ASSUME IInv, [Next]_vars, NEW n \in Node, Database(n)
  PROVE  InstancesMandated
<1>0. /\ pg \in [Node -> Instance] /\ pg[n] \in Instance /\ pg[n].tl \in Nat
      /\ pg[n].wal \in Seq(Record)
  BY InstanceFacts
<1>1. CASE UNCHANGED pg
  BY <1>1, UnchangedInstances
<1>2. ASSUME NEW w \in Seq(Record), NEW t \in Nat,
             pg' = [pg EXCEPT ![n].wal = w, ![n].tl = t]
      PROVE  InstancesMandated
  <2> DEFINE x == [pg[n] EXCEPT !.wal = w, !.tl = t]
  <2>1. pg' = [pg EXCEPT ![n] = x]
    BY <1>0, <1>2
  <2>2. x \in Instance /\ x.shape = pg[n].shape /\ x.promoting = pg[n].promoting
    BY <1>0 DEF Instance
  <2> HIDE DEF x
  <2>3. QED
    BY <2>1, <2>2, EditedInstance
<1>3. CASE Write(n)
  <2>1. Append(pg[n].wal, [tl |-> pg[n].tl, by |-> n]) \in Seq(Record)
    BY <1>0 DEF Record
  <2>2. pg' = [pg EXCEPT ![n].wal = Append(pg[n].wal, [tl |-> pg[n].tl, by |-> n]),
                         ![n].tl = pg[n].tl]
    BY <1>0, <1>3 DEF Write, Instance
  <2>3. QED
    BY <1>0, <1>2, <2>1, <2>2
<1>4. CASE Replicate(n)
  <2> DEFINE up == pg[pg[n].upstream]
             i == Len(pg[n].wal) + 1
  <2>1. pg[n].upstream \in Node
    BY <1>4, InstanceFacts DEF Replicate, Streams, AnyNode
  <2>2. up.wal \in Seq(Record) /\ up.tl \in Nat
    BY <2>1, InstanceFacts
  <2>3. \/ /\ i <= Len(up.wal)
           /\ pg' = [pg EXCEPT ![n].wal = Append(pg[n].wal, up.wal[i]),
                               ![n].tl = up.wal[i].tl]
        \/ pg' = [pg EXCEPT ![n].tl = up.tl]
    BY <1>0, <1>4 DEF Replicate
  <2>4. CASE i <= Len(up.wal)
               /\ pg' = [pg EXCEPT ![n].wal = Append(pg[n].wal, up.wal[i]),
                                   ![n].tl = up.wal[i].tl]
    <3>1. i \in 1 .. Len(up.wal)
      BY <1>0, <2>2, <2>4
    <3>2. up.wal[i] \in Record
      BY <2>2, <3>1
    <3>3. Append(pg[n].wal, up.wal[i]) \in Seq(Record) /\ up.wal[i].tl \in Nat
      BY <1>0, <3>2 DEF Record
    <3>4. QED
      BY <1>2, <2>4, <3>3
  <2>5. CASE pg' = [pg EXCEPT ![n].tl = up.tl]
    <3>1. pg' = [pg EXCEPT ![n].wal = pg[n].wal, ![n].tl = up.tl]
      BY <1>0, <2>5 DEF Instance
    <3>2. QED
      BY <1>0, <1>2, <2>2, <3>1
  <2>6. QED
    BY <2>3, <2>4, <2>5
<1>5. CASE PromotionEnds(n)
  <2> DEFINE t == pg[n].tl + 1
             x == [pg[n] EXCEPT !.promoting = FALSE, !.shape = "primary",
                                !.upstream = NoNode, !.tl = t]
  <2>1. pg' = [pg EXCEPT ![n] = x] /\ pg[n].promoting
    BY <1>0, <1>5 DEF PromotionEnds
  <2>2. x \in Instance /\ x.promoting = FALSE
    <3>1. t \in Nat
      BY <1>0
    <3> HIDE DEF t
    <3>2. QED
      BY <1>0, <3>1 DEF Instance
  <2> HIDE DEF x
  <2>3. mandate'[n] > 0
    BY <2>1, InstanceFacts, MandateTyped DEF Mandated
  <2>4. Mandated(x, mandate'[n])
    BY <2>2, <2>3 DEF Mandated
  <2>5. QED
    BY <2>1, <2>4, OneInstance
<1>6. CASE Acknowledge(n)
  BY <1>1, <1>6 DEF Acknowledge
<1>7. QED
  BY <1>3, <1>4, <1>5, <1>6 DEF Database

LEMMA FaultsInstances ==
  ASSUME IInv, [Next]_vars, NEW n \in Node, Faults(n) \/ Startup(n)
  PROVE  InstancesMandated
<1>0. pg \in [Node -> Instance] /\ pg[n] \in Instance
  BY InstanceFacts
<1>1. CASE UNCHANGED pg
  BY <1>1, UnchangedInstances
<1>2. CASE pg' = [pg EXCEPT ![n] = Stopped(pg[n])]
  BY <1>2, StoppedInstance
<1>3. CASE PgDeaf(n)
  <2> DEFINE x == [pg[n] EXCEPT !.deaf = ~pg[n].deaf]
  <2>1. pg' = [pg EXCEPT ![n] = x]
    BY <1>0, <1>3 DEF PgDeaf
  <2>2. (~pg[n].deaf) \in BOOLEAN
    OBVIOUS
  <2>3. x \in Instance /\ x.shape = pg[n].shape /\ x.promoting = pg[n].promoting
    BY <1>0, <2>2 DEF Instance
  <2> HIDE DEF x
  <2>4. QED
    BY <2>1, <2>3, EditedInstance
<1>4. CASE StartPostgres(n)
  <2> DEFINE x == [pg[n] EXCEPT !.running = TRUE]
  <2>1. pg' = [pg EXCEPT ![n] = x]
    BY <1>0, <1>4 DEF StartPostgres
  <2>2. x \in Instance /\ x.shape = pg[n].shape /\ x.promoting = pg[n].promoting
    BY <1>0 DEF Instance
  <2> HIDE DEF x
  <2>3. QED
    BY <2>1, <2>2, EditedInstance
<1>5. CASE Rejoin(n)
  <2>1. PICK h \in Node :
          /\ pg[h].shape = "primary"
          /\ pg' = [pg EXCEPT ![n] = [pg[h] EXCEPT !.shape = "standby", !.upstream = h]]
    BY <1>5 DEF Rejoin, Hearable, Peers, RunsAsPrimary
  <2> DEFINE x == [pg[h] EXCEPT !.shape = "standby", !.upstream = h]
  <2>2. pg[h] \in Instance /\ pg[h].promoting = FALSE
    BY <2>1, InstanceFacts DEF Mandated
  <2>3. x \in Instance /\ x.shape = "standby" /\ x.promoting = FALSE
    BY <2>2 DEF Instance
  <2> HIDE DEF x
  <2>4. Mandated(x, mandate'[n])
    BY <2>3 DEF Mandated
  <2>5. pg' = [pg EXCEPT ![n] = x]
    BY <2>1 DEF x
  <2>6. QED
    BY <2>4, <2>5, OneInstance
<1>6. CASE AgentStart(n) \/ AgentCrash(n) \/ ColdStart(n)
  BY <1>1, <1>6 DEF AgentStart, AgentCrash, ColdStart, pgvars
<1>7. CASE HostCrash(n) \/ PgCrash(n) \/ StartVerify(n)
  BY <1>0, <1>1, <1>2, <1>7 DEF HostCrash, PgCrash, StartVerify
<1>8. QED
  BY <1>3, <1>4, <1>5, <1>6, <1>7 DEF Faults, Startup

LEMMA InstanceStep ==
  ASSUME IInv, [Next]_vars
  PROVE  InstancesMandated
<1>1. CASE UNCHANGED pg
  BY <1>1, UnchangedInstances
<1>2. ASSUME NEW n \in Node,
             Loop(n) \/ Apply(n) \/ Startup(n) \/ Database(n) \/ Faults(n)
      PROVE  InstancesMandated
  BY <1>1, <1>2, LoopFrame, ExecutorInstances, FaultsInstances, DatabaseInstances
<1>3. ASSUME NEW cmd \in late, CommitLate(cmd)
      PROVE  InstancesMandated
  BY <1>1, <1>3 DEF CommitLate, pgvars
<1>4. CASE Partition \/ Heal \/ SetPaused \/ Elapse \/ UNCHANGED vars
  BY <1>1, <1>4 DEF Partition, Heal, SetPaused, Elapse, vars, pgvars
<1>5. QED
  BY <1>2, <1>3, <1>4 DEF Next

-----------------------------------------------------------------------------
(* TickState.                                                              *)
LEMMA TickFacts ==
  ASSUME IInv, NEW n \in Node
  PROVE  /\ ts \in [Node -> TickState] /\ ts[n] \in TickState
         /\ ts[n].store_unknown_since \in Age /\ ts[n].held_since \in Age
         /\ ts[n].holder_unhealthy_since \in [holder : AnyNode, age : Age]
         /\ ts[n].holder_unhealthy_since.age \in Age
         /\ ts[n].backoff_until \in 0 .. 2 * LoopWait
         /\ ReadState(n) \in TickState
<1>1. ts \in [Node -> TickState] /\ ts[n] \in TickState
  BY DEF IInv, TypeOK
<1>2. ReadState(n) \in TickState
  BY <1>1, Constants DEF ReadState, TickState
<1>3. QED
  BY <1>1, <1>2 DEF TickState

LEMMA WatchedTyped ==
  ASSUME IInv, NEW n \in Node, NEW h \in AnyNode
  PROVE  Watched(n, h) \in TickState
<1>1. UnhealthyFor(n, h) \in Age
  BY TickFacts, Constants DEF UnhealthyFor
<1>2. ReadState(n) \in TickState
  BY TickFacts
<1>3. QED
  BY <1>1, <1>2 DEF Watched, TickState

LEMMA SampleTyped ==
  ASSUME IInv, NEW n \in Node, NEW heard
  PROVE  Sample(n, heard) \in [Node -> Nat \X Nat]
<1>1. ASSUME NEW p \in Node
      PROVE  Pos(p) \in Nat \X Nat
  <2>1. pg[p].tl \in Nat /\ Len(pg[p].wal) \in Nat
    BY InstanceFacts
  <2>2. QED
    BY <2>1 DEF Pos, WalPosition, NoPos
<1>2. NoPos \in Nat \X Nat
  BY DEF NoPos
<1>3. QED
  BY <1>1, <1>2 DEF Sample

LEMMA Remembered ==
  ASSUME IInv, NEW n \in Node, NEW t \in TickState, ts' = [ts EXCEPT ![n] = t]
  PROVE  ts' \in [Node -> TickState]
BY DEF IInv, TypeOK

(* The writes to one TickState.                                            *)
LEMMA TickWrites ==
  ASSUME NEW t \in TickState
  PROVE  /\ \A h \in AnyNode : [t EXCEPT !.last_holder = h] \in TickState
         /\ \A b \in 0 .. 2 * LoopWait : [t EXCEPT !.backoff_until = b] \in TickState
         /\ \A s \in [Node -> Nat \X Nat] : [t EXCEPT !.settled_pos = s] \in TickState
         /\ \A a \in Age : [t EXCEPT !.store_unknown_since = a] \in TickState
BY DEF TickState

LEMMA CandidacyTicks ==
  ASSUME IInv, NEW n \in Node, NEW expected \in AnyLease, NEW heard,
         NEW t \in TickState, Candidacy(n, expected, heard, t)
  PROVE  ts' \in [Node -> TickState]
<1> DEFINE kept == [t EXCEPT !.last_holder = expected.holder]
           sample == Sample(n, heard)
<1>1. kept \in TickState
  BY Leases, TickWrites
<1>2. sample \in [Node -> Nat \X Nat]
  BY SampleTyped
<1>3. \/ Remember(n, kept)
      \/ Remember(n, [kept EXCEPT !.settled_pos = sample])
      \/ \E b \in Backoffs : Remember(n, [kept EXCEPT !.backoff_until = b])
      \/ Remember(n, t)
  BY DEF Candidacy
<1> HIDE DEF kept, sample
<1>4. [kept EXCEPT !.settled_pos = sample] \in TickState
  BY <1>1, <1>2, TickWrites
<1>5. \A b \in Backoffs : [kept EXCEPT !.backoff_until = b] \in TickState
  BY <1>1, Constants, TickWrites
<1>6. QED
  BY <1>1, <1>3, <1>4, <1>5, Remembered DEF Remember

LEMMA LoopTicks ==
  ASSUME IInv, NEW n \in Node, Loop(n)
  PROVE  ts' \in [Node -> TickState]
<1> DEFINE lease == agent[n].view.lease
<1>0. /\ ts \in [Node -> TickState] /\ ts[n] \in TickState
      /\ ReadState(n) \in TickState /\ lease \in AnyLease
      /\ lease.holder \in AnyNode /\ lease.term \in Nat
      /\ agent[n].dec.lease.holder \in AnyNode
      /\ ts[n].store_unknown_since \in Age /\ ts[n].held_since \in Age
      /\ n \in AnyNode
  BY TickFacts, AgentFacts, Leases DEF AnyNode
<1>1. CASE TickRead(n)
  BY <1>0, <1>1 DEF TickRead
<1>2. CASE TickStoreUnknown(n)
  <2> DEFINE a == IF ts[n].store_unknown_since = NoClock THEN 0
                  ELSE ts[n].store_unknown_since
  <2>1. a \in Age
    BY <1>0, Constants
  <2>2. ts' = [ts EXCEPT ![n] = [ts[n] EXCEPT !.store_unknown_since = a]]
    BY <1>2 DEF TickStoreUnknown, Remember
  <2> HIDE DEF a
  <2>3. QED
    BY <1>0, <2>1, <2>2, TickWrites, Remembered
<1>3. CASE TickPaused(n)
  BY <1>0, <1>3, Remembered DEF TickPaused, Remember
<1>4. CASE TickHolder(n)
  <2> DEFINE held_for == IF ts[n].held_term = lease.term THEN ts[n].held_since ELSE 0
             t == [ReadState(n) EXCEPT
                     !.holder_unhealthy_since = FreshTickState.holder_unhealthy_since,
                     !.settled_pos = NoSample, !.held_term = lease.term,
                     !.held_since = held_for, !.last_holder = n]
  <2>1. ts' = [ts EXCEPT ![n] = t]
    BY <1>4 DEF TickHolder, Remember
  <2>2. held_for \in Age
    BY <1>0, Constants
  <2>3. FreshTickState.holder_unhealthy_since \in [holder : AnyNode, age : Age]
    BY Constants DEF FreshTickState, AnyNode
  <2> HIDE DEF held_for
  <2>4. t \in TickState
    BY <1>0, <2>2, <2>3, FreshTyped DEF TickState
  <2>5. QED
    BY <2>1, <2>4, Remembered
<1>5. CASE TickFollower(n)
  <2> DEFINE t == [ReadState(n) EXCEPT
                     !.holder_unhealthy_since = FreshTickState.holder_unhealthy_since,
                     !.settled_pos = NoSample, !.last_holder = lease.holder]
  <2>1. ts' = [ts EXCEPT ![n] = t]
    BY <1>5 DEF TickFollower, Remember
  <2>2. FreshTickState.holder_unhealthy_since \in [holder : AnyNode, age : Age]
    BY Constants DEF FreshTickState, AnyNode
  <2>3. t \in TickState
    BY <1>0, <2>2, FreshTyped DEF TickState
  <2>4. QED
    BY <2>1, <2>3, Remembered
<1>6. CASE TickWatch(n)
  <2>1. ts' = [ts EXCEPT ![n] = [Watched(n, lease.holder) EXCEPT
                                   !.last_holder = lease.holder]]
    BY <1>6 DEF TickWatch, Remember
  <2>2. Watched(n, lease.holder) \in TickState
    BY <1>0, WatchedTyped
  <2>3. QED
    BY <1>0, <2>1, <2>2, TickWrites, Remembered
<1>7. CASE TickDepose(n)
  <2>1. PICK heard : Candidacy(n, lease, heard, Watched(n, lease.holder))
    BY <1>7 DEF TickDepose
  <2>2. QED
    BY <1>0, <2>1, WatchedTyped, CandidacyTicks
<1>8. CASE TickVacant(n)
  <2>1. \/ ts' = [ts EXCEPT ![n] = [ReadState(n) EXCEPT !.last_holder = NoNode]]
        \/ \E heard : Candidacy(n, Vacant, heard, ReadState(n))
    BY <1>8 DEF TickVacant, Remember
  <2>2. NoNode \in AnyNode /\ Vacant \in AnyLease
    BY Leases DEF AnyNode
  <2>3. QED
    BY <1>0, <2>1, <2>2, TickWrites, Remembered, CandidacyTicks
<1>9. ASSUME NEW h \in AnyNode, ts' = [ts EXCEPT ![n].last_holder = h]
      PROVE  ts' \in [Node -> TickState]
  <2>1. ts' = [ts EXCEPT ![n] = [ts[n] EXCEPT !.last_holder = h]]
    BY <1>0, <1>9
  <2>2. QED
    BY <1>0, <2>1, TickWrites, Remembered
<1>10. CASE TakeoverWon(n) \/ TakeoverFails(n)
  BY <1>0, <1>9, <1>10 DEF TakeoverWon, TakeoverFails
<1>11. CASE TakeoverLost(n)
  <2>1. PICK b \in Backoffs :
          ts' = [ts EXCEPT ![n].last_holder = agent[n].dec.lease.holder,
                           ![n].backoff_until = b]
    BY <1>11 DEF TakeoverLost
  <2> DEFINE t == [ts[n] EXCEPT !.last_holder = agent[n].dec.lease.holder,
                                !.backoff_until = b]
  <2>2. ts' = [ts EXCEPT ![n] = t]
    BY <1>0, <2>1
  <2>3. t \in TickState
    BY <1>0, Constants DEF TickState
  <2>4. QED
    BY <2>2, <2>3, Remembered
<1>12. CASE ReleaseLease(n)
  <2>1. PICK b \in Backoffs : ts' = [ts EXCEPT ![n].backoff_until = b]
    BY <1>12 DEF ReleaseLease
  <2>2. ts' = [ts EXCEPT ![n] = [ts[n] EXCEPT !.backoff_until = b]]
    BY <1>0, <2>1
  <2>3. QED
    BY <1>0, <2>2, Constants, TickWrites, Remembered
<1>13. QED
  BY <1>1, <1>2, <1>3, <1>4, <1>5, <1>6, <1>7, <1>8, <1>10, <1>11, <1>12
  DEF Loop, Tick

LEMMA TickStep ==
  ASSUME IInv, [Next]_vars
  PROVE  ts' \in [Node -> TickState]
<1>0. ts \in [Node -> TickState]
  BY DEF IInv, TypeOK
<1>1. CASE UNCHANGED ts
  BY <1>0, <1>1
<1>2. ASSUME NEW n \in Node, Loop(n)
      PROVE  ts' \in [Node -> TickState]
  BY <1>2, LoopTicks
<1>3. ASSUME NEW n \in Node, Apply(n) \/ Startup(n) \/ Database(n)
      PROVE  ts' \in [Node -> TickState]
  BY <1>1, <1>3, ExecutorFrame, StartupFrame, DatabaseFrame
<1>4. ASSUME NEW n \in Node, Faults(n)
      PROVE  ts' \in [Node -> TickState]
  <2>1. UNCHANGED ts \/ ts' = [ts EXCEPT ![n] = FreshTickState]
    BY <1>4 DEF Faults, AgentStart, AgentCrash, HostCrash, PgCrash, PgDeaf, Rejoin,
                AgentDown
  <2>2. QED
    BY <1>1, <2>1, FreshTyped, Remembered
<1>5. ASSUME NEW cmd \in late, CommitLate(cmd)
      PROVE  ts' \in [Node -> TickState]
  BY <1>1, <1>5 DEF CommitLate
<1>6. CASE Partition \/ Heal \/ SetPaused \/ UNCHANGED vars
  BY <1>1, <1>6 DEF Partition, Heal, SetPaused, vars, havars
<1>7. CASE Elapse
  <2> DEFINE t(n) == [ts[n] EXCEPT !.holder_unhealthy_since.age = Older(@),
                                   !.store_unknown_since = Older(@),
                                   !.held_since = Older(@),
                                   !.backoff_until = IF @ > 0 THEN @ - 1 ELSE 0]
  <2>1. ts' = [n \in Node |-> t(n)]
    BY <1>7 DEF Elapse
  <2>2. ASSUME NEW n \in Node
        PROVE  t(n) \in TickState
    <3> DEFINE w == [ts[n].holder_unhealthy_since EXCEPT
                       !.age = Older(ts[n].holder_unhealthy_since.age)]
               u == Older(ts[n].store_unknown_since)
               s == Older(ts[n].held_since)
               b == IF ts[n].backoff_until > 0 THEN ts[n].backoff_until - 1 ELSE 0
    <3>1. w \in [holder : AnyNode, age : Age] /\ u \in Age /\ s \in Age
      BY TickFacts, Constants
    <3>2. b \in 0 .. 2 * LoopWait
      BY TickFacts, Constants
    <3>3. t(n) = [ts[n] EXCEPT !.holder_unhealthy_since = w,
                               !.store_unknown_since = u,
                               !.held_since = s, !.backoff_until = b]
      BY TickFacts DEF TickState
    <3> HIDE DEF t, w, u, s, b
    <3>4. ts[n] \in TickState
      BY TickFacts
    <3>5. QED
      BY <3>1, <3>2, <3>3, <3>4, ZenonT(60) DEF TickState
  <2> HIDE DEF t
  <2>3. QED
    BY <2>1, <2>2
<1>8. QED
  BY <1>2, <1>3, <1>4, <1>5, <1>6, <1>7 DEF Next

-----------------------------------------------------------------------------
(* PeerSeen and the executor's memory.                                     *)
SeenTyped ==
  /\ DOMAIN seen' = Node
  /\ \A n \in Node : seen'[n] \in [Peers(n) -> 0 .. MaxAge]

LEMMA SeenStep ==
  ASSUME IInv, [Next]_vars
  PROVE  SeenTyped
<1>0. DOMAIN seen = Node /\ \A n \in Node : seen[n] \in [Peers(n) -> 0 .. MaxAge]
  BY DEF IInv, TypeOK
<1>1. CASE UNCHANGED seen
  BY <1>0, <1>1 DEF SeenTyped
<1>2. ASSUME NEW n \in Node, NEW s \in [Peers(n) -> 0 .. MaxAge],
             seen' = [seen EXCEPT ![n] = s]
      PROVE  SeenTyped
  BY <1>0, <1>2 DEF SeenTyped
<1>3. ASSUME NEW n \in Node, NEW heard, RecordPrimaries(n, heard)
      PROVE  SeenTyped
  <2> DEFINE s == [p \in Peers(n) |-> IF p \in heard /\ LooksPrimary(p)
                                      THEN 0 ELSE seen[n][p]]
  <2>1. s \in [Peers(n) -> 0 .. MaxAge]
    BY <1>0, Constants
  <2>2. seen' = [seen EXCEPT ![n] = s]
    BY <1>3 DEF RecordPrimaries
  <2> HIDE DEF s
  <2>3. QED
    BY <1>2, <2>1, <2>2
<1>4. ASSUME NEW n \in Node, Loop(n)
      PROVE  SeenTyped
  <2>1. UNCHANGED seen \/ \E heard : RecordPrimaries(n, heard)
    BY <1>4
    DEF Loop, Tick, TickRead, TickStoreUnknown, TickPaused, TickHolder,
        TickFollower, TickWatch, TickDepose, TickVacant, TakeoverWon,
        TakeoverLost, TakeoverFails, ReleaseLease, Observing
  <2>2. QED
    BY <1>1, <1>3, <2>1
<1>5. ASSUME NEW n \in Node, Startup(n)
      PROVE  SeenTyped
  <2>1. UNCHANGED seen \/ \E heard : RecordPrimaries(n, heard)
    BY <1>5 DEF Startup, StartVerify, ColdStart, StartPostgres
  <2>2. QED
    BY <1>1, <1>3, <2>1
<1>6. ASSUME NEW n \in Node, Apply(n) \/ Database(n)
      PROVE  SeenTyped
  BY <1>1, <1>6, ExecutorFrame, DatabaseFrame
<1>7. ASSUME NEW n \in Node, Faults(n)
      PROVE  SeenTyped
  <2>1. UNCHANGED seen \/ seen' = [seen EXCEPT ![n] = NeverSeen(n)]
    BY <1>7 DEF Faults, AgentStart, AgentCrash, HostCrash, PgCrash, PgDeaf, Rejoin,
                AgentDown
  <2>2. QED
    BY <1>1, <1>2, <2>1, FreshTyped
<1>8. ASSUME NEW cmd \in late, CommitLate(cmd)
      PROVE  SeenTyped
  BY <1>1, <1>8 DEF CommitLate
<1>9. CASE Partition \/ Heal \/ SetPaused \/ UNCHANGED vars
  BY <1>1, <1>9 DEF Partition, Heal, SetPaused, vars, havars
<1>10. CASE Elapse
  <2>1. seen' = [n \in Node |-> [p \in Peers(n) |-> Older(seen[n][p])]]
    BY <1>10 DEF Elapse
  <2>2. ASSUME NEW n \in Node
        PROVE  [p \in Peers(n) |-> Older(seen[n][p])] \in [Peers(n) -> 0 .. MaxAge]
    BY <1>0, Constants
  <2>3. QED
    BY <2>1, <2>2 DEF SeenTyped
<1>11. QED
  BY <1>4, <1>5, <1>6, <1>7, <1>8, <1>9, <1>10 DEF Next

LEMMA ExecutorStep ==
  ASSUME IInv, [Next]_vars
  PROVE  exec' \in [Node -> Executor]
<1>0. exec \in [Node -> Executor] /\ FreshExecutor \in Executor
  BY FreshTyped DEF IInv, TypeOK
<1>1. CASE UNCHANGED exec
  BY <1>0, <1>1
<1>2. ASSUME NEW n \in Node, NEW x \in Executor, exec' = [exec EXCEPT ![n] = x]
      PROVE  exec' \in [Node -> Executor]
  BY <1>0, <1>2
<1>3. ASSUME NEW n \in Node, NEW u \in AnyNode,
             \/ exec' = [exec EXCEPT ![n].confirmed_upstream = u]
             \/ exec' = [exec EXCEPT ![n].confirmed_upstream = u,
                                     ![n].follow_stalled_since = NoClock]
      PROVE  exec' \in [Node -> Executor]
  <2>1. /\ [exec[n] EXCEPT !.confirmed_upstream = u] \in Executor
        /\ [exec[n] EXCEPT !.confirmed_upstream = u,
                           !.follow_stalled_since = NoClock] \in Executor
    BY <1>0, Constants DEF Executor
  <2>2. \/ exec' = [exec EXCEPT ![n] = [exec[n] EXCEPT !.confirmed_upstream = u]]
        \/ exec' = [exec EXCEPT ![n] = [exec[n] EXCEPT !.confirmed_upstream = u,
                                          !.follow_stalled_since = NoClock]]
    BY <1>0, <1>3
  <2>3. QED
    BY <1>2, <2>1, <2>2
<1>4. ASSUME NEW n \in Node, Apply(n)
      PROVE  exec' \in [Node -> Executor]
  <2>0. NoNode \in AnyNode /\ agent[n].dec.lease.holder \in AnyNode
    BY AgentFacts, Leases DEF AnyNode
  <2>1. CASE ApplyPromote(n) \/ PromotionTimesOut(n) \/ FollowNothing(n)
    BY <1>1, <2>1 DEF ApplyPromote, PromotionTimesOut, FollowNothing, exvars
  <2>2. CASE ApplyDemote(n) \/ FollowAsPrimary(n) \/ ApplyRetain(n)
    BY <1>0, <1>2, <2>2 DEF ApplyDemote, FollowAsPrimary, ApplyRetain, Fence
  <2>3. CASE PromotionSeen(n) \/ Follow(n) \/ ApplyDetach(n)
    BY <1>1, <1>3, <2>0, <2>3 DEF PromotionSeen, Follow, ApplyDetach
  <2>4. CASE FollowConfirmed(n)
    <3> DEFINE x == exec[n]
               stalled_for == IF x.follow_stalled_since = NoClock THEN 0
                              ELSE x.follow_stalled_since
               y == CASE Streams(n) -> [x EXCEPT !.follow_stalled_since = NoClock,
                                                 !.follow_wedged = FALSE]
                      [] ~Streams(n) /\ stalled_for < LeaderTtl ->
                           [x EXCEPT !.follow_stalled_since = stalled_for]
                      [] OTHER -> [FreshExecutor EXCEPT !.follow_wedged = TRUE]
    <3>1. x \in Executor /\ stalled_for \in Age
      BY <1>0, Constants DEF Executor
    <3>2. /\ [x EXCEPT !.follow_stalled_since = NoClock, !.follow_wedged = FALSE]
               \in Executor
          /\ [x EXCEPT !.follow_stalled_since = stalled_for] \in Executor
          /\ [FreshExecutor EXCEPT !.follow_wedged = TRUE] \in Executor
      BY <1>0, <3>1, Constants DEF Executor
    <3>3. exec' = [exec EXCEPT ![n] = y]
      BY <2>4 DEF FollowConfirmed
    <3>4. y \in Executor
      BY <3>2
    <3> HIDE DEF y
    <3>5. QED
      BY <1>2, <3>3, <3>4
  <2>5. QED
    BY <1>4, <2>1, <2>2, <2>3, <2>4 DEF Apply
<1>5. ASSUME NEW n \in Node, Loop(n) \/ Startup(n) \/ Database(n)
      PROVE  exec' \in [Node -> Executor]
  BY <1>1, <1>5, LoopFrame, StartupFrame, DatabaseFrame
<1>6. ASSUME NEW n \in Node, Faults(n)
      PROVE  exec' \in [Node -> Executor]
  <2>1. UNCHANGED exec \/ exec' = [exec EXCEPT ![n] = FreshExecutor]
    BY <1>6 DEF Faults, AgentStart, AgentCrash, HostCrash, PgCrash, PgDeaf, Rejoin,
                AgentDown, exvars
  <2>2. QED
    BY <1>0, <1>1, <1>2, <2>1
<1>7. ASSUME NEW cmd \in late, CommitLate(cmd) /\ UNCHANGED exvars
      PROVE  exec' \in [Node -> Executor]
  BY <1>1, <1>7 DEF exvars
<1>8. CASE Partition \/ Heal \/ SetPaused \/ UNCHANGED vars
  BY <1>1, <1>8 DEF Partition, Heal, SetPaused, vars, exvars
<1>9. CASE Elapse
  <2>1. exec' = [n \in Node |-> [exec[n] EXCEPT !.follow_stalled_since = Older(@)]]
    BY <1>9 DEF Elapse
  <2>2. ASSUME NEW n \in Node
        PROVE  [exec[n] EXCEPT !.follow_stalled_since = Older(@)] \in Executor
    <3>1. exec[n] \in Executor /\ Older(exec[n].follow_stalled_since) \in Age
      BY <1>0, Constants DEF Executor
    <3>2. QED
      BY <3>1 DEF Executor
  <2>3. QED
    BY <2>1, <2>2
<1>10. QED
  BY <1>4, <1>5, <1>6, <1>7, <1>8, <1>9 DEF Next

-----------------------------------------------------------------------------
(* Faults are counted down, one at a time.                                 *)
LEMMA FaultsFall ==
  ASSUME IInv, [Next]_vars
  PROVE  faults' = faults \/ (faults > 0 /\ faults' = faults - 1)
<1>1. CASE UNCHANGED faults
  BY <1>1
<1>2. ASSUME NEW kind, Fault(kind)
      PROVE  faults > 0 /\ faults' = faults - 1
  BY <1>2 DEF Fault
<1>3. ASSUME NEW kind, Repair(kind)
      PROVE  UNCHANGED faults
  BY <1>3 DEF Repair
<1>4. ASSUME NEW n \in Node, Loop(n)
      PROVE  UNCHANGED faults \/ (faults > 0 /\ faults' = faults - 1)
  BY <1>1, <1>2, <1>4
  DEF Loop, Tick, TickRead, TickStoreUnknown, TickPaused, TickHolder,
      TickFollower, TickWatch, TickDepose, TickVacant, TakeoverWon,
      TakeoverLost, TakeoverFails, ReleaseLease, Observing, Heard
<1>5. ASSUME NEW n \in Node, Apply(n)
      PROVE  UNCHANGED faults \/ (faults > 0 /\ faults' = faults - 1)
  BY <1>1, <1>2, <1>5
  DEF Apply, ApplyPromote, PromotionSeen, PromotionTimesOut, ApplyDemote,
      FollowAsPrimary, FollowConfirmed, Follow, FollowNothing, ApplyDetach,
      ApplyRetain, Fence
<1>6. ASSUME NEW n \in Node, Startup(n) \/ Database(n)
      PROVE  UNCHANGED faults \/ (faults > 0 /\ faults' = faults - 1)
  BY <1>1, <1>2, <1>6, DatabaseFrame DEF Startup, StartVerify, ColdStart, StartPostgres
<1>7. ASSUME NEW n \in Node, Faults(n)
      PROVE  UNCHANGED faults \/ (faults > 0 /\ faults' = faults - 1)
  BY <1>2, <1>3, <1>7
  DEF Faults, AgentStart, AgentCrash, HostCrash, PgCrash, PgDeaf, Rejoin
<1>8. ASSUME NEW cmd \in late, CommitLate(cmd)
      PROVE  UNCHANGED faults
  BY <1>1, <1>8 DEF CommitLate
<1>9. CASE Partition \/ Heal \/ SetPaused
  BY <1>2, <1>3, <1>9 DEF Partition, Heal, SetPaused
<1>10. CASE Elapse \/ UNCHANGED vars
  BY <1>1, <1>10 DEF Elapse, vars, havars
<1>11. QED
  BY <1>4, <1>5, <1>6, <1>7, <1>8, <1>9, <1>10 DEF Next

LEMMA FaultCount ==
  ASSUME IInv, [Next]_vars
  PROVE  faults' \in 0 .. MaxFaults
<1>1. faults \in 0 .. MaxFaults /\ MaxFaults \in Nat
  BY Constants DEF IInv, TypeOK
<1>2. QED
  BY <1>1, FaultsFall

LEMMA LateStep ==
  ASSUME IInv, [Next]_vars
  PROVE  /\ late' \subseteq [op : {"takeover"}, node : Node, lease : AnyLease]
         /\ tenure' \in 0 .. MaxAge
<1>0. /\ late \subseteq [op : {"takeover"}, node : Node, lease : AnyLease]
      /\ tenure \in 0 .. MaxAge /\ 0 \in 0 .. MaxAge
  BY Constants DEF IInv, TypeOK
<1>1. CASE UNCHANGED <<late, tenure>>
  BY <1>0, <1>1
<1>2. ASSUME NEW n \in Node, Loop(n)
      PROVE  /\ late' \subseteq [op : {"takeover"}, node : Node, lease : AnyLease]
             /\ tenure' \in 0 .. MaxAge
  <2>1. Proposal(n) \in [op : {"takeover"}, node : Node, lease : AnyLease]
    BY AgentFacts DEF Proposal, TakeoverCmd
  <2>2. UNCHANGED late \/ late' = late \cup {Proposal(n)}
    BY <1>2
    DEF Loop, Tick, TickRead, TickStoreUnknown, TickPaused, TickHolder,
        TickFollower, TickWatch, TickDepose, TickVacant, TakeoverWon,
        TakeoverLost, TakeoverFails, ReleaseLease, Observing
  <2>3. UNCHANGED tenure \/ tenure' = 0
    BY <1>2
    DEF Loop, Tick, TickRead, TickStoreUnknown, TickPaused, TickHolder,
        TickFollower, TickWatch, TickDepose, TickVacant, TakeoverWon,
        TakeoverLost, TakeoverFails, ReleaseLease, Observing
  <2>4. QED
    BY <1>0, <2>1, <2>2, <2>3
<1>3. ASSUME NEW n \in Node, Apply(n) \/ Startup(n) \/ Database(n) \/ Faults(n)
      PROVE  UNCHANGED <<late, tenure>>
  BY <1>3, ExecutorFrame, StartupFrame, DatabaseFrame, FaultsFrame
<1>4. ASSUME NEW cmd \in late, CommitLate(cmd)
      PROVE  /\ late' \subseteq [op : {"takeover"}, node : Node, lease : AnyLease]
             /\ tenure' \in 0 .. MaxAge
  BY <1>0, <1>4 DEF CommitLate
<1>5. CASE Partition \/ Heal \/ SetPaused \/ UNCHANGED vars
  BY <1>1, <1>5 DEF Partition, Heal, SetPaused, vars, havars
<1>6. CASE Elapse
  <2>1. UNCHANGED late /\ tenure' = Older(tenure)
    BY <1>6 DEF Elapse
  <2>2. QED
    BY <1>0, <2>1, Constants
<1>7. QED
  BY <1>1, <1>2, <1>3, <1>4, <1>5, <1>6 DEF Next

LEMMA NetworkStep ==
  ASSUME IInv, [Next]_vars
  PROVE  cut' \subseteq Pairs /\ risked' \subseteq acked' /\ acked' \subseteq Seq(Record)
<1>0. cut \subseteq Pairs /\ risked \subseteq acked /\ acked \subseteq Seq(Record)
  BY DEF IInv, TypeOK
<1>1. CASE UNCHANGED <<cut, acked, risked>>
  BY <1>0, <1>1
<1>2. ASSUME NEW n \in Node, Loop(n) \/ Apply(n) \/ Startup(n)
      PROVE  UNCHANGED <<cut, acked, risked>>
  BY <1>2, LoopFrame, ExecutorFrame, StartupFrame
<1>3. ASSUME NEW n \in Node, Database(n)
      PROVE  cut' \subseteq Pairs /\ risked' \subseteq acked' /\ acked' \subseteq Seq(Record)
  <2>1. pg[n].wal \in Seq(Record)
    BY InstanceFacts
  <2>2. /\ UNCHANGED cut
        /\ \/ UNCHANGED <<acked, risked>>
           \/ /\ acked' = acked \cup {pg[n].wal}
              /\ risked' = risked \/ risked' = risked \cup {pg[n].wal}
    BY <1>3 DEF Database, Write, Acknowledge, Replicate, PromotionEnds
  <2>3. QED
    BY <1>0, <2>1, <2>2
<1>4. ASSUME NEW cmd \in late, CommitLate(cmd)
      PROVE  UNCHANGED <<cut, acked, risked>>
  BY <1>4 DEF CommitLate, pgvars
<1>5. CASE Partition \/ Heal
  BY <1>0, <1>5 DEF Partition, Heal
<1>6. CASE SetPaused \/ Elapse \/ UNCHANGED vars
  BY <1>1, <1>6 DEF SetPaused, Elapse, vars, pgvars
<1>7. ASSUME NEW n \in Node, Faults(n)
      PROVE  UNCHANGED <<cut, acked>> /\ risked' \subseteq risked \cup acked
  BY <1>7, FaultsFrame DEF Faults, AgentStart, AgentCrash, HostCrash, PgCrash, PgDeaf,
                           Rejoin, pgvars
<1>8. QED
  BY <1>0, <1>1, <1>2, <1>3, <1>4, <1>5, <1>6, <1>7 DEF Next

-----------------------------------------------------------------------------
LEMMA StepIInv == IInv /\ [Next]_vars => IInv'
<1> SUFFICES ASSUME IInv, [Next]_vars PROVE IInv'
  OBVIOUS
<1>1. store' \in ClusterState
  BY StoreStep DEF StoreMoves
<1>2. agent' \in [Node -> Agent] /\ DecisionInv'
  BY AgentStep DEF AgentsPlaced, Placed, DecisionInv
<1>3. pg' \in [Node -> Instance] /\ PromotedInv'
  BY InstanceStep DEF InstancesMandated, Mandated, PromotedInv
<1>4. TypeOK'
  BY <1>1, <1>2, <1>3, MandateTyped, TickStep, SeenStep, ExecutorStep, FaultCount,
     LateStep, NetworkStep DEF TypeOK, SeenTyped
<1>5. QED
  BY <1>2, <1>3, <1>4, TermStep DEF IInv

LEMMA InitIInv == Init => IInv
<1> SUFFICES ASSUME Init PROVE IInv
  OBVIOUS
<1>0. Primary \in Node /\ CloneSync \in SUBSET Node
  BY ClusterAssumption
<1>1. store = [EmptyState EXCEPT !.generation = 1,
                                    !.lease = [holder |-> Primary, term |-> 1]]
  BY DEF Init, ApplyTakeover, TakeoverWins, EmptyState
<1>2. /\ store \in ClusterState /\ store.generation = 1
      /\ store.lease = [holder |-> Primary, term |-> 1] /\ store.lease.term = 1
  <2>1. EmptyState \in ClusterState
    BY Leases DEF EmptyState, ClusterState
  <2>2. [holder |-> Primary, term |-> 1] \in AnyLease
    BY <1>0 DEF AnyLease, HeldLease
  <2>3. store \in ClusterState
    BY <1>1, <2>1, <2>2, WriteTyped
  <2>4. store.generation = 1 /\ store.lease = [holder |-> Primary, term |-> 1]
    BY <1>1, <2>1 DEF ClusterState
  <2>5. QED
    BY <2>3, <2>4
<1>3. /\ agent = [n \in Node |-> Awake("sleep")] /\ agent \in [Node -> Agent]
      /\ \A n \in Node : /\ agent[n].at = "sleep" /\ agent[n].view.lease = Vacant
                         /\ agent[n].dec.lease = Vacant
  BY FreshTyped DEF Init, Stages, Awake, NoView, NoDecision
<1>4. ts \in [Node -> TickState]
  <2>1. [FreshTickState EXCEPT !.last_holder = Primary] \in TickState
    BY <1>0, FreshTyped, TickWrites DEF AnyNode
  <2>2. QED
    BY <2>1 DEF Init
<1>5. DOMAIN seen = Node /\ \A n \in Node : seen[n] \in [Peers(n) -> 0 .. MaxAge]
  BY Constants DEF Init
<1>6. exec \in [Node -> Executor]
  <2>1. ASSUME NEW u \in AnyNode
        PROVE  [FreshExecutor EXCEPT !.confirmed_upstream = u] \in Executor
    BY FreshTyped DEF Executor
  <2>2. \A n \in Node : (IF n = Primary THEN NoNode ELSE Primary) \in AnyNode
    BY <1>0 DEF AnyNode
  <2>3. QED
    BY <2>1, <2>2 DEF Init
<1>7. mandate = [n \in Node |-> IF n = Primary THEN 1 ELSE 0]
  BY DEF Init
<1>8. /\ pg \in [Node -> Instance]
      /\ \A n \in Node : /\ pg[n].promoting = FALSE
                         /\ pg[n].shape = "primary" => n = Primary
  <2> DEFINE x(n) ==
        [running |-> TRUE, promoting |-> FALSE, deaf |-> FALSE,
         shape |-> IF n = Primary THEN "primary" ELSE "standby",
         upstream |-> IF n = Primary THEN NoNode ELSE Primary,
         tl |-> 1, wal |-> <<>>,
         sync |-> IF n = Primary THEN Peers(n) ELSE CloneSync,
         armed |-> n = Primary \/ CloneSync # {}]
  <2>1. pg = [n \in Node |-> x(n)]
    BY DEF Init
  <2>2. ASSUME NEW n \in Node
        PROVE  x(n) \in Instance
    BY <1>0 DEF Instance, Peers
  <2>3. \A n \in Node : x(n).promoting = FALSE /\ (x(n).shape = "primary" => n = Primary)
    OBVIOUS
  <2> HIDE DEF x
  <2>4. QED
    BY <2>1, <2>2, <2>3
<1>9. TypeOK
  <2>1. /\ late = {} /\ cut = {} /\ acked = {} /\ risked = {}
        /\ faults \in 0 .. MaxFaults /\ tenure \in 0 .. MaxAge
    BY Constants DEF Init
  <2>2. mandate \in [Node -> 0 .. store.generation] /\ store.lease.term <= store.generation
    BY <1>2, <1>7
  <2>3. QED
    BY <1>2, <1>3, <1>4, <1>5, <1>6, <1>8, <2>1, <2>2 DEF TypeOK
<1>10. DecisionInv
  BY <1>3 DEF DecisionInv, DecisionOK
<1>11. TermInv
  <2>1. ASSUME NEW l \in InPlay
        PROVE  l.term = 0 \/ l = [holder |-> Primary, term |-> 1]
    <3>1. CASE \E n \in Node : l = [holder |-> n, term |-> mandate[n]]
      BY <1>7, <3>1
    <3>2. QED
      BY <1>2, <1>3, <2>1, <3>1, Leases DEF InPlay
  <2>2. \A l \in InPlay : l.term \in 0 .. 1
    BY <2>1
  <2>3. QED
    BY <1>2, <2>1, <2>2 DEF TermInv
<1>12. PromotedInv
  <2>1. \A n \in Node : n = Primary => mandate[n] > 0
    BY <1>7
  <2>2. QED
    BY <1>8, <2>1, Zenon DEF PromotedInv
<1>13. QED
  BY <1>9, <1>10, <1>11, <1>12 DEF IInv

LEMMA Fenced == IInv => TermsFence
<1> SUFFICES ASSUME IInv, NEW n \in Node, NEW m \in Node, Dual(n, m)
             PROVE  mandate[n] # mandate[m]
  BY DEF IInv, TermsFence, NoSharedTerm
<1>1. mandate[n] > 0 /\ n # m
  BY DEF Dual, RunsAsPrimary, IInv, PromotedInv
<1>2. /\ [holder |-> n, term |-> mandate[n]] \in InPlay
      /\ [holder |-> m, term |-> mandate[m]] \in InPlay
  BY DEF InPlay
<1>3. QED
  BY <1>1, <1>2 DEF IInv, TermInv

(* Terms fence (ensure_primary, consensus.rs): in every pool, under every  *)
(* timing and any number of crashes, cuts, lost replies and late commits,  *)
(* two instances that run as primaries at the same time were promoted or   *)
(* confirmed under different terms; and every variable keeps its type.     *)
THEOREM TermsAlwaysFence == Spec => []TermsFence
<1>1. Init => IInv
  BY InitIInv
<1>2. IInv /\ [Next]_vars => IInv'
  BY StepIInv
<1>3. IInv => TermsFence
  BY Fenced
<1>4. QED
  BY <1>1, <1>2, <1>3, PTL DEF Spec

-----------------------------------------------------------------------------
(* Durability.  Where quorum commit was armed there is a standby to wait   *)
(* for, so that no commit is acknowledged alone, and no log loses what it  *)
(* held but to the operator's clone.                                       *)
Armed == \A n \in Node : pg[n].armed => pg[n].sync # {}

Copies(log) == {n \in Node : Prefix(log, pg[n].wal)}

(* What the step does to each instance's log and to its list of standbys.  *)
LogsKept ==
  \A m \in Node :
    \/ pg'[m].wal = pg[m].wal
    \/ \E r \in Record : pg'[m].wal = Append(pg[m].wal, r)
    \/ \A log \in acked \ risked' : Prefix(log, pg[m].wal) => Prefix(log, pg'[m].wal)

StillArmed == \A m \in Node : pg'[m].armed => pg'[m].sync # {}

LEMMA PrefixOfItself ==
  ASSUME NEW s \in Seq(Record)
  PROVE  Prefix(s, s)
BY SubSeqFull DEF Prefix

LEMMA PrefixOfLonger ==
  ASSUME NEW s \in Seq(Record), NEW t \in Seq(Record), NEW r \in Record, Prefix(s, t)
  PROVE  Prefix(s, Append(t, r))
<1>1. Len(s) \in Nat /\ Len(t) \in Nat /\ Len(s) <= Len(t) /\ s = SubSeq(t, 1, Len(s))
  BY DEF Prefix
<1>2. /\ Append(t, r) \in Seq(Record) /\ Len(Append(t, r)) = Len(t) + 1
      /\ \A i \in 1 .. Len(t) : Append(t, r)[i] = t[i]
  BY AppendProperties
<1>3. \A i \in 1 .. Len(s) : t[i] \in Record /\ Append(t, r)[i] = t[i] /\ Append(t, r)[i] \in Record
  BY <1>1, <1>2
<1> DEFINE a == SubSeq(Append(t, r), 1, Len(s))
<1>4. /\ a \in Seq(Record) /\ Len(a) = Len(s)
      /\ \A i \in 1 .. Len(s) : a[i] = Append(t, r)[i]
  <2>1. /\ a \in Seq(Record)
        /\ Len(a) = IF 1 <= Len(s) THEN Len(s) - 1 + 1 ELSE 0
        /\ \A i \in 1 .. Len(s) - 1 + 1 : a[i] = Append(t, r)[1 + i - 1]
    BY <1>1, <1>3, SubSeqProperties
  <2> HIDE DEF a
  <2>2. QED
    BY <1>1, <2>1
<1>5. \A i \in 1 .. Len(s) : s[i] = t[i]
  <2> DEFINE b == SubSeq(t, 1, Len(s))
  <2>1. \A i \in 1 .. Len(s) - 1 + 1 : b[i] = t[1 + i - 1]
    BY <1>1, <1>3, SubSeqProperties
  <2>2. s = b
    BY <1>1
  <2> HIDE DEF b
  <2>3. QED
    BY <1>1, <2>1, <2>2
<1> HIDE DEF a
<1>6. a = s
  BY <1>3, <1>4, <1>5, SeqEqual
<1>7. QED
  BY <1>1, <1>2, <1>6 DEF Prefix, a

LEMMA UnchangedKeeps ==
  ASSUME Armed, UNCHANGED pg
  PROVE  LogsKept /\ StillArmed
BY DEF Armed, LogsKept, StillArmed

LEMMA EditKeeps ==
  ASSUME IInv, Armed, NEW n \in Node, NEW x, pg' = [pg EXCEPT ![n] = x],
         x.armed => x.sync # {},
         \/ x.wal = pg[n].wal
         \/ \E r \in Record : x.wal = Append(pg[n].wal, r)
         \/ \A log \in acked \ risked' : Prefix(log, pg[n].wal) => Prefix(log, x.wal)
  PROVE  LogsKept /\ StillArmed
<1>1. pg \in [Node -> Instance]
  BY DEF IInv, TypeOK
<1>2. pg'[n] = x /\ \A m \in Node : m # n => pg'[m] = pg[m]
  BY <1>1
<1>3. StillArmed
  BY <1>2 DEF Armed, StillArmed
<1>4. ASSUME NEW m \in Node
      PROVE  \/ pg'[m].wal = pg[m].wal
             \/ \E r \in Record : pg'[m].wal = Append(pg[m].wal, r)
             \/ \A log \in acked \ risked' :
                  Prefix(log, pg[m].wal) => Prefix(log, pg'[m].wal)
  <2>1. CASE m = n
    BY <1>2, <2>1
  <2>2. CASE m # n
    BY <1>2, <2>2
  <2>3. QED
    BY <2>1, <2>2
<1>5. QED
  BY <1>3, <1>4 DEF LogsKept

LEMMA StopKeeps ==
  ASSUME IInv, Armed, NEW n \in Node, pg' = [pg EXCEPT ![n] = Stopped(pg[n])]
  PROVE  LogsKept /\ StillArmed
<1>1. pg[n] \in Instance /\ (pg[n].armed => pg[n].sync # {})
  BY InstanceFacts DEF Armed
<1>2. /\ Stopped(pg[n]).wal = pg[n].wal /\ Stopped(pg[n]).sync = pg[n].sync
      /\ Stopped(pg[n]).armed = pg[n].armed
  BY <1>1 DEF Stopped, Instance
<1>3. QED
  BY <1>1, <1>2, EditKeeps

(* ensure_quorum_commit never disarms.                                     *)
LEMMA QuorumArmed ==
  ASSUME Armed, Node # {Primary}, NEW n \in Node
  PROVE  pg[n].armed \/ Attached(n) # {} => QuorumCommit(n) # {}
<1>1. PICK p \in Node : p # n
  BY ClusterAssumption
<1>2. QED
  BY <1>1 DEF QuorumCommit, Armed, Peers

LEMMA ExecutorKeeps ==
  ASSUME IInv, Armed, Node # {Primary}, NEW n \in Node, Apply(n)
  PROVE  LogsKept /\ StillArmed
<1>0. /\ pg \in [Node -> Instance] /\ pg[n] \in Instance
      /\ pg[n].armed => pg[n].sync # {}
  BY InstanceFacts DEF Armed
<1>1. CASE UNCHANGED pg
  BY <1>1, UnchangedKeeps
<1>2. ASSUME NEW q, NEW b, b => q # {},
             pg' = [pg EXCEPT ![n].sync = q, ![n].armed = b]
      PROVE  LogsKept /\ StillArmed
  <2> DEFINE x == [pg[n] EXCEPT !.sync = q, !.armed = b]
  <2>1. pg' = [pg EXCEPT ![n] = x]
    BY <1>0, <1>2
  <2>2. x.wal = pg[n].wal /\ (x.armed => x.sync # {})
    BY <1>0, <1>2 DEF Instance
  <2> HIDE DEF x
  <2>3. QED
    BY <2>1, <2>2, EditKeeps
<1>3. ASSUME NEW u, pg' = [pg EXCEPT ![n].upstream = u]
      PROVE  LogsKept /\ StillArmed
  <2> DEFINE x == [pg[n] EXCEPT !.upstream = u]
  <2>1. pg' = [pg EXCEPT ![n] = x]
    BY <1>0, <1>3
  <2>2. x.wal = pg[n].wal /\ (x.armed => x.sync # {})
    BY <1>0 DEF Instance
  <2> HIDE DEF x
  <2>3. QED
    BY <2>1, <2>2, EditKeeps
<1>4. CASE ApplyPromote(n)
  <2>1. CASE UNCHANGED pg
    BY <1>1, <2>1
  <2>2. CASE pg' = [pg EXCEPT ![n].promoting = TRUE]
    <3> DEFINE x == [pg[n] EXCEPT !.promoting = TRUE]
    <3>1. pg' = [pg EXCEPT ![n] = x]
      BY <1>0, <2>2
    <3>2. x.wal = pg[n].wal /\ (x.armed => x.sync # {})
      BY <1>0 DEF Instance
    <3> HIDE DEF x
    <3>3. QED
      BY <3>1, <3>2, EditKeeps
  <2>3. QED
    BY <1>4, <2>1, <2>2 DEF ApplyPromote
<1>5. CASE PromotionSeen(n)
  <2>1. pg' = [pg EXCEPT ![n].sync = QuorumCommit(n),
                         ![n].armed = pg[n].armed \/ Attached(n) # {}]
    BY <1>0, <1>5 DEF PromotionSeen, EnsureQuorumCommit
  <2>2. QED
    BY <1>2, <2>1, QuorumArmed
<1>6. CASE PromotionTimesOut(n) \/ FollowConfirmed(n) \/ FollowNothing(n)
  BY <1>1, <1>6 DEF PromotionTimesOut, FollowConfirmed, FollowNothing, pgvars
<1>7. CASE ApplyDemote(n) \/ FollowAsPrimary(n)
  BY <1>1, <1>7, StopKeeps DEF ApplyDemote, FollowAsPrimary, Fence
<1>8. CASE Follow(n)
  BY <1>1, <1>3, <1>8 DEF Follow
<1>9. CASE ApplyDetach(n)
  <2> DEFINE u == IF Answers(n) THEN NoNode ELSE pg[n].upstream
  <2>1. pg' = [pg EXCEPT ![n].upstream = u]
    BY <1>0, <1>9 DEF ApplyDetach
  <2> HIDE DEF u
  <2>2. QED
    BY <1>3, <2>1
<1>10. CASE ApplyRetain(n)
  <2>1. \/ UNCHANGED pg
        \/ pg' = [pg EXCEPT ![n].sync = QuorumCommit(n),
                            ![n].armed = pg[n].armed \/ Attached(n) # {}]
    BY <1>0, <1>10 DEF ApplyRetain, EnsureQuorumCommit
  <2>2. QED
    BY <1>1, <1>2, <2>1, QuorumArmed
<1>11. QED
  BY <1>4, <1>5, <1>6, <1>7, <1>8, <1>9, <1>10 DEF Apply

LEMMA DatabaseKeeps ==
  ASSUME IInv, Armed, NEW n \in Node, Database(n)
  PROVE  LogsKept /\ StillArmed
<1>0. /\ pg \in [Node -> Instance] /\ pg[n] \in Instance
      /\ pg[n].armed => pg[n].sync # {}
      /\ pg[n].tl \in Nat /\ pg[n].wal \in Seq(Record)
  BY InstanceFacts DEF Armed
<1>1. ASSUME NEW x, pg' = [pg EXCEPT ![n] = x],
             x.sync = pg[n].sync, x.armed = pg[n].armed,
             x.wal = pg[n].wal \/ \E r \in Record : x.wal = Append(pg[n].wal, r)
      PROVE  LogsKept /\ StillArmed
  BY <1>0, <1>1, EditKeeps
<1>2. CASE Write(n)
  <2> DEFINE r == [tl |-> pg[n].tl, by |-> n]
             x == [pg[n] EXCEPT !.wal = Append(pg[n].wal, r)]
  <2>1. r \in Record
    BY <1>0 DEF Record
  <2>2. pg' = [pg EXCEPT ![n] = x]
    BY <1>0, <1>2 DEF Write
  <2> HIDE DEF r
  <2>3. x.wal = Append(pg[n].wal, r) /\ x.sync = pg[n].sync /\ x.armed = pg[n].armed
    BY <1>0 DEF Instance
  <2> HIDE DEF x
  <2>4. QED
    BY <1>1, <2>1, <2>2, <2>3
<1>3. CASE Replicate(n)
  <2> DEFINE up == pg[pg[n].upstream]
             i == Len(pg[n].wal) + 1
  <2>1. pg[n].upstream \in Node
    BY <1>3, InstanceFacts DEF Replicate, Streams, AnyNode
  <2>2. up.wal \in Seq(Record)
    BY <2>1, InstanceFacts
  <2>3. \/ /\ i <= Len(up.wal)
           /\ pg' = [pg EXCEPT ![n].wal = Append(pg[n].wal, up.wal[i]),
                               ![n].tl = up.wal[i].tl]
        \/ pg' = [pg EXCEPT ![n].tl = up.tl]
    BY <1>0, <1>3 DEF Replicate
  <2>4. CASE i <= Len(up.wal)
               /\ pg' = [pg EXCEPT ![n].wal = Append(pg[n].wal, up.wal[i]),
                                   ![n].tl = up.wal[i].tl]
    <3>1. PICK r \in Record : r = up.wal[i]
      <4>1. i \in 1 .. Len(up.wal)
        BY <1>0, <2>2, <2>4
      <4>2. QED
        BY <2>2, <4>1
    <3> DEFINE x == [pg[n] EXCEPT !.wal = Append(pg[n].wal, r), !.tl = r.tl]
    <3>2. pg' = [pg EXCEPT ![n] = x]
      BY <1>0, <2>4, <3>1
    <3>3. x.wal = Append(pg[n].wal, r) /\ x.sync = pg[n].sync /\ x.armed = pg[n].armed
      BY <1>0 DEF Instance
    <3> HIDE DEF x
    <3>4. QED
      BY <1>1, <3>1, <3>2, <3>3
  <2>5. CASE pg' = [pg EXCEPT ![n].tl = up.tl]
    <3>1. PICK t : t = up.tl
      OBVIOUS
    <3> DEFINE x == [pg[n] EXCEPT !.tl = t]
    <3>2. pg' = [pg EXCEPT ![n] = x]
      BY <1>0, <2>5, <3>1
    <3>3. x.wal = pg[n].wal /\ x.sync = pg[n].sync /\ x.armed = pg[n].armed
      BY <1>0 DEF Instance
    <3> HIDE DEF x
    <3>4. QED
      BY <1>1, <3>2, <3>3
  <2>6. QED
    BY <2>3, <2>4, <2>5
<1>4. CASE PromotionEnds(n)
  <2> DEFINE t == pg[n].tl + 1
             x == [pg[n] EXCEPT !.promoting = FALSE, !.shape = "primary",
                                !.upstream = NoNode, !.tl = t]
  <2>1. pg' = [pg EXCEPT ![n] = x]
    BY <1>0, <1>4 DEF PromotionEnds
  <2> HIDE DEF t
  <2>2. x.wal = pg[n].wal /\ x.sync = pg[n].sync /\ x.armed = pg[n].armed
    BY <1>0 DEF Instance
  <2> HIDE DEF x
  <2>3. QED
    BY <1>1, <2>1, <2>2
<1>5. CASE Acknowledge(n)
  BY <1>5, UnchangedKeeps DEF Acknowledge
<1>6. QED
  BY <1>2, <1>3, <1>4, <1>5 DEF Database

LEMMA FaultsKeep ==
  ASSUME IInv, Armed, NEW n \in Node, Faults(n) \/ Startup(n)
  PROVE  LogsKept /\ StillArmed
<1>0. /\ pg \in [Node -> Instance] /\ pg[n] \in Instance
      /\ pg[n].armed => pg[n].sync # {}
  BY InstanceFacts DEF Armed
<1>1. CASE UNCHANGED pg
  BY <1>1, UnchangedKeeps
<1>2. CASE pg' = [pg EXCEPT ![n] = Stopped(pg[n])]
  BY <1>2, StopKeeps
<1>3. CASE PgDeaf(n)
  <2> DEFINE x == [pg[n] EXCEPT !.deaf = ~pg[n].deaf]
  <2>1. pg' = [pg EXCEPT ![n] = x]
    BY <1>0, <1>3 DEF PgDeaf
  <2>2. x.wal = pg[n].wal /\ (x.armed => x.sync # {})
    BY <1>0 DEF Instance
  <2> HIDE DEF x
  <2>3. QED
    BY <2>1, <2>2, EditKeeps
<1>4. CASE StartPostgres(n)
  <2> DEFINE x == [pg[n] EXCEPT !.running = TRUE]
  <2>1. pg' = [pg EXCEPT ![n] = x]
    BY <1>0, <1>4 DEF StartPostgres
  <2>2. x.wal = pg[n].wal /\ (x.armed => x.sync # {})
    BY <1>0 DEF Instance
  <2> HIDE DEF x
  <2>3. QED
    BY <2>1, <2>2, EditKeeps
<1>5. CASE Rejoin(n)
  <2>1. PICK h \in Node :
          /\ pg' = [pg EXCEPT ![n] = [pg[h] EXCEPT !.shape = "standby", !.upstream = h]]
          /\ risked' = risked \cup {log \in acked : /\ Prefix(log, pg[n].wal)
                                                   /\ ~Prefix(log, pg[h].wal)}
    BY <1>5 DEF Rejoin, Hearable, Peers
  <2> DEFINE x == [pg[h] EXCEPT !.shape = "standby", !.upstream = h]
  <2>2. pg[h] \in Instance /\ (pg[h].armed => pg[h].sync # {})
    BY InstanceFacts DEF Armed
  <2>3. x.wal = pg[h].wal /\ (x.armed => x.sync # {})
    BY <2>2 DEF Instance
  <2>4. pg' = [pg EXCEPT ![n] = x]
    BY <2>1
  <2> HIDE DEF x
  <2>5. \A log \in acked \ risked' : Prefix(log, pg[n].wal) => Prefix(log, x.wal)
    BY <2>1, <2>3
  <2>6. QED
    BY <2>3, <2>4, <2>5, EditKeeps
<1>6. CASE AgentStart(n) \/ AgentCrash(n) \/ ColdStart(n)
  BY <1>1, <1>6 DEF AgentStart, AgentCrash, ColdStart, pgvars
<1>7. CASE HostCrash(n) \/ PgCrash(n) \/ StartVerify(n)
  BY <1>0, <1>1, <1>2, <1>7 DEF HostCrash, PgCrash, StartVerify
<1>8. QED
  BY <1>3, <1>4, <1>5, <1>6, <1>7 DEF Faults, Startup

LEMMA KeepStep ==
  ASSUME IInv, Armed, Node # {Primary}, [Next]_vars
  PROVE  LogsKept /\ StillArmed
<1>1. CASE UNCHANGED pg
  BY <1>1, UnchangedKeeps
<1>2. CASE UNCHANGED vars
  BY <1>1, <1>2 DEF vars, pgvars
<1>3. ASSUME NEW n \in Node,
             Loop(n) \/ Apply(n) \/ Startup(n) \/ Database(n) \/ Faults(n)
      PROVE  LogsKept /\ StillArmed
  BY <1>1, <1>3, LoopFrame, ExecutorKeeps, FaultsKeep, DatabaseKeeps
<1>4. ASSUME NEW cmd \in late, CommitLate(cmd)
      PROVE  LogsKept /\ StillArmed
  BY <1>1, <1>4 DEF CommitLate, pgvars
<1>5. CASE Partition \/ Heal \/ SetPaused \/ Elapse
  BY <1>1, <1>5 DEF Partition, Heal, SetPaused, Elapse, pgvars
<1>6. QED
  BY <1>2, <1>3, <1>4, <1>5 DEF Next

(* Two copies of a log are two.                                            *)
LEMMA TwoCopies ==
  ASSUME NEW log, NEW n \in Node, NEW s \in Node, n # s,
         n \in Copies(log), s \in Copies(log)
  PROVE  Cardinality(Copies(log)) >= 2
<1>1. IsFiniteSet(Copies(log))
  BY ClusterAssumption, FS_Subset DEF Copies
<1>2. /\ IsFiniteSet({n}) /\ Cardinality({n}) = 1
  BY FS_Singleton
<1>3. /\ IsFiniteSet({n} \cup {s}) /\ Cardinality({n} \cup {s}) = 2
  BY <1>2, FS_AddElement
<1>4. Cardinality({n} \cup {s}) <= Cardinality(Copies(log))
  BY <1>1, FS_Subset
<1>5. QED
  BY <1>1, <1>3, <1>4, FS_CardinalityType

LEMMA MoreCopies ==
  ASSUME NEW log \in acked \ risked', Cardinality(Copies(log)) >= 2, IInv, IInv', LogsKept
  PROVE  Cardinality(Copies(log)') >= 2
<1>1. log \in Seq(Record)
  BY DEF IInv, TypeOK
<1>2. ASSUME NEW m \in Copies(log)
      PROVE  m \in Copies(log)'
  <2>1. m \in Node /\ Prefix(log, pg[m].wal) /\ pg[m].wal \in Seq(Record)
    BY InstanceFacts DEF Copies
  <2>2. Prefix(log, pg'[m].wal)
    BY <1>1, <2>1, PrefixOfLonger DEF LogsKept
  <2>3. QED
    BY <2>1, <2>2 DEF Copies
<1>3. IsFiniteSet(Copies(log)')
  BY ClusterAssumption, FS_Subset DEF Copies
<1>4. /\ IsFiniteSet(Copies(log))
      /\ Cardinality(Copies(log)) <= Cardinality(Copies(log)')
  BY <1>2, <1>3, FS_Subset
<1>5. QED
  BY <1>3, <1>4, FS_CardinalityType

(* An acknowledged log is one somebody flushed besides the primary.        *)
LEMMA AcksAreCopied ==
  ASSUME IInv, Armed, NEW n \in Node, Acknowledge(n), pg[n].armed
  PROVE  Cardinality(Copies(pg[n].wal)) >= 2
<1>1. PICK s \in pg[n].sync : Flushed(n, s)
  BY DEF Acknowledge, Armed
<1>2. s \in Node /\ s # n /\ Prefix(pg[n].wal, pg[s].wal)
  BY <1>1 DEF Flushed, Attached, Streams, Acknowledge, RunsAsPrimary
<1>3. Prefix(pg[n].wal, pg[n].wal)
  BY InstanceFacts, PrefixOfItself
<1>4. n \in Copies(pg[n].wal) /\ s \in Copies(pg[n].wal)
  BY <1>2, <1>3 DEF Copies
<1>5. QED
  BY <1>2, <1>4, TwoCopies

DurableInv == IInv /\ Armed /\ DurableTwice

LEMMA AckedStep ==
  ASSUME IInv, Armed, [Next]_vars
  PROVE  /\ risked \subseteq risked'
         /\ \/ acked' = acked
            \/ \E n \in Node : /\ acked' = acked \cup {pg[n].wal} /\ UNCHANGED pg
                               /\ \/ pg[n].wal \in risked'
                                  \/ Cardinality(Copies(pg[n].wal)) >= 2
<1>1. ASSUME NEW n \in Node, Database(n)
      PROVE  /\ risked \subseteq risked'
             /\ \/ acked' = acked
                \/ /\ acked' = acked \cup {pg[n].wal} /\ UNCHANGED pg
                   /\ pg[n].wal \in risked' \/ Cardinality(Copies(pg[n].wal)) >= 2
  <2>1. CASE Acknowledge(n)
    BY <2>1, AcksAreCopied DEF Acknowledge
  <2>2. CASE Write(n) \/ Replicate(n) \/ PromotionEnds(n)
    BY <2>2 DEF Write, Replicate, PromotionEnds
  <2>3. QED
    BY <1>1, <2>1, <2>2 DEF Database
<1>2. ASSUME NEW n \in Node, Loop(n) \/ Apply(n) \/ Startup(n)
      PROVE  acked' = acked /\ risked' = risked
  BY <1>2, LoopFrame, ExecutorFrame, StartupFrame
<1>3. ASSUME NEW cmd \in late, CommitLate(cmd)
      PROVE  acked' = acked /\ risked' = risked
  BY <1>3 DEF CommitLate, pgvars
<1>4. CASE Partition \/ Heal \/ SetPaused \/ Elapse \/ UNCHANGED vars
  BY <1>4 DEF Partition, Heal, SetPaused, Elapse, vars, pgvars
<1>5. ASSUME NEW n \in Node, Faults(n)
      PROVE  acked' = acked /\ risked \subseteq risked'
  BY <1>5, FaultsFrame DEF Faults, AgentStart, AgentCrash, HostCrash, PgCrash, PgDeaf,
                           Rejoin, pgvars
<1>6. QED
  BY <1>1, <1>2, <1>3, <1>4, <1>5 DEF Next

LEMMA DurableStep ==
  ASSUME DurableInv, Node # {Primary}, [Next]_vars
  PROVE  DurableInv'
<1>1. IInv'
  BY StepIInv DEF DurableInv
<1>2. LogsKept /\ StillArmed
  BY KeepStep DEF DurableInv
<1>3. Armed'
  BY <1>2 DEF StillArmed, Armed
<1>4. ASSUME NEW log \in acked' \ risked'
      PROVE  Cardinality(Copies(log)') >= 2
  <2>1. CASE log \in acked
    <3>1. log \in acked \ risked /\ log \in acked \ risked'
      BY <1>4, <2>1, AckedStep DEF DurableInv
    <3>2. Cardinality(Copies(log)) >= 2
      BY <3>1 DEF DurableInv, DurableTwice, OnTwo, Copies
    <3>3. QED
      BY <1>1, <1>2, <3>1, <3>2, MoreCopies DEF DurableInv
  <2>2. CASE log \notin acked
    <3>1. PICK n \in Node : /\ acked' = acked \cup {pg[n].wal} /\ UNCHANGED pg
                            /\ \/ pg[n].wal \in risked'
                               \/ Cardinality(Copies(pg[n].wal)) >= 2
      BY <1>4, <2>2, AckedStep DEF DurableInv
    <3>2. log = pg[n].wal /\ Copies(log)' = Copies(log)
      BY <1>4, <2>2, <3>1 DEF Copies
    <3>3. QED
      BY <1>4, <3>1, <3>2
  <2>3. QED
    BY <2>1, <2>2
<1>5. DurableTwice'
  BY <1>4 DEF DurableTwice, OnTwo, Copies
<1>6. QED
  BY <1>1, <1>3, <1>5 DEF DurableInv

LEMMA DurableInit ==
  ASSUME Init, Node # {Primary}
  PROVE  DurableInv
<1>1. IInv
  BY InitIInv
<1>2. ASSUME NEW n \in Node
      PROVE  /\ pg[n].sync = IF n = Primary THEN Peers(n) ELSE CloneSync
             /\ pg[n].armed <=> n = Primary \/ CloneSync # {}
  BY <1>2 DEF Init
<1>3. Peers(Primary) # {}
  BY ClusterAssumption DEF Peers
<1>4. Armed
  BY <1>2, <1>3 DEF Armed
<1>5. DurableTwice
  BY DEF Init, DurableTwice
<1>6. QED
  BY <1>1, <1>4, <1>5 DEF DurableInv

(* "Every acknowledged commit is flushed on at least two nodes"            *)
(* (quorum-commit.md 3), from every bootstrapped site, the one whose       *)
(* clones list no standby included: in every pool of two or more, under    *)
(* every timing and any faults, what was acknowledged on a directory where *)
(* quorum commit had been armed is never left on one node, whatever is     *)
(* detached, crashes, stops or is promoted, and however often a directory  *)
(* is cloned, until a `cluster recover` overwrites one of the copies with  *)
(* a directory that lacks it.                                              *)
THEOREM AcksStayDurable ==
  ASSUME Node # {Primary}
  PROVE  Spec => []DurableTwice
<1>1. Init => DurableInv
  BY DurableInit
<1>2. DurableInv /\ [Next]_vars => DurableInv'
  BY DurableStep
<1>3. DurableInv => DurableTwice
  BY DEF DurableInv
<1>4. QED
  BY <1>1, <1>2, <1>3, PTL DEF Spec

-----------------------------------------------------------------------------
(* The protection window.  A clock that watches the holder in office has   *)
(* not run for longer than that holder's lease.                            *)
Clock(n) == ts[n].holder_unhealthy_since

ClockInv ==
  \A n \in Node :
    Clock(n).holder = store.lease.holder /\ store.lease.holder \in Node
      => Clock(n).age <= tenure

(* No clock that watched a node before is still set when that node comes   *)
(* to the lease.                                                           *)
NoClockOutlives ==
  \A n, h \in Node :
    store'.lease # store.lease /\ store'.lease.holder = h => Clock(n).holder # h

WindowInv == IInv /\ ClockInv /\ ProtectionWindow

(* What a step other than time does to a clock: keep it, clear it, or let  *)
(* it watch a holder, from 0 or from where it was.                         *)
ClockKept(n) ==
  \/ Clock(n)' = Clock(n)
  \/ Clock(n)'.holder = NoNode
  \/ \E h \in AnyNode : /\ Clock(n)'.holder = h /\ Clock(n)'.age = UnhealthyFor(n, h)

LEMMA OneClock ==
  ASSUME IInv, NEW n \in Node, NEW t, ts' = [ts EXCEPT ![n] = t],
         \/ t.holder_unhealthy_since = Clock(n)
         \/ t.holder_unhealthy_since.holder = NoNode
         \/ \E h \in AnyNode : /\ t.holder_unhealthy_since.holder = h
                               /\ t.holder_unhealthy_since.age = UnhealthyFor(n, h)
  PROVE  \A m \in Node : ClockKept(m)
<1>1. ts \in [Node -> TickState]
  BY TickFacts
<1>2. ts'[n] = t /\ \A m \in Node : m # n => ts'[m] = ts[m]
  BY <1>1
<1>3. ASSUME NEW m \in Node
      PROVE  ClockKept(m)
  <2>1. CASE m = n
    BY <1>2, <2>1 DEF ClockKept, Clock
  <2>2. CASE m # n
    BY <1>2, <2>2 DEF ClockKept, Clock
  <2>3. QED
    BY <2>1, <2>2
<1>4. QED
  BY <1>3

LEMMA UnchangedClocks ==
  ASSUME UNCHANGED ts
  PROVE  \A m \in Node : ClockKept(m)
BY DEF ClockKept, Clock

(* A TickState written over another one keeps its clock.                   *)
LEMMA ClockWrites ==
  ASSUME NEW t \in TickState
  PROVE  /\ \A h : [t EXCEPT !.last_holder = h].holder_unhealthy_since
                     = t.holder_unhealthy_since
         /\ \A b : [t EXCEPT !.backoff_until = b].holder_unhealthy_since
                     = t.holder_unhealthy_since
         /\ \A s : [t EXCEPT !.settled_pos = s].holder_unhealthy_since
                     = t.holder_unhealthy_since
         /\ \A a : [t EXCEPT !.store_unknown_since = a].holder_unhealthy_since
                     = t.holder_unhealthy_since
BY DEF TickState

LEMMA WatchedClock ==
  ASSUME IInv, NEW n \in Node, NEW h
  PROVE  /\ Watched(n, h).holder_unhealthy_since.holder = h
         /\ Watched(n, h).holder_unhealthy_since.age = UnhealthyFor(n, h)
         /\ ReadState(n).holder_unhealthy_since = Clock(n)
<1>1. ts[n] \in TickState /\ ReadState(n) \in TickState
  BY TickFacts
<1>2. ReadState(n).holder_unhealthy_since = Clock(n)
  BY <1>1, ClockWrites DEF ReadState, Clock
<1>3. Watched(n, h).holder_unhealthy_since = [holder |-> h, age |-> UnhealthyFor(n, h)]
  BY <1>1 DEF Watched, TickState
<1>4. QED
  BY <1>2, <1>3

LEMMA CandidacyClocks ==
  ASSUME IInv, NEW n \in Node, NEW expected \in AnyLease, NEW heard,
         NEW t \in TickState, Candidacy(n, expected, heard, t)
  PROVE  \E u : /\ ts' = [ts EXCEPT ![n] = u]
                /\ u.holder_unhealthy_since = t.holder_unhealthy_since
<1> DEFINE kept == [t EXCEPT !.last_holder = expected.holder]
           sample == Sample(n, heard)
<1>1. kept \in TickState /\ kept.holder_unhealthy_since = t.holder_unhealthy_since
  BY Leases, TickWrites, ClockWrites
<1>3. \/ Remember(n, kept)
      \/ Remember(n, [kept EXCEPT !.settled_pos = sample])
      \/ \E b \in Backoffs : Remember(n, [kept EXCEPT !.backoff_until = b])
      \/ Remember(n, t)
  BY DEF Candidacy
<1> HIDE DEF kept, sample
<1>4. [kept EXCEPT !.settled_pos = sample].holder_unhealthy_since = t.holder_unhealthy_since
  BY <1>1, ClockWrites
<1>5. \A b \in Backoffs :
        [kept EXCEPT !.backoff_until = b].holder_unhealthy_since = t.holder_unhealthy_since
  BY <1>1, ClockWrites
<1>6. ASSUME NEW u, Remember(n, u), u.holder_unhealthy_since = t.holder_unhealthy_since
      PROVE  \E v : /\ ts' = [ts EXCEPT ![n] = v]
                    /\ v.holder_unhealthy_since = t.holder_unhealthy_since
  BY <1>6 DEF Remember
<1>7. CASE Remember(n, kept)
  BY <1>1, <1>6, <1>7
<1>8. CASE Remember(n, [kept EXCEPT !.settled_pos = sample])
  BY <1>4, <1>6, <1>8
<1>9. CASE \E b \in Backoffs : Remember(n, [kept EXCEPT !.backoff_until = b])
  BY <1>5, <1>6, <1>9
<1>10. CASE Remember(n, t)
  BY <1>6, <1>10
<1>11. QED
  BY <1>3, <1>7, <1>8, <1>9, <1>10

(* A TickState that watches the holder it read about.                      *)
LEMMA Watching ==
  ASSUME IInv, NEW n \in Node, NEW h \in AnyNode, NEW t, ts' = [ts EXCEPT ![n] = t],
         t.holder_unhealthy_since = Watched(n, h).holder_unhealthy_since
  PROVE  \A m \in Node : ClockKept(m)
<1>1. /\ t.holder_unhealthy_since.holder = h
      /\ t.holder_unhealthy_since.age = UnhealthyFor(n, h)
  BY WatchedClock
<1>2. \E g \in AnyNode : /\ t.holder_unhealthy_since.holder = g
                         /\ t.holder_unhealthy_since.age = UnhealthyFor(n, g)
  BY <1>1
<1>3. QED
  BY <1>2, OneClock

LEMMA LoopClocks ==
  ASSUME IInv, NEW n \in Node, Loop(n)
  PROVE  \A m \in Node : ClockKept(m)
<1> DEFINE lease == agent[n].view.lease
<1>0. /\ ts \in [Node -> TickState] /\ ts[n] \in TickState
      /\ ReadState(n) \in TickState /\ lease \in AnyLease
      /\ lease.holder \in AnyNode /\ Vacant \in AnyLease
      /\ Watched(n, lease.holder) \in TickState
  BY TickFacts, AgentFacts, Leases, WatchedTyped
<1>f. FreshTickState.holder_unhealthy_since.holder = NoNode
  BY DEF FreshTickState
<1>1. CASE TickRead(n)
  BY <1>1, UnchangedClocks DEF TickRead
<1>2. CASE TickStoreUnknown(n)
  <2>1. \E a : ts' = [ts EXCEPT ![n] = [ts[n] EXCEPT !.store_unknown_since = a]]
    BY <1>2 DEF TickStoreUnknown, Remember
  <2>2. QED
    BY <1>0, <2>1, ClockWrites, OneClock DEF Clock
<1>3. CASE TickPaused(n)
  BY <1>3, WatchedClock, OneClock DEF TickPaused, Remember
<1>4. CASE TickHolder(n)
  <2> DEFINE held_for == IF ts[n].held_term = lease.term THEN ts[n].held_since ELSE 0
             t == [ReadState(n) EXCEPT
                     !.holder_unhealthy_since = FreshTickState.holder_unhealthy_since,
                     !.settled_pos = NoSample, !.held_term = lease.term,
                     !.held_since = held_for, !.last_holder = n]
  <2>1. ts' = [ts EXCEPT ![n] = t]
    BY <1>4 DEF TickHolder, Remember
  <2> HIDE DEF held_for
  <2>2. t.holder_unhealthy_since = FreshTickState.holder_unhealthy_since
    BY <1>0 DEF TickState
  <2> HIDE DEF t
  <2>3. QED
    BY <1>f, <2>1, <2>2, OneClock
<1>5. CASE TickFollower(n)
  <2> DEFINE t == [ReadState(n) EXCEPT
                     !.holder_unhealthy_since = FreshTickState.holder_unhealthy_since,
                     !.settled_pos = NoSample, !.last_holder = lease.holder]
  <2>1. ts' = [ts EXCEPT ![n] = t]
    BY <1>5 DEF TickFollower, Remember
  <2>2. t.holder_unhealthy_since = FreshTickState.holder_unhealthy_since
    BY <1>0 DEF TickState
  <2> HIDE DEF t
  <2>3. QED
    BY <1>f, <2>1, <2>2, OneClock
<1>6. CASE TickWatch(n)
  <2> DEFINE t == [Watched(n, lease.holder) EXCEPT !.last_holder = lease.holder]
  <2>1. ts' = [ts EXCEPT ![n] = t]
    BY <1>6 DEF TickWatch, Remember
  <2>2. t.holder_unhealthy_since = Watched(n, lease.holder).holder_unhealthy_since
    BY <1>0, ClockWrites
  <2> HIDE DEF t
  <2>3. QED
    BY <1>0, <2>1, <2>2, Watching
<1>7. CASE TickDepose(n)
  <2>1. PICK heard : Candidacy(n, lease, heard, Watched(n, lease.holder))
    BY <1>7 DEF TickDepose
  <2>2. PICK u : /\ ts' = [ts EXCEPT ![n] = u]
                 /\ u.holder_unhealthy_since = Watched(n, lease.holder).holder_unhealthy_since
    BY <1>0, <2>1, CandidacyClocks
  <2>3. QED
    BY <1>0, <2>2, Watching
<1>8. CASE TickVacant(n)
  <2>1. \/ ts' = [ts EXCEPT ![n] = [ReadState(n) EXCEPT !.last_holder = NoNode]]
        \/ \E heard : Candidacy(n, Vacant, heard, ReadState(n))
    BY <1>8 DEF TickVacant, Remember
  <2>2. ReadState(n).holder_unhealthy_since = Clock(n)
    BY WatchedClock, NoNodeAssumption
  <2>3. ASSUME ts' = [ts EXCEPT ![n] = [ReadState(n) EXCEPT !.last_holder = NoNode]]
        PROVE  \A m \in Node : ClockKept(m)
    BY <1>0, <2>2, <2>3, ClockWrites, OneClock
  <2>4. ASSUME NEW heard, Candidacy(n, Vacant, heard, ReadState(n))
        PROVE  \A m \in Node : ClockKept(m)
    BY <1>0, <2>2, <2>4, CandidacyClocks, OneClock
  <2>5. QED
    BY <2>1, <2>3, <2>4
<1>9. ASSUME NEW h, ts' = [ts EXCEPT ![n].last_holder = h]
      PROVE  \A m \in Node : ClockKept(m)
  <2>1. ts' = [ts EXCEPT ![n] = [ts[n] EXCEPT !.last_holder = h]]
    BY <1>0, <1>9
  <2>2. QED
    BY <1>0, <2>1, ClockWrites, OneClock DEF Clock
<1>10. CASE TakeoverWon(n) \/ TakeoverFails(n)
  BY <1>9, <1>10 DEF TakeoverWon, TakeoverFails
<1>11. CASE TakeoverLost(n)
  <2>1. PICK b \in Backoffs :
          ts' = [ts EXCEPT ![n].last_holder = agent[n].dec.lease.holder,
                           ![n].backoff_until = b]
    BY <1>11 DEF TakeoverLost
  <2> DEFINE t == [ts[n] EXCEPT !.last_holder = agent[n].dec.lease.holder,
                                !.backoff_until = b]
  <2>2. ts' = [ts EXCEPT ![n] = t]
    BY <1>0, <2>1
  <2>3. t.holder_unhealthy_since = Clock(n)
    BY <1>0 DEF TickState, Clock
  <2> HIDE DEF t
  <2>4. QED
    BY <2>2, <2>3, OneClock
<1>12. CASE ReleaseLease(n)
  <2>1. PICK b \in Backoffs : ts' = [ts EXCEPT ![n].backoff_until = b]
    BY <1>12 DEF ReleaseLease
  <2>2. ts' = [ts EXCEPT ![n] = [ts[n] EXCEPT !.backoff_until = b]]
    BY <1>0, <2>1
  <2>3. QED
    BY <1>0, <2>2, ClockWrites, OneClock DEF Clock
<1>13. QED
  BY <1>1, <1>2, <1>3, <1>4, <1>5, <1>6, <1>7, <1>8, <1>10, <1>11, <1>12
  DEF Loop, Tick

LEMMA ClockStep ==
  ASSUME IInv, [Next]_vars, ~Elapse
  PROVE  \A m \in Node : ClockKept(m)
<1>1. CASE UNCHANGED ts
  BY <1>1, UnchangedClocks
<1>2. ASSUME NEW n \in Node, Loop(n)
      PROVE  \A m \in Node : ClockKept(m)
  BY <1>2, LoopClocks
<1>3. ASSUME NEW n \in Node, Apply(n) \/ Startup(n) \/ Database(n)
      PROVE  \A m \in Node : ClockKept(m)
  BY <1>1, <1>3, ExecutorFrame, StartupFrame, DatabaseFrame
<1>4. ASSUME NEW n \in Node, Faults(n)
      PROVE  \A m \in Node : ClockKept(m)
  <2>1. UNCHANGED ts \/ ts' = [ts EXCEPT ![n] = FreshTickState]
    BY <1>4 DEF Faults, AgentStart, AgentCrash, HostCrash, PgCrash, PgDeaf, Rejoin,
                AgentDown
  <2>2. FreshTickState.holder_unhealthy_since.holder = NoNode
    BY DEF FreshTickState
  <2>3. QED
    BY <1>1, <2>1, <2>2, OneClock
<1>5. ASSUME NEW cmd \in late, CommitLate(cmd)
      PROVE  \A m \in Node : ClockKept(m)
  BY <1>1, <1>5 DEF CommitLate
<1>6. CASE Partition \/ Heal \/ SetPaused \/ UNCHANGED vars
  BY <1>1, <1>6 DEF Partition, Heal, SetPaused, vars, havars
<1>7. QED
  BY <1>2, <1>3, <1>4, <1>5, <1>6 DEF Next

(* While the lease is the same, the age of the lease never falls.          *)
LEMMA TenureStep ==
  ASSUME IInv, [Next]_vars
  PROVE  /\ tenure \in Nat /\ tenure' \in Nat
         /\ store'.lease = store.lease => tenure' >= tenure
<1>1. tenure \in 0 .. MaxAge /\ tenure' \in 0 .. MaxAge /\ MaxAge \in Nat
  BY LateStep, Constants DEF IInv, TypeOK
<1>2. CASE UNCHANGED tenure
  BY <1>1, <1>2
<1>3. ASSUME NEW n \in Node, TakeoverWon(n)
      PROVE  store'.lease # store.lease
  <2>1. store'.lease = [holder |-> n, term |-> store.generation + 1]
    BY <1>3, ProposalWins DEF TakeoverWon
  <2>2. store.lease.term <= store.generation /\ store.generation \in Nat
          /\ store.lease.term \in Nat
    BY Leases DEF IInv, TypeOK, ClusterState
  <2>3. QED
    BY <2>1, <2>2
<1>4. ASSUME NEW n \in Node, Loop(n)
      PROVE  store'.lease = store.lease => UNCHANGED tenure
  BY <1>3, <1>4
  DEF Loop, Tick, TickRead, TickStoreUnknown, TickPaused, TickHolder,
      TickFollower, TickWatch, TickDepose, TickVacant, TakeoverLost,
      TakeoverFails, ReleaseLease, Observing
<1>5. ASSUME NEW n \in Node, Apply(n) \/ Startup(n) \/ Database(n) \/ Faults(n)
      PROVE  UNCHANGED tenure
  BY <1>5, ExecutorFrame, StartupFrame, DatabaseFrame, FaultsFrame
<1>6. ASSUME NEW cmd \in late, CommitLate(cmd)
      PROVE  store'.lease = store.lease => UNCHANGED tenure
  BY <1>6 DEF CommitLate
<1>7. CASE Partition \/ Heal \/ SetPaused \/ UNCHANGED vars
  BY <1>2, <1>7 DEF Partition, Heal, SetPaused, vars, havars
<1>8. CASE Elapse
  <2>1. tenure' = Older(tenure)
    BY <1>8 DEF Elapse
  <2> HIDE DEF MaxAge
  <2>2. QED
    BY <1>1, <2>1 DEF Older, NoClock
<1>9. QED
  BY <1>1, <1>2, <1>4, <1>5, <1>6, <1>7, <1>8 DEF Next

(* Time passes for a clock as it does for the lease.                       *)
LEMMA ElapsedClocks ==
  ASSUME IInv, ClockInv, Elapse
  PROVE  ClockInv'
<1>1. /\ store' = store /\ tenure' = Older(tenure)
      /\ tenure \in 0 .. MaxAge /\ MaxAge \in Nat
  BY Constants DEF Elapse, IInv, TypeOK
<1>2. ASSUME NEW n \in Node
      PROVE  /\ Clock(n)'.holder = Clock(n).holder
             /\ Clock(n)'.age = Older(Clock(n).age)
             /\ Clock(n).age \in Age
  <2>1. /\ ts[n] \in TickState
        /\ ts[n].holder_unhealthy_since \in [holder : AnyNode, age : Age]
        /\ Clock(n).age \in Age
    BY TickFacts DEF Clock
  <2>2. ts'[n] = [ts[n] EXCEPT !.holder_unhealthy_since.age = Older(@),
                               !.store_unknown_since = Older(@),
                               !.held_since = Older(@),
                               !.backoff_until = IF @ > 0 THEN @ - 1 ELSE 0]
    BY DEF Elapse
  <2> DEFINE c == [ts[n].holder_unhealthy_since EXCEPT
                     !.age = Older(ts[n].holder_unhealthy_since.age)]
             u == Older(ts[n].store_unknown_since)
             s == Older(ts[n].held_since)
             b == IF ts[n].backoff_until > 0 THEN ts[n].backoff_until - 1 ELSE 0
  <2>3. ts'[n] = [ts[n] EXCEPT !.holder_unhealthy_since = c,
                               !.store_unknown_since = u,
                               !.held_since = s, !.backoff_until = b]
    BY <2>1, <2>2 DEF TickState
  <2>4. /\ c.holder = ts[n].holder_unhealthy_since.holder
        /\ c.age = Older(ts[n].holder_unhealthy_since.age)
    BY <2>1
  <2> HIDE DEF c, u, s, b
  <2>5. ts'[n].holder_unhealthy_since = c
    BY <2>1, <2>3 DEF TickState
  <2>6. QED
    BY <2>1, <2>4, <2>5 DEF Clock
<1>3. \A a \in Age : a <= tenure => Older(a) <= Older(tenure)
  <2> HIDE DEF MaxAge
  <2>1. QED
    BY <1>1 DEF Age, Older, NoClock
<1>4. QED
  BY <1>1, <1>2, <1>3 DEF ClockInv

LEMMA ClocksStep ==
  ASSUME IInv, ClockInv, [Next]_vars, [NoClockOutlives]_vars
  PROVE  ClockInv'
<1>1. CASE Elapse
  BY <1>1, ElapsedClocks
<1>2. ASSUME ~Elapse, NEW n \in Node, Clock(n)'.holder = store'.lease.holder,
             store'.lease.holder \in Node
      PROVE  Clock(n)'.age <= tenure'
  <2>1. /\ ClockKept(n)
        /\ tenure \in Nat /\ tenure' \in Nat
        /\ store'.lease = store.lease => tenure' >= tenure
        /\ Clock(n).age \in Age
    BY <1>2, ClockStep, TenureStep, TickFacts DEF Clock
  <2>2. \A a \in Age : a \in Int
    BY Constants DEF Age, NoClock
  <2> DEFINE h == store'.lease.holder
  <2>3. ASSUME store'.lease = store.lease, Clock(n).holder = h
        PROVE  Clock(n).age <= tenure'
    <3>1. Clock(n).age <= tenure
      BY <1>2, <2>3 DEF ClockInv
    <3>2. QED
      BY <2>1, <2>2, <2>3, <3>1
  <2>4. ASSUME store'.lease # store.lease
        PROVE  Clock(n).holder # h
    <3>1. ~UNCHANGED vars
      BY <2>4 DEF vars, havars
    <3>2. NoClockOutlives
      BY <3>1
    <3>3. QED
      BY <1>2, <2>4, <3>2 DEF NoClockOutlives
  <2>5. CASE Clock(n)' = Clock(n)
    BY <1>2, <2>3, <2>4, <2>5
  <2>6. CASE Clock(n)'.holder = NoNode
    BY <1>2, <2>6, NoNodeAssumption
  <2>7. CASE Clock(n)'.age = UnhealthyFor(n, h)
    <3>1. CASE Clock(n).holder = h
      <4>1. Clock(n)'.age = Clock(n).age
        BY <2>7, <3>1 DEF UnhealthyFor, Clock
      <4>2. QED
        BY <2>3, <2>4, <3>1, <4>1
    <3>2. CASE Clock(n).holder # h
      <4>1. Clock(n)'.age = 0
        BY <2>7, <3>2 DEF UnhealthyFor, Clock
      <4>2. QED
        BY <2>1, <4>1
    <3>3. QED
      BY <3>1, <3>2
  <2>8. QED
    BY <1>2, <2>1, <2>5, <2>6, <2>7 DEF ClockKept
<1>3. QED
  BY <1>1, <1>2 DEF ClockInv

-----------------------------------------------------------------------------
(* Who proposes, and what.  After a step an agent is at its proposal       *)
(* because it was, or because its tick found the vacancy, or a holder that *)
(* its clock saw unhealthy for the ttl.                                    *)
Proposing(n, x) ==
  x.at = "propose" =>
    \/ agent[n].at = "propose" /\ x.dec.lease = agent[n].dec.lease
    \/ x.dec.lease = Vacant
    \/ /\ store'.lease = store.lease
       /\ x.dec.lease.holder \in Node
       /\ UnhealthyFor(n, x.dec.lease.holder) >= LeaderTtl

LEMMA OneProposes ==
  ASSUME IInv, NEW n \in Node, NEW x, Proposing(n, x), agent' = [agent EXCEPT ![n] = x]
  PROVE  \A m \in Node : Proposing(m, agent'[m])
<1>1. agent \in [Node -> Agent]
  BY AgentFacts
<1>2. agent'[n] = x /\ \A m \in Node : m # n => agent'[m] = agent[m]
  BY <1>1
<1>3. \A m \in Node : Proposing(m, agent[m])
  BY DEF Proposing
<1>4. QED
  BY <1>2, <1>3

LEMMA GoProposes ==
  ASSUME IInv, NEW n \in Node, NEW at, NEW kind, NEW lease, Go(n, at, kind, lease),
         \/ at # "propose" \/ lease = Vacant
         \/ /\ store'.lease = store.lease /\ lease.holder \in Node
            /\ UnhealthyFor(n, lease.holder) >= LeaderTtl
  PROVE  \A m \in Node : Proposing(m, agent'[m])
<1> DEFINE x == [at |-> at, view |-> NoView, dec |-> [kind |-> kind, lease |-> lease],
                 wait |-> LoopWait, age |-> 0]
<1>1. agent' = [agent EXCEPT ![n] = x]
  BY DEF Go
<1>2. x.at = at /\ x.dec.lease = lease
  OBVIOUS
<1> HIDE DEF x
<1>3. Proposing(n, x)
  BY <1>2 DEF Proposing
<1>4. QED
  BY <1>1, <1>3, OneProposes

LEMMA CandidacyProposes ==
  ASSUME IInv, NEW n \in Node, NEW expected, NEW heard, NEW t,
         Candidacy(n, expected, heard, t),
         \/ expected = Vacant
         \/ /\ store'.lease = store.lease /\ expected.holder \in Node
            /\ UnhealthyFor(n, expected.holder) >= LeaderTtl
  PROVE  \A m \in Node : Proposing(m, agent'[m])
<1>1. \/ Sleep(n) \/ Act(n, "DetachingFromDeposed", expected)
      \/ \E kind \in {"Claimed", "TookOver"} : Go(n, "propose", kind, expected)
  BY DEF Candidacy
<1>2. CASE Sleep(n) \/ Act(n, "DetachingFromDeposed", expected)
  BY <1>2, GoProposes DEF Sleep, Act
<1>3. CASE \E kind \in {"Claimed", "TookOver"} : Go(n, "propose", kind, expected)
  BY <1>3, GoProposes
<1>4. QED
  BY <1>1, <1>2, <1>3

LEMMA LoopProposes ==
  ASSUME IInv, NEW n \in Node, Loop(n)
  PROVE  \A m \in Node : Proposing(m, agent'[m])
<1>1. CASE TickRead(n)
  <2>1. PICK view : agent' = [agent EXCEPT ![n].at = "observe", ![n].view = view]
    BY <1>1 DEF TickRead
  <2>2. agent[n] \in Agent /\ agent \in [Node -> Agent]
    BY AgentFacts
  <2> DEFINE x == [agent[n] EXCEPT !.at = "observe", !.view = view]
  <2>3. agent' = [agent EXCEPT ![n] = x] /\ x.at = "observe"
    BY <2>1, <2>2 DEF Agent
  <2> HIDE DEF x
  <2>4. Proposing(n, x)
    BY <2>3 DEF Proposing
  <2>5. QED
    BY <2>3, <2>4, OneProposes
<1>2. ASSUME NEW kind, NEW lease, NEW at \in {"sleep", "apply", "release"},
             Go(n, at, kind, lease)
      PROVE  \A m \in Node : Proposing(m, agent'[m])
  BY <1>2, GoProposes
<1>3. CASE \/ TickStoreUnknown(n) \/ TickPaused(n) \/ TickHolder(n)
           \/ TickFollower(n) \/ TickWatch(n)
  BY <1>2, <1>3
  DEF TickStoreUnknown, TickPaused, TickHolder, TickFollower, TickWatch, Sleep, Act
<1>4. CASE TickDepose(n)
  <2> DEFINE lease == agent[n].view.lease
  <2>1. PICK heard \in SUBSET Peers(n) :
          /\ store' = store
          /\ lease.holder \in Peers(n)
          /\ UnhealthyFor(n, lease.holder) >= LeaderTtl
          /\ Candidacy(n, lease, heard, Watched(n, lease.holder))
    BY <1>4 DEF TickDepose, HolderLooksDead, Observing
  <2>2. lease.holder \in Node
    BY <2>1 DEF Peers
  <2> HIDE DEF lease
  <2>3. QED
    BY <2>1, <2>2, CandidacyProposes
<1>5. CASE TickVacant(n)
  <2>1. Sleep(n) \/ \E heard : Candidacy(n, Vacant, heard, ReadState(n))
    BY <1>5 DEF TickVacant
  <2>2. QED
    BY <1>2, <2>1, CandidacyProposes DEF Sleep
<1>6. CASE TakeoverWon(n) \/ TakeoverLost(n) \/ TakeoverFails(n) \/ ReleaseLease(n)
  BY <1>2, <1>6 DEF TakeoverWon, TakeoverLost, TakeoverFails, ReleaseLease, Sleep, Act
<1>7. QED
  BY <1>1, <1>3, <1>4, <1>5, <1>6 DEF Loop, Tick

LEMMA ProposeStep ==
  ASSUME IInv, [Next]_vars
  PROVE  \A m \in Node : Proposing(m, agent'[m])
<1>0. \A m \in Node : Proposing(m, agent[m])
  BY DEF Proposing
<1>1. CASE UNCHANGED agent
  BY <1>0, <1>1
<1>2. ASSUME NEW n \in Node, NEW at, NEW kind, NEW lease, at # "propose",
             Go(n, at, kind, lease)
      PROVE  \A m \in Node : Proposing(m, agent'[m])
  BY <1>2, GoProposes
<1>3. ASSUME NEW n \in Node, Apply(n)
      PROVE  \A m \in Node : Proposing(m, agent'[m])
  BY <1>1, <1>2, <1>3
  DEF Apply, ApplyPromote, PromotionSeen, PromotionTimesOut, ApplyDemote,
      FollowAsPrimary, FollowConfirmed, Follow, FollowNothing, ApplyDetach,
      ApplyRetain, Fence, Sleep
<1>4. ASSUME NEW n \in Node, Startup(n)
      PROVE  \A m \in Node : Proposing(m, agent'[m])
  BY <1>2, <1>4 DEF Startup, StartVerify, ColdStart, StartPostgres, Sleep
<1>5. ASSUME NEW n \in Node, Faults(n)
      PROVE  \A m \in Node : Proposing(m, agent'[m])
  <2>1. UNCHANGED agent \/ \E at \in {"verify", "down"} :
                             agent' = [agent EXCEPT ![n] = Awake(at)]
    BY <1>5 DEF Faults, AgentStart, AgentCrash, HostCrash, PgCrash, PgDeaf, Rejoin,
                AgentDown
  <2>2. \A at \in {"verify", "down"} : Proposing(n, Awake(at))
    BY DEF Proposing, Awake
  <2>3. QED
    BY <1>1, <2>1, <2>2, OneProposes
<1>6. CASE Elapse
  <2>1. ASSUME NEW m \in Node
        PROVE  agent'[m].at = agent[m].at /\ agent'[m].dec = agent[m].dec
    <3>1. agent'[m] =
            [agent[m] EXCEPT !.wait = IF agent[m].at = "sleep" /\ @ > 0 THEN @ - 1 ELSE @,
                             !.age = IF agent[m].at \in {"promote", "verify", "cold"}
                                     THEN Older(@) ELSE @]
      BY <1>6 DEF Elapse
    <3>2. agent[m] \in Agent
      BY AgentFacts
    <3>3. QED
      BY <3>1, <3>2 DEF Agent
  <2>2. QED
    BY <2>1 DEF Proposing
<1>7. ASSUME NEW n \in Node, Loop(n) \/ Database(n)
      PROVE  \A m \in Node : Proposing(m, agent'[m])
  BY <1>1, <1>7, LoopProposes, DatabaseFrame
<1>8. ASSUME NEW cmd \in late, CommitLate(cmd)
      PROVE  UNCHANGED agent
  BY <1>8 DEF CommitLate
<1>9. CASE Partition \/ Heal \/ SetPaused \/ UNCHANGED vars
  BY <1>1, <1>9 DEF Partition, Heal, SetPaused, vars, havars
<1>10. QED
  BY <1>1, <1>3, <1>4, <1>5, <1>6, <1>7, <1>8, <1>9 DEF Next

LEMMA WindowStep ==
  WindowInv /\ [Next]_vars /\ [NoClockOutlives]_vars => WindowInv'
<1> SUFFICES ASSUME WindowInv, [Next]_vars, [NoClockOutlives]_vars
             PROVE  WindowInv'
  OBVIOUS
<1>1. IInv /\ ClockInv /\ ProtectionWindow
  BY DEF WindowInv
<1>2. IInv' /\ ClockInv'
  BY <1>1, StepIInv, ClocksStep
<1>3. ASSUME NEW n \in Node, agent'[n].at = "propose",
             agent'[n].dec.lease = store'.lease, store'.lease # Vacant
      PROVE  tenure' >= LeaderTtl
  <2>1. /\ tenure \in Nat /\ tenure' \in Nat /\ LeaderTtl \in Nat
        /\ store'.lease = store.lease => tenure' >= tenure
        /\ Proposing(n, agent'[n])
    BY <1>1, TenureStep, ProposeStep, Constants
  <2>2. CASE agent[n].at = "propose" /\ agent'[n].dec.lease = agent[n].dec.lease
    <3>1. store'.lease = store.lease
      <4>1. /\ agent[n].dec.lease.term \in 0 .. store.generation
            /\ store.generation \in Nat
        BY <1>1, AgentFacts DEF IInv, TermInv, TypeOK, ClusterState
      <4>2. StoreMoves
        BY <1>1, StoreStep
      <4>3. ASSUME NEW c \in Node,
                   store'.lease = [holder |-> c, term |-> store.generation + 1]
            PROVE  FALSE
        <5>1. store'.lease.term = store.generation + 1
          BY <4>3
        <5>2. QED
          BY <1>3, <2>2, <4>1, <5>1
      <4>4. QED
        BY <1>3, <4>2, <4>3 DEF StoreMoves
    <3>2. tenure >= LeaderTtl
      BY <1>1, <1>3, <2>2, <3>1 DEF ProtectionWindow
    <3>3. QED
      BY <2>1, <3>1, <3>2
  <2>3. CASE /\ store'.lease = store.lease
             /\ agent'[n].dec.lease.holder \in Node
             /\ UnhealthyFor(n, agent'[n].dec.lease.holder) >= LeaderTtl
    <3>1. /\ store.lease.holder \in Node
          /\ UnhealthyFor(n, store.lease.holder) >= LeaderTtl
      BY <1>3, <2>3
    <3>2. CASE Clock(n).holder = store.lease.holder
      <4>1. Clock(n).age >= LeaderTtl /\ Clock(n).age <= tenure
        BY <1>1, <3>1, <3>2 DEF UnhealthyFor, ClockInv, Clock
      <4>2. Clock(n).age \in Int
        BY <1>1, TickFacts, Constants DEF Clock, Age, NoClock
      <4>3. QED
        BY <2>1, <2>3, <4>1, <4>2
    <3>3. CASE Clock(n).holder # store.lease.holder
      <4>1. 0 >= LeaderTtl
        BY <3>1, <3>3 DEF UnhealthyFor, Clock
      <4>2. QED
        BY <2>1, <4>1
    <3>4. QED
      BY <3>2, <3>3
  <2>4. QED
    BY <1>3, <2>1, <2>2, <2>3 DEF Proposing
<1>4. ProtectionWindow'
  BY <1>3 DEF ProtectionWindow
<1>5. QED
  BY <1>2, <1>4 DEF WindowInv

LEMMA WindowInit == Init => WindowInv
<1> SUFFICES ASSUME Init PROVE WindowInv
  OBVIOUS
<1>1. IInv
  BY InitIInv
<1>2. ASSUME NEW n \in Node
      PROVE  Clock(n).holder = NoNode /\ agent[n].at = "sleep"
  <2>1. ts[n] = [FreshTickState EXCEPT !.last_holder = Primary]
    BY DEF Init
  <2>2. ts[n].holder_unhealthy_since = FreshTickState.holder_unhealthy_since
    BY <2>1 DEF FreshTickState
  <2>3. FreshTickState.holder_unhealthy_since.holder = NoNode
    BY DEF FreshTickState
  <2>4. agent[n].at = "sleep"
    BY DEF Init, Awake
  <2>5. QED
    BY <2>2, <2>3, <2>4 DEF Clock
<1>3. ClockInv
  BY <1>2, NoNodeAssumption DEF ClockInv
<1>4. ProtectionWindow
  BY <1>2 DEF ProtectionWindow
<1>5. QED
  BY <1>1, <1>3, <1>4 DEF WindowInv

(* "The ttl is each holder's protection window" (finding 13): in every     *)
(* pool, under every timing, scheduling and faults, nobody proposes to     *)
(* depose the lease in force before it is a leader_ttl old.  The           *)
(* hypothesis is what keying holder_unhealthy_since by the holder alone    *)
(* leaves open: no clock still watches a node from a former tenure when    *)
(* that node comes to the lease again.                                     *)
THEOREM TtlProtects == Spec /\ [][NoClockOutlives]_vars => []ProtectionWindow
<1>1. Init => WindowInv
  BY WindowInit
<1>2. WindowInv /\ [Next]_vars /\ [NoClockOutlives]_vars => WindowInv'
  BY WindowStep
<1>3. WindowInv => ProtectionWindow
  BY DEF WindowInv
<1>4. QED
  BY <1>1, <1>2, <1>3, PTL DEF Spec

-----------------------------------------------------------------------------
(* The blind link.  All that has gone wrong, if anything, is one link.     *)
OnlyALink ==
  \/ faults = MaxFaults /\ cut = {}
  \/ faults + 1 = MaxFaults /\ \E pair \in Pairs : cut = {pair}

(* The lease and every instance are what they were at bootstrap.           *)
LeaseKept ==
  /\ store.lease.holder = Primary /\ ~store.paused /\ late = {}
  /\ \A n \in Node : /\ pg[n].running /\ ~pg[n].deaf /\ ~pg[n].promoting
                     /\ pg[n].shape = IF n = Primary THEN "primary" ELSE "standby"

(* An agent is in its loop, read that lease, and decided what it says.     *)
Steady(n, x) ==
  /\ x.at \in {"sleep", "observe", "apply"}
  /\ x.at = "observe" =>
       x.view.known /\ ~x.view.paused /\ x.view.lease.holder = Primary
  /\ x.at = "apply" =>
       x.dec.kind = IF n = Primary THEN "RetainedLease" ELSE "Following"

(* A member linked to the primary saw it serving a loop_wait ago at most:  *)
(* it looks at every tick, and ticks as soon as its sleep is over.  x is   *)
(* its agent, s the age of what it saw.                                    *)
Fresh(n, x, s, links) ==
  {n, Primary} \notin links =>
    /\ s <= LoopWait
    /\ x.at = "sleep" => s + x.wait <= LoopWait
    /\ x.at = "apply" => s = 0

AgentsSteady ==
  \A n \in Node : /\ Steady(n, agent[n])
                  /\ n # Primary => Fresh(n, agent[n], seen[n][Primary], cut)

SteadyState == LeaseKept /\ AgentsSteady

BlindInv ==
  /\ IInv
  /\ cut # {} => faults < MaxFaults
  /\ OnlyALink => SteadyState

LEMMA CutStep ==
  ASSUME IInv, [Next]_vars
  PROVE  UNCHANGED cut \/ Partition \/ Heal
<1>1. ASSUME NEW n \in Node, Loop(n) \/ Apply(n) \/ Startup(n) \/ Database(n) \/ Faults(n)
      PROVE  UNCHANGED cut
  BY <1>1, LoopFrame, ExecutorFrame, StartupFrame, DatabaseFrame, FaultsFrame
<1>2. ASSUME NEW cmd \in late, CommitLate(cmd)
      PROVE  UNCHANGED cut
  BY <1>2 DEF CommitLate, pgvars
<1>3. CASE SetPaused \/ Elapse \/ UNCHANGED vars
  BY <1>3 DEF SetPaused, Elapse, vars, pgvars
<1>4. QED
  BY <1>1, <1>2, <1>3 DEF Next

(* Only the first cut, or a step without a fault, leads to such a state,   *)
(* and from such a state.                                                  *)
LEMMA LinkStep ==
  ASSUME BlindInv, [Next]_vars
  PROVE  /\ cut' # {} => faults' < MaxFaults
         /\ OnlyALink' => /\ OnlyALink /\ ~Heal
                          /\ UNCHANGED <<faults, cut>> \/ (Partition /\ cut = {})
<1>1. /\ faults \in 0 .. MaxFaults /\ MaxFaults \in Nat
      /\ cut # {} => faults < MaxFaults
      /\ faults' = faults \/ (faults > 0 /\ faults' = faults - 1)
  BY FaultsFall, Constants DEF BlindInv, IInv, TypeOK
<1>2. CASE UNCHANGED cut /\ ~Partition /\ ~Heal
  <2>1. CASE UNCHANGED faults
    BY <1>1, <1>2, <2>1 DEF OnlyALink
  <2>2. CASE faults > 0 /\ faults' = faults - 1
    <3>1. faults' < MaxFaults /\ (cut # {} => faults' + 1 < MaxFaults)
      BY <1>1, <2>2
    <3>2. ~OnlyALink'
      BY <1>1, <1>2, <3>1 DEF OnlyALink
    <3>3. QED
      BY <3>1, <3>2
  <2>3. QED
    BY <1>1, <2>1, <2>2
<1>3. CASE Partition
  <2>1. cut = {} /\ cut' # {} /\ faults > 0 /\ faults' = faults - 1
    BY <1>3 DEF Partition, Fault
  <2>2. OnlyALink' => faults' + 1 = MaxFaults
    BY <2>1 DEF OnlyALink
  <2>3. ~Heal
    BY <2>1 DEF Heal
  <2>4. QED
    BY <1>1, <1>3, <2>1, <2>2, <2>3 DEF OnlyALink
<1>4. CASE Heal
  <2>1. cut # {} /\ cut' = {} /\ faults' = faults
    BY <1>4 DEF Heal, Repair
  <2>2. QED
    BY <1>1, <2>1 DEF OnlyALink
<1>5. QED
  BY <1>2, <1>3, <1>4, CutStep DEF BlindInv

-----------------------------------------------------------------------------
(* In a pool of three or more, one broken link leaves somebody linked to   *)
(* everybody.                                                              *)
LEMMA Outside ==
  ASSUME Cardinality(Node) >= 3, NEW pair \in SUBSET Node, Cardinality(pair) <= 2
  PROVE  \E l \in Node : l \notin pair
<1>1. IsFiniteSet(Node) /\ Cardinality(Node) \in Nat
  BY ClusterAssumption, FS_CardinalityType
<1>2. IsFiniteSet(pair) /\ Cardinality(pair) \in Nat
  BY <1>1, FS_Subset, FS_CardinalityType
<1>3. pair # Node
  BY <1>1, <1>2
<1>4. QED
  BY <1>3

LEMMA PairSize ==
  ASSUME NEW a, NEW b
  PROVE  Cardinality({a, b}) <= 2
<1>1. IsFiniteSet({a}) /\ Cardinality({a}) = 1
  BY FS_Singleton
<1>2. Cardinality({a} \cup {b}) = IF b \in {a} THEN Cardinality({a}) ELSE Cardinality({a}) + 1
  BY <1>1, FS_AddElement
<1>3. {a} \cup {b} = {a, b}
  OBVIOUS
<1>4. Cardinality({a, b}) = 1 \/ Cardinality({a, b}) = 1 + 1
  BY <1>1, <1>2, <1>3
<1>5. QED
  BY <1>4

LEMMA EverybodyReadsTheStore ==
  ASSUME IInv, OnlyALink, SteadyState, Cardinality(Node) >= 3, NEW n \in Node
  PROVE  StoreReachable(n)
<1>1. PICK l \in Node : \A p \in Node : Linked(l, p)
  <2>1. CASE cut = {}
    BY <2>1, ClusterAssumption DEF Linked
  <2>2. ASSUME NEW pair \in Pairs, cut = {pair}
        PROVE  \E l \in Node : \A p \in Node : Linked(l, p)
    <3>1. pair \in SUBSET Node /\ Cardinality(pair) = 2
      BY DEF Pairs
    <3>2. PICK l \in Node : l \notin pair
      BY <3>1, Outside
    <3>3. QED
      BY <2>2, <3>2 DEF Linked
  <2>3. QED
    BY <2>1, <2>2 DEF OnlyALink
<1>2. \A p \in Node : Up(p)
  BY DEF Up, SteadyState, AgentsSteady, Steady
<1>3. {p \in Node : Up(p) /\ Linked(l, p)} = Node
  BY <1>1, <1>2
<1>4. Cardinality(Node) \in Nat
  BY ClusterAssumption, FS_CardinalityType
<1>5. CanLead(l)
  BY <1>2, <1>3, <1>4 DEF CanLead, Majority
<1>6. Linked(n, l)
  BY <1>1 DEF Linked
<1>7. QED
  BY <1>5, <1>6 DEF StoreReachable

(* The second opinion: a member that cannot see the primary hears another  *)
(* one that has just seen it.                                              *)
LEMMA SecondOpinion ==
  ASSUME IInv, OnlyALink, SteadyState, Cardinality(Node) >= 3,
         NEW n \in Node, n # Primary, {n, Primary} \in cut
  PROVE  Witnessed(n, Primary, Hearable(n))
<1>0. Primary \in Node
  BY ClusterAssumption
<1>1. PICK pair \in Pairs : cut = {pair}
  BY DEF OnlyALink
<1>2. cut = {{n, Primary}}
  BY <1>1
<1>3. PICK w \in Node : w # n /\ w # Primary
  <2>1. {n, Primary} \in SUBSET Node /\ Cardinality({n, Primary}) <= 2
    BY <1>0, PairSize
  <2>2. PICK w \in Node : w \notin {n, Primary}
    BY <2>1, Outside
  <2>3. QED
    BY <2>2
<1>4. {w, Primary} \notin cut /\ Linked(n, w)
  BY <1>2, <1>3 DEF Linked
<1>5. Up(w) /\ seen[w][Primary] <= LoopWait
  BY <1>3, <1>4 DEF SteadyState, AgentsSteady, Steady, Fresh, Up
<1>6. w \in Hearable(n) \ {Primary}
  BY <1>3, <1>4, <1>5 DEF Hearable, Peers
<1>7. seen[w][Primary] \in Nat
  <2>1. seen[w] \in [Peers(w) -> 0 .. MaxAge] /\ Primary \in Peers(w)
    BY <1>0, <1>3 DEF IInv, TypeOK, Peers
  <2>2. QED
    BY <2>1, Constants
<1>8. LoopWait <= LeaderTtl
  BY TimingAssumption
<1>9. seen[w][Primary] <= LeaderTtl
  BY <1>5, <1>7, <1>8, Constants
<1>10. QED
  BY <1>6, <1>9 DEF Witnessed

-----------------------------------------------------------------------------
(* One agent moves; what the others saw stays.                             *)
LEMMA AgentMoves ==
  ASSUME IInv, SteadyState, NEW n \in Node, NEW x, agent' = [agent EXCEPT ![n] = x],
         Steady(n, x), n # Primary => Fresh(n, x, seen'[n][Primary], cut),
         \A m \in Node \ {n} : seen'[m] = seen[m], UNCHANGED cut
  PROVE  AgentsSteady'
<1>1. agent'[n] = x /\ \A m \in Node \ {n} : agent'[m] = agent[m]
  BY AgentFacts
<1>2. ASSUME NEW m \in Node
      PROVE  /\ Steady(m, agent'[m])
             /\ m # Primary => Fresh(m, agent'[m], seen'[m][Primary], cut')
  <2>1. CASE m = n
    BY <1>1, <2>1
  <2>2. CASE m # n
    <3>1. agent'[m] = agent[m] /\ seen'[m] = seen[m] /\ cut' = cut
      BY <1>1, <2>2
    <3>2. Steady(m, agent[m]) /\ (m # Primary => Fresh(m, agent[m], seen[m][Primary], cut))
      BY DEF SteadyState, AgentsSteady
    <3>3. QED
      BY <3>1, <3>2
  <2>3. QED
    BY <2>1, <2>2
<1>3. QED
  BY <1>2 DEF AgentsSteady

LEMMA SleepsSteady ==
  ASSUME IInv, SteadyState, NEW n \in Node, Sleep(n), UNCHANGED cut,
         \A m \in Node \ {n} : seen'[m] = seen[m],
         n # Primary /\ {n, Primary} \notin cut => seen'[n][Primary] = 0
  PROVE  AgentsSteady'
<1> DEFINE x == [at |-> "sleep", view |-> NoView, dec |-> [kind |-> "none", lease |-> Vacant],
                 wait |-> LoopWait, age |-> 0]
<1>1. agent' = [agent EXCEPT ![n] = x] /\ x.at = "sleep" /\ x.wait = LoopWait
  BY DEF Sleep, Go
<1> HIDE DEF x
<1>2. Steady(n, x)
  BY <1>1 DEF Steady
<1>3. n # Primary => Fresh(n, x, seen'[n][Primary], cut)
  BY <1>1, Constants DEF Fresh
<1>4. QED
  BY <1>1, <1>2, <1>3, AgentMoves

LEMMA ActsSteady ==
  ASSUME IInv, SteadyState, NEW n \in Node, NEW kind, NEW lease, Act(n, kind, lease),
         kind = IF n = Primary THEN "RetainedLease" ELSE "Following", UNCHANGED cut,
         \A m \in Node \ {n} : seen'[m] = seen[m],
         n # Primary /\ {n, Primary} \notin cut => seen'[n][Primary] = 0
  PROVE  AgentsSteady'
<1> DEFINE x == [at |-> "apply", view |-> NoView, dec |-> [kind |-> kind, lease |-> lease],
                 wait |-> LoopWait, age |-> 0]
<1>1. agent' = [agent EXCEPT ![n] = x] /\ x.at = "apply" /\ x.dec.kind = kind
  BY DEF Act, Go
<1> HIDE DEF x
<1>2. Steady(n, x)
  BY <1>1 DEF Steady
<1>3. n # Primary => Fresh(n, x, seen'[n][Primary], cut)
  BY <1>1, Constants DEF Fresh
<1>4. QED
  BY <1>1, <1>2, <1>3, AgentMoves

(* What an observing agent hears and records while nothing else fails.     *)
LEMMA ObservesPrimary ==
  ASSUME IInv, SteadyState, NEW n \in Node, NEW heard, Observing(n, heard), UNCHANGED faults
  PROVE  /\ heard = Hearable(n) /\ LooksPrimary(Primary)
         /\ n # Primary /\ {n, Primary} \notin cut => Primary \in heard
         /\ n # Primary /\ Primary \in heard => seen'[n][Primary] = 0
         /\ \A m \in Node \ {n} : seen'[m] = seen[m]
<1>0. Primary \in Node /\ faults \in Nat
  BY ClusterAssumption, Constants DEF IInv, TypeOK
<1>1. ASSUME NEW kind, Fault(kind)
      PROVE  FALSE
  BY <1>0, <1>1 DEF Fault
<1>2. heard = Hearable(n)
  BY <1>1 DEF Observing, Heard
<1>3. LooksPrimary(Primary)
  BY <1>0 DEF SteadyState, LeaseKept, LooksPrimary, Answers
<1>4. Up(Primary)
  BY <1>0 DEF SteadyState, AgentsSteady, Steady, Up
<1>5. n # Primary /\ {n, Primary} \notin cut => Primary \in heard
  BY <1>0, <1>2, <1>4 DEF Hearable, Peers, Linked
<1>6. /\ DOMAIN seen = Node
      /\ seen' = [seen EXCEPT ![n] = [p \in Peers(n) |-> IF p \in heard /\ LooksPrimary(p)
                                                         THEN 0 ELSE seen[n][p]]]
  BY DEF IInv, TypeOK, Observing, RecordPrimaries
<1>7. n # Primary /\ Primary \in heard => seen'[n][Primary] = 0
  BY <1>0, <1>3, <1>6 DEF Peers
<1>8. \A m \in Node \ {n} : seen'[m] = seen[m]
  BY <1>6
<1>9. QED
  BY <1>2, <1>3, <1>5, <1>7, <1>8

LEMMA TickSteady ==
  ASSUME IInv, OnlyALink, SteadyState, Cardinality(Node) >= 3,
         UNCHANGED <<faults, cut>>, NEW n \in Node, Loop(n)
  PROVE  AgentsSteady' /\ UNCHANGED <<store, late>>
<1>0. Primary \in Node /\ faults \in Nat /\ Primary # NoNode
  BY ClusterAssumption, Constants, NoNodeAssumption DEF IInv, TypeOK
<1>1. /\ agent[n].at \in {"sleep", "observe", "apply"}
      /\ agent[n].at = "observe" => /\ agent[n].view.known /\ ~agent[n].view.paused
                                    /\ agent[n].view.lease.holder = Primary
      /\ agent[n].at = "apply" =>
           agent[n].dec.kind = IF n = Primary THEN "RetainedLease" ELSE "Following"
  BY DEF SteadyState, AgentsSteady, Steady
<1>2. /\ pg[n].running /\ ~pg[n].deaf
      /\ pg[n].shape = IF n = Primary THEN "primary" ELSE "standby"
  BY DEF SteadyState, LeaseKept
<1>3. CASE TickRead(n)
  <2>1. PICK view \in {NoView, [known |-> TRUE, lease |-> store.lease,
                                paused |-> store.paused]} :
          /\ agent' = [agent EXCEPT ![n].at = "observe", ![n].view = view]
          /\ view.known
    <3>1. ASSUME NEW kind, Fault(kind)
          PROVE  FALSE
      BY <1>0, <3>1 DEF Fault
    <3>2. StoreReachable(n)
      BY EverybodyReadsTheStore
    <3>3. PICK view \in {NoView, [known |-> TRUE, lease |-> store.lease,
                                  paused |-> store.paused]} :
            /\ agent' = [agent EXCEPT ![n].at = "observe", ![n].view = view]
            /\ view.known = StoreReachable(n)
      BY <1>3, <3>1 DEF TickRead
    <3>4. QED
      BY <3>2, <3>3
  <2>2. view.lease = store.lease /\ view.paused = store.paused /\ view.known
    BY <2>1 DEF NoView
  <2> DEFINE x == [agent[n] EXCEPT !.at = "observe", !.view = view]
  <2>3. agent' = [agent EXCEPT ![n] = x]
    BY <2>1, AgentFacts
  <2>4. x.at = "observe" /\ x.view = view
    BY AgentFacts DEF Agent
  <2> HIDE DEF x
  <2>5. Steady(n, x)
    BY <2>2, <2>4 DEF Steady, SteadyState, LeaseKept
  <2>6. seen' = seen /\ UNCHANGED <<store, late>>
    BY <1>3 DEF TickRead
  <2>7. n # Primary => Fresh(n, x, seen'[n][Primary], cut)
    BY <2>4, <2>6 DEF Fresh, SteadyState, AgentsSteady
  <2>8. QED
    BY <2>3, <2>5, <2>6, <2>7, AgentMoves
<1>4. CASE TickHolder(n)
  <2>1. PICK heard : Observing(n, heard) /\ Act(n, "RetainedLease", agent[n].view.lease)
                     /\ n = Primary
    BY <1>1, <1>2, <1>4 DEF TickHolder, Observing, Answers
  <2>2. \A m \in Node \ {n} : seen'[m] = seen[m]
    BY <2>1, ObservesPrimary
  <2>3. QED
    BY <2>1, <2>2, ActsSteady DEF Observing
<1>5. CASE TickFollower(n)
  <2>1. PICK heard : /\ Observing(n, heard) /\ Act(n, "Following", agent[n].view.lease)
                     /\ Primary \in heard /\ n # Primary
    BY <1>1, <1>5 DEF TickFollower, Observing, Peers
  <2>2. seen'[n][Primary] = 0 /\ \A m \in Node \ {n} : seen'[m] = seen[m]
    BY <2>1, ObservesPrimary
  <2>3. QED
    BY <2>1, <2>2, ActsSteady DEF Observing
<1>6. CASE TickWatch(n) \/ TickDepose(n)
  <2>1. PICK heard : /\ Observing(n, heard) /\ HolderLooksDead(n, heard)
                     /\ \/ Sleep(n)
                        \/ Candidacy(n, agent[n].view.lease, heard,
                                     Watched(n, agent[n].view.lease.holder))
    BY <1>6 DEF TickWatch, TickDepose
  <2>2. agent[n].at = "observe" /\ agent[n].view.lease.holder = Primary
    BY <1>1, <2>1 DEF Observing
  <2>3. /\ heard = Hearable(n) /\ LooksPrimary(Primary)
        /\ n # Primary /\ {n, Primary} \notin cut => Primary \in heard
        /\ \A m \in Node \ {n} : seen'[m] = seen[m]
    BY <2>1, ObservesPrimary
  <2>4. n # Primary /\ Primary \notin heard
    BY <2>1, <2>2, <2>3 DEF HolderLooksDead, Peers
  <2>5. {n, Primary} \in cut
    BY <2>3, <2>4
  <2>6. Witnessed(n, Primary, heard)
    BY <2>3, <2>4, <2>5, SecondOpinion
  <2>7. agent[n].view.lease # Vacant
    BY <1>0, <2>2, Leases
  <2>8. Barred(n, agent[n].view.lease, heard)
    BY <2>2, <2>6, <2>7 DEF Barred
  <2>9. Sleep(n)
    BY <2>1, <2>8 DEF Candidacy
  <2>10. QED
    BY <2>1, <2>3, <2>5, <2>9, SleepsSteady DEF Observing
<1>7. ~TickStoreUnknown(n) /\ ~TickPaused(n)
  BY <1>1 DEF TickStoreUnknown, TickPaused, Observing
<1>8. ~TickVacant(n)
  BY <1>0, <1>1, Leases DEF TickVacant, Observing
<1>9. ~TakeoverWon(n) /\ ~TakeoverLost(n) /\ ~TakeoverFails(n) /\ ~ReleaseLease(n)
  BY <1>1 DEF TakeoverWon, TakeoverLost, TakeoverFails, ReleaseLease
<1>10. QED
  BY <1>3, <1>4, <1>5, <1>6, <1>7, <1>8, <1>9 DEF Loop, Tick

(* The executor and the database leave every instance in its role.         *)
RolesKept ==
  \A m \in Node : /\ pg'[m].running = pg[m].running /\ pg'[m].deaf = pg[m].deaf
                  /\ pg'[m].promoting = pg[m].promoting /\ pg'[m].shape = pg[m].shape

LEMMA EditKeepsRole ==
  ASSUME IInv, NEW n \in Node, NEW x, pg' = [pg EXCEPT ![n] = x],
         x.running = pg[n].running, x.deaf = pg[n].deaf,
         x.promoting = pg[n].promoting, x.shape = pg[n].shape
  PROVE  RolesKept
<1>1. pg \in [Node -> Instance]
  BY DEF IInv, TypeOK
<1>2. pg'[n] = x /\ \A m \in Node : m # n => pg'[m] = pg[m]
  BY <1>1
<1>3. QED
  BY <1>2 DEF RolesKept

LEMMA ExecutorSteady ==
  ASSUME IInv, SteadyState, UNCHANGED <<faults, cut>>, NEW n \in Node, Apply(n)
  PROVE  RolesKept /\ AgentsSteady'
<1>0. pg \in [Node -> Instance] /\ pg[n] \in Instance
  BY InstanceFacts
<1>1. /\ agent[n].at \in {"sleep", "observe", "apply"}
      /\ agent[n].at = "apply" =>
           agent[n].dec.kind = IF n = Primary THEN "RetainedLease" ELSE "Following"
  BY DEF SteadyState, AgentsSteady, Steady
<1>2. /\ pg[n].running /\ ~pg[n].deaf
      /\ pg[n].shape = IF n = Primary THEN "primary" ELSE "standby"
  BY DEF SteadyState, LeaseKept
<1>3. ApplyRetain(n) \/ FollowConfirmed(n) \/ Follow(n)
  <2>1. ~PromotionSeen(n) /\ ~PromotionTimesOut(n)
    BY <1>1 DEF PromotionSeen, PromotionTimesOut
  <2>2. ~ApplyPromote(n) /\ ~ApplyDemote(n) /\ ~ApplyDetach(n)
    BY <1>1 DEF ApplyPromote, ApplyDemote, ApplyDetach, Applying
  <2>3. ~FollowAsPrimary(n) /\ ~FollowNothing(n)
    BY <1>1, <1>2 DEF FollowAsPrimary, FollowNothing, Applying, Answers
  <2>4. QED
    BY <2>1, <2>2, <2>3 DEF Apply
<1>4. agent[n].at = "apply" /\ Sleep(n) /\ seen' = seen
  BY <1>3 DEF ApplyRetain, FollowConfirmed, Follow, Applying
<1>5. n # Primary /\ {n, Primary} \notin cut => seen'[n][Primary] = 0
  BY <1>4 DEF SteadyState, AgentsSteady, Fresh
<1>6. AgentsSteady'
  BY <1>4, <1>5, SleepsSteady
<1>7. ASSUME UNCHANGED pg
      PROVE  RolesKept
  BY <1>7 DEF RolesKept
<1>8. ASSUME NEW q, NEW b, pg' = [pg EXCEPT ![n].sync = q, ![n].armed = b]
      PROVE  RolesKept
  <2> DEFINE x == [pg[n] EXCEPT !.sync = q, !.armed = b]
  <2>1. pg' = [pg EXCEPT ![n] = x]
    BY <1>0, <1>8
  <2>2. /\ x.running = pg[n].running /\ x.deaf = pg[n].deaf
        /\ x.promoting = pg[n].promoting /\ x.shape = pg[n].shape
    BY <1>0 DEF Instance
  <2> HIDE DEF x
  <2>3. QED
    BY <2>1, <2>2, EditKeepsRole
<1>9. ASSUME NEW u, pg' = [pg EXCEPT ![n].upstream = u]
      PROVE  RolesKept
  <2> DEFINE x == [pg[n] EXCEPT !.upstream = u]
  <2>1. pg' = [pg EXCEPT ![n] = x]
    BY <1>0, <1>9
  <2>2. /\ x.running = pg[n].running /\ x.deaf = pg[n].deaf
        /\ x.promoting = pg[n].promoting /\ x.shape = pg[n].shape
    BY <1>0 DEF Instance
  <2> HIDE DEF x
  <2>3. QED
    BY <2>1, <2>2, EditKeepsRole
<1>10. CASE ApplyRetain(n)
  <2>1. \/ UNCHANGED pg
        \/ pg' = [pg EXCEPT ![n].sync = QuorumCommit(n),
                            ![n].armed = pg[n].armed \/ Attached(n) # {}]
    BY <1>0, <1>10 DEF ApplyRetain, EnsureQuorumCommit
  <2>2. RolesKept
    BY <1>7, <1>8, <2>1
  <2>3. QED
    BY <1>6, <2>2
<1>11. CASE FollowConfirmed(n)
  BY <1>6, <1>7, <1>11 DEF FollowConfirmed, pgvars
<1>12. CASE Follow(n)
  <2>1. UNCHANGED pg \/ pg' = [pg EXCEPT ![n].upstream = agent[n].dec.lease.holder]
    BY <1>12 DEF Follow
  <2>2. RolesKept
    BY <1>7, <1>9, <2>1
  <2>3. QED
    BY <1>6, <2>2
<1>13. QED
  BY <1>3, <1>10, <1>11, <1>12

LEMMA DatabaseSteady ==
  ASSUME IInv, SteadyState, NEW n \in Node, Database(n)
  PROVE  RolesKept
<1>0. pg \in [Node -> Instance] /\ pg[n] \in Instance
  BY InstanceFacts
<1>1. ASSUME NEW w, NEW t, pg' = [pg EXCEPT ![n].wal = w, ![n].tl = t]
      PROVE  RolesKept
  <2> DEFINE x == [pg[n] EXCEPT !.wal = w, !.tl = t]
  <2>1. pg' = [pg EXCEPT ![n] = x]
    BY <1>0, <1>1
  <2>2. /\ x.running = pg[n].running /\ x.deaf = pg[n].deaf
        /\ x.promoting = pg[n].promoting /\ x.shape = pg[n].shape
    BY <1>0 DEF Instance
  <2> HIDE DEF x
  <2>3. QED
    BY <2>1, <2>2, EditKeepsRole
<1>2. CASE Write(n)
  <2>1. PICK w : pg' = [pg EXCEPT ![n].wal = w]
    BY <1>0, <1>2 DEF Write
  <2>2. pg' = [pg EXCEPT ![n].wal = w, ![n].tl = pg[n].tl]
    BY <1>0, <2>1 DEF Instance
  <2>3. QED
    BY <1>1, <2>2
<1>3. CASE Replicate(n)
  <2>1. \/ \E w, t : pg' = [pg EXCEPT ![n].wal = w, ![n].tl = t]
        \/ \E t : pg' = [pg EXCEPT ![n].tl = t]
    BY <1>0, <1>3 DEF Replicate
  <2>2. ASSUME NEW t, pg' = [pg EXCEPT ![n].tl = t]
        PROVE  RolesKept
    <3>1. pg' = [pg EXCEPT ![n].wal = pg[n].wal, ![n].tl = t]
      BY <1>0, <2>2 DEF Instance
    <3>2. QED
      BY <1>1, <3>1
  <2>3. QED
    BY <1>1, <2>1, <2>2
<1>4. ~PromotionEnds(n)
  BY DEF PromotionEnds, SteadyState, LeaseKept
<1>5. CASE Acknowledge(n)
  BY <1>5 DEF Acknowledge, RolesKept
<1>6. QED
  BY <1>2, <1>3, <1>4, <1>5 DEF Database

(* No other fault or repair, and no start-up, is part of such a behaviour. *)
LEMMA NoOtherFault ==
  ASSUME IInv, SteadyState, UNCHANGED faults, NEW n \in Node
  PROVE  ~Faults(n) /\ ~Startup(n) /\ ~SetPaused /\ \A cmd \in late : ~CommitLate(cmd)
<1>0. faults \in Nat
  BY Constants DEF IInv, TypeOK
<1>1. ASSUME NEW kind, Fault(kind)
      PROVE  FALSE
  BY <1>0, <1>1 DEF Fault
<1>2. agent[n].at \in {"sleep", "observe", "apply"} /\ pg[n].running /\ ~pg[n].deaf
  BY DEF SteadyState, AgentsSteady, Steady, LeaseKept
<1>3. ~Faults(n)
  BY <1>1, <1>2
  DEF Faults, AgentStart, AgentCrash, HostCrash, PgCrash, PgDeaf, Rejoin, Up
<1>4. ~Startup(n)
  BY <1>2 DEF Startup, StartVerify, ColdStart, StartPostgres
<1>5. ~SetPaused
  BY <1>1 DEF SetPaused, SteadyState, LeaseKept
<1>6. late = {}
  BY DEF SteadyState, LeaseKept
<1>7. QED
  BY <1>3, <1>4, <1>5, <1>6

(* Time passes only when everybody sleeps.                                 *)
LEMMA ElapseSteady ==
  ASSUME IInv, SteadyState, Prompt, Elapse
  PROVE  AgentsSteady'
<1> SUFFICES ASSUME NEW n \in Node
             PROVE  /\ Steady(n, agent'[n])
                    /\ n # Primary => Fresh(n, agent'[n], seen'[n][Primary], cut')
  BY DEF AgentsSteady
<1>1. ~Due(n)
  BY DEF Elapse
<1>2. /\ agent[n].at \in {"sleep", "observe", "apply"}
      /\ agent[n].wait \in 0 .. LoopWait /\ agent[n] \in Agent
  BY AgentFacts DEF SteadyState, AgentsSteady, Steady
<1>3. agent[n].at = "sleep" /\ agent[n].wait > 0
  BY <1>1, <1>2, Constants DEF Due
<1>4. agent'[n].at = "sleep" /\ agent'[n].wait = agent[n].wait - 1
  <2>1. agent'[n] =
          [agent[n] EXCEPT !.wait = IF agent[n].at = "sleep" /\ @ > 0 THEN @ - 1 ELSE @,
                           !.age = IF agent[n].at \in {"promote", "verify", "cold"}
                                   THEN Older(@) ELSE @]
    BY DEF Elapse
  <2>2. agent'[n].at = "sleep"
    BY <1>2, <1>3, <2>1 DEF Agent
  <2>3. agent'[n].wait = IF agent[n].at = "sleep" /\ agent[n].wait > 0
                         THEN agent[n].wait - 1 ELSE agent[n].wait
    BY <1>2, <2>1 DEF Agent
  <2>4. QED
    BY <1>3, <2>2, <2>3
<1>5. Steady(n, agent'[n])
  BY <1>4 DEF Steady
<1>6. ASSUME n # Primary, {n, Primary} \notin cut
      PROVE  Fresh(n, agent'[n], seen'[n][Primary], cut')
  <2>1. Primary \in Peers(n) /\ seen[n] \in [Peers(n) -> 0 .. MaxAge]
    BY <1>6, ClusterAssumption DEF Peers, IInv, TypeOK
  <2>2. seen'[n][Primary] = Older(seen[n][Primary]) /\ seen[n][Primary] \in 0 .. MaxAge
    BY <2>1 DEF Elapse
  <2>3. seen'[n][Primary] \in Nat /\ seen'[n][Primary] <= seen[n][Primary] + 1
    <3>1. MaxAge \in Nat
      BY Constants
    <3> HIDE DEF MaxAge
    <3>2. QED
      BY <2>2, <3>1 DEF Older, NoClock
  <2>4. seen[n][Primary] + agent[n].wait <= LoopWait
    BY <1>3, <1>6 DEF SteadyState, AgentsSteady, Fresh
  <2>5. seen'[n][Primary] + (agent[n].wait - 1) <= LoopWait
    <3>1. seen[n][Primary] \in Nat /\ agent[n].wait \in Nat /\ LoopWait \in Nat
      BY <1>2, <2>2, Constants
    <3>2. QED
      BY <2>3, <2>4, <3>1
  <2>6. seen'[n][Primary] <= LoopWait
    <3>1. agent[n].wait \in Nat /\ LoopWait \in Nat
      BY <1>2, Constants
    <3>2. QED
      BY <1>3, <2>3, <2>5, <3>1
  <2>7. QED
    BY <1>4, <2>5, <2>6 DEF Fresh
<1>7. cut' = cut
  BY DEF Elapse, pgvars
<1>8. QED
  BY <1>5, <1>6, <1>7 DEF Fresh

LEMMA BlindStep ==
  ASSUME BlindInv, [Next]_vars, Prompt, Cardinality(Node) >= 3
  PROVE  BlindInv'
<1>1. IInv /\ IInv'
  BY StepIInv DEF BlindInv
<1>2. cut' # {} => faults' < MaxFaults
  BY LinkStep
<1>3. ASSUME OnlyALink'
      PROVE  SteadyState'
  <2>1. /\ OnlyALink /\ SteadyState /\ ~Heal
        /\ UNCHANGED <<faults, cut>> \/ (Partition /\ cut = {})
    BY <1>3, LinkStep DEF BlindInv
  <2>2. ASSUME RolesKept, UNCHANGED <<store, late>>
        PROVE  LeaseKept'
    BY <2>1, <2>2 DEF RolesKept, SteadyState, LeaseKept
  <2>3. ASSUME UNCHANGED pg
        PROVE  RolesKept
    BY <2>3 DEF RolesKept
  <2>4. CASE Partition /\ cut = {}
    <3>1. UNCHANGED <<store, late, agent, seen, pg>>
      BY <2>4 DEF Partition
    <3>2. AgentsSteady'
      BY <2>1, <2>4, <3>1 DEF SteadyState, AgentsSteady, Fresh
    <3>3. QED
      BY <2>2, <2>3, <3>1, <3>2 DEF SteadyState
  <2>5. ASSUME UNCHANGED <<faults, cut>>, NEW n \in Node,
               Loop(n) \/ Apply(n) \/ Startup(n) \/ Database(n) \/ Faults(n)
        PROVE  SteadyState'
    <3>1. CASE Loop(n)
      <4>1. AgentsSteady' /\ UNCHANGED <<store, late>> /\ UNCHANGED pg
        BY <1>1, <2>1, <2>5, <3>1, TickSteady, LoopFrame
      <4>2. QED
        BY <2>2, <2>3, <4>1 DEF SteadyState
    <3>2. CASE Apply(n)
      BY <1>1, <2>1, <2>2, <2>5, <3>2, ExecutorSteady, ExecutorFrame DEF SteadyState
    <3>3. CASE Database(n)
      <4>1. RolesKept /\ UNCHANGED <<store, late, agent, seen, cut>>
        BY <1>1, <2>1, <3>3, DatabaseSteady, DatabaseFrame
      <4>2. AgentsSteady'
        BY <2>1, <4>1 DEF SteadyState, AgentsSteady
      <4>3. QED
        BY <2>2, <4>1, <4>2 DEF SteadyState
    <3>4. ~Startup(n) /\ ~Faults(n)
      BY <1>1, <2>1, <2>5, NoOtherFault
    <3>5. QED
      BY <2>5, <3>1, <3>2, <3>3, <3>4
  <2>6. CASE UNCHANGED <<faults, cut>> /\ Elapse
    <3>1. UNCHANGED <<store, late, pg>>
      BY <2>6 DEF Elapse, pgvars
    <3>2. QED
      BY <1>1, <2>1, <2>2, <2>3, <2>6, <3>1, ElapseSteady DEF SteadyState
  <2>7. CASE UNCHANGED vars
    <3>1. UNCHANGED <<store, late, agent, seen, pg, cut>>
      BY <2>7 DEF vars, havars, pgvars
    <3>2. AgentsSteady'
      BY <2>1, <3>1 DEF SteadyState, AgentsSteady
    <3>3. QED
      BY <2>2, <2>3, <3>1, <3>2 DEF SteadyState
  <2>8. UNCHANGED <<faults, cut>> => ~SetPaused /\ \A cmd \in late : ~CommitLate(cmd)
    BY <1>1, <2>1, NoOtherFault, ClusterAssumption
  <2>9. UNCHANGED <<faults, cut>> => ~Partition
    BY DEF Partition
  <2>10. QED
    BY <2>1, <2>4, <2>5, <2>6, <2>7, <2>8, <2>9 DEF Next
<1>4. QED
  BY <1>1, <1>2, <1>3 DEF BlindInv

LEMMA BlindInit == Init => BlindInv
<1> SUFFICES ASSUME Init PROVE BlindInv
  OBVIOUS
<1>0. Primary \in Node
  BY ClusterAssumption
<1>1. IInv
  BY InitIInv
<1>2. cut = {} /\ late = {}
  BY DEF Init
<1>3. store.lease.holder = Primary /\ ~store.paused
  BY DEF Init, ApplyTakeover, TakeoverWins, EmptyState
<1>4. ASSUME NEW n \in Node
      PROVE  /\ pg[n].running /\ ~pg[n].deaf /\ ~pg[n].promoting
             /\ pg[n].shape = IF n = Primary THEN "primary" ELSE "standby"
  BY DEF Init
<1>5. LeaseKept
  BY <1>2, <1>3, <1>4 DEF LeaseKept
<1>6. ASSUME NEW n \in Node
      PROVE  agent[n].at = "sleep" /\ agent[n].wait = LoopWait
  BY DEF Init, Awake
<1>7. ASSUME NEW n \in Node, n # Primary
      PROVE  seen[n][Primary] = 0
  BY <1>0, <1>7 DEF Init, Peers
<1>8. AgentsSteady
  <2>1. \A n \in Node : Steady(n, agent[n])
    BY <1>6 DEF Steady
  <2>2. ASSUME NEW n \in Node, n # Primary
        PROVE  Fresh(n, agent[n], seen[n][Primary], cut)
    BY <1>6, <1>7, <2>2, Constants DEF Fresh
  <2>3. QED
    BY <2>1, <2>2 DEF AgentsSteady
<1>9. QED
  BY <1>1, <1>2, <1>5, <1>8 DEF BlindInv, SteadyState

LEMMA BlindHarmless == BlindInv => BlindLinkHarmless
<1> SUFFICES ASSUME BlindInv, Cardinality(cut) = 1, MaxFaults = faults + 1
             PROVE  store.lease.holder = Primary /\ RunsAsPrimary(Primary)
  BY DEF BlindLinkHarmless
<1>0. Primary \in Node
  BY ClusterAssumption
<1>1. cut \subseteq Pairs
  BY DEF BlindInv, IInv, TypeOK
<1>2. IsFiniteSet(cut)
  <2>1. IsFiniteSet(SUBSET Node)
    BY ClusterAssumption, FS_SUBSET
  <2>2. cut \in SUBSET (SUBSET Node)
    BY <1>1 DEF Pairs
  <2>3. QED
    BY <2>1, <2>2, FS_Subset
<1>3. PICK pair : cut = {pair}
  BY <1>2, FS_Singleton
<1>4. OnlyALink
  BY <1>1, <1>3 DEF OnlyALink
<1>5. QED
  BY <1>0, <1>4 DEF BlindInv, SteadyState, LeaseKept, RunsAsPrimary

(* The second opinion (finding 25, consider_candidacy): in every pool of   *)
(* three or more whose steps happen when they are due, as long as all that *)
(* went wrong is one broken link, wherever it is, the lease stays with the *)
(* primary and the primary serves.  Some third member is linked to both    *)
(* ends and saw the primary within a loop_wait, which RaftConfig::validate *)
(* keeps below the ttl, and the store has its majority.                    *)
THEOREM BlindLinkIsHarmless ==
  ASSUME Prompt, Cardinality(Node) >= 3
  PROVE  Spec => []BlindLinkHarmless
<1>1. Init => BlindInv
  BY BlindInit
<1>2. BlindInv /\ [Next]_vars => BlindInv'
  BY BlindStep
<1>3. BlindInv => BlindLinkHarmless
  BY BlindHarmless
<1>4. QED
  BY <1>1, <1>2, <1>3, PTL DEF Spec
=============================================================================
