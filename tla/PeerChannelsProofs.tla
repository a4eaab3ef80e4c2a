------------------------- MODULE PeerChannelsProofs -------------------------
(***************************************************************************)
(* Proofs about PeerChannels, for any number of peers, any budget and any  *)
(* number of faults and rotations: a reachable peer goes unheard only      *)
(* behind a dial.                                                          *)
(***************************************************************************)
EXTENDS PeerChannels, FiniteSetTheorems, SequenceTheorems, TLAPS

Stages == {"idle", "wait", "dial", "rpc"}
Task == [stage : Stages, to : Caller, kind : {"unary", "stream"},
         timer : 0 .. DialTimeout]
Entry == [conn : Conn, leaf : 0 .. MaxRotations, poisoned : BOOLEAN, aged : BOOLEAN]
Files == [cert : 0 .. MaxRotations, key : 0 .. MaxRotations]

(* The parts of the state that TypeOK leaves out.                          *)
TypeInv ==
  /\ TypeOK
  /\ caller \in [Caller -> Task]
  /\ disk \in Files /\ bundle \in Files
  /\ round \in [on : BOOLEAN, elapsed : 0 .. Budget, lit : SUBSET Peer]

(* Who waits for the mutex is queued for it, once, and nobody else is.     *)
QueueInv ==
  /\ queue \in Seq(Caller)
  /\ \A i, j \in 1 .. Len(queue) : queue[i] = queue[j] => i = j
  /\ \A c \in Caller :
       caller[c].stage = "wait" <=> \E i \in 1 .. Len(queue) : queue[i] = c

(* A task calls its own peer, a handler some peer; outside a round there   *)
(* are no tasks.                                                           *)
TaskInv ==
  /\ \A p \in Peer : caller[p].stage # "idle" => caller[p].to = p
  /\ caller[Op].stage # "idle" => caller[Op].to \in Peer
  /\ ~round.on => \A p \in Peer : caller[p].stage = "idle"

(* A peer without a fault in this round still has none, and its task       *)
(* returns only when it was heard.                                         *)
LitInv ==
  \A p \in round.lit :
    /\ Reachable(p)
    /\ caller[p].stage = "rpc" => pool[p].conn = "live"
    /\ round.on /\ caller[p].stage = "idle" => p \in heard
    /\ round.on /\ round.elapsed > 0 => p \in heard \cup behind

ChannelInv == TypeInv /\ QueueInv /\ TaskInv /\ LitInv

-----------------------------------------------------------------------------
LEMMA Names ==
  /\ Op \notin Peer /\ "free" \notin Caller
  /\ Target \subseteq Peer /\ IsFiniteSet(Peer)
  /\ Budget \in Nat /\ Budget > 0 /\ DialTimeout \in Nat /\ MaxRotations \in Nat
BY ChannelAssumption DEF Op, Caller

LEMMA Facts ==
  ASSUME ChannelInv
  PROVE  /\ link \in [Peer -> {"up", "hole"}] /\ pool \in [Peer -> Entry]
         /\ cons \in [Target -> Conn] /\ lock \in Caller \cup {"free"}
         /\ \A c \in Caller : caller[c].stage = "dial" <=> lock = c
         /\ heard \subseteq Peer /\ behind \subseteq Peer /\ round.lit \subseteq Peer
         /\ caller \in [Caller -> Task] /\ disk \in Files /\ bundle \in Files
         /\ round \in [on : BOOLEAN, elapsed : 0 .. Budget, lit : SUBSET Peer]
         /\ round.on \in BOOLEAN /\ round.elapsed \in 0 .. Budget
         /\ round.elapsed \in Nat
         /\ \A p \in Peer : p \in Caller
BY Names DEF ChannelInv, TypeInv, TypeOK, Entry, Caller

LEMMA TypeParts ==
  ASSUME link' \in [Peer -> {"up", "hole"}], pool' \in [Peer -> Entry],
         cons' \in [Target -> Conn], lock' \in Caller \cup {"free"},
         \A c \in Caller : caller'[c].stage = "dial" <=> lock' = c,
         heard' \subseteq Peer, behind' \subseteq Peer,
         caller' \in [Caller -> Task], disk' \in Files, bundle' \in Files,
         round' \in [on : BOOLEAN, elapsed : 0 .. Budget, lit : SUBSET Peer]
  PROVE  TypeInv'
BY DEF TypeInv, TypeOK, Entry

(* The initial tasks, entries and rounds.                                  *)
LEMMA Fresh ==
  /\ Idle \in Task /\ Idle.stage = "idle"
  /\ NoEntry \in Entry /\ NoEntry.conn = "none"
  /\ NoRound \in [on : BOOLEAN, elapsed : 0 .. Budget, lit : SUBSET Peer]
  /\ ~NoRound.on /\ NoRound.lit = {}
  /\ \A b \in Files : [NoEntry EXCEPT !.conn = "live", !.leaf = b.cert] \in Entry
  /\ \A p \in Peer, kind \in {"unary", "stream"} :
       LET t == [Idle EXCEPT !.stage = "wait", !.to = p, !.kind = kind]
       IN  t \in Task /\ t.stage = "wait" /\ t.to = p
  /\ \A p \in Peer :
       LET t == [Idle EXCEPT !.stage = "wait", !.to = p]
       IN  t \in Task /\ t.stage = "wait" /\ t.to = p
<1>1. Idle \in Task /\ Idle.stage = "idle"
  BY Names DEF Idle, Task, Stages, Caller
<1>2. NoEntry \in Entry /\ NoEntry.conn = "none"
  BY Names DEF NoEntry, Entry, Conn
<1>3. /\ NoRound \in [on : BOOLEAN, elapsed : 0 .. Budget, lit : SUBSET Peer]
      /\ ~NoRound.on /\ NoRound.lit = {}
  BY Names DEF NoRound
<1>4. \A b \in Files : [NoEntry EXCEPT !.conn = "live", !.leaf = b.cert] \in Entry
  BY <1>2 DEF Entry, Conn, Files
<1>5. \A p \in Peer, kind \in {"unary", "stream"} :
        LET t == [Idle EXCEPT !.stage = "wait", !.to = p, !.kind = kind]
        IN  t \in Task /\ t.stage = "wait" /\ t.to = p
  BY <1>1 DEF Task, Stages, Caller
<1>6. \A p \in Peer :
        LET t == [Idle EXCEPT !.stage = "wait", !.to = p]
        IN  t \in Task /\ t.stage = "wait" /\ t.to = p
  BY <1>1 DEF Task, Stages, Caller
<1>7. QED
  BY <1>1, <1>2, <1>3, <1>4, <1>5, <1>6

(* One caller moves.                                                       *)
LEMMA OneCaller ==
  ASSUME ChannelInv, NEW c \in Caller, NEW x \in Task,
         caller' = [caller EXCEPT ![c] = x]
  PROVE  /\ caller' \in [Caller -> Task] /\ caller'[c] = x
         /\ \A d \in Caller : d # c => caller'[d] = caller[d]
BY Facts

LEMMA Staged ==
  ASSUME ChannelInv, NEW c \in Caller, NEW at \in Stages,
         caller' = [caller EXCEPT ![c].stage = at]
  PROVE  /\ caller' \in [Caller -> Task] /\ caller'[c].stage = at
         /\ caller'[c].to = caller[c].to
         /\ \A d \in Caller : d # c => caller'[d] = caller[d]
<1> DEFINE x == [caller[c] EXCEPT !.stage = at]
<1>1. caller \in [Caller -> Task] /\ caller[c] \in Task
  BY Facts
<1>2. caller' = [caller EXCEPT ![c] = x]
  BY <1>1
<1>3. x \in Task /\ x.stage = at /\ x.to = caller[c].to
  BY <1>1 DEF Task
<1> HIDE DEF x
<1>4. QED
  BY <1>2, <1>3, OneCaller

-----------------------------------------------------------------------------
(* The queue of the mutex.                                                 *)
InQueue(c) == \E i \in 1 .. Len(queue) : queue[i] = c

LEMMA QueueFacts ==
  ASSUME ChannelInv
  PROVE  /\ queue \in Seq(Caller) /\ Len(queue) \in Nat
         /\ \A i, j \in 1 .. Len(queue) : queue[i] = queue[j] => i = j
         /\ \A c \in Caller : caller[c].stage = "wait" <=> InQueue(c)
         /\ \A c : c \in ToSet(queue) <=> InQueue(c)
<1>1. /\ queue \in Seq(Caller)
      /\ \A i, j \in 1 .. Len(queue) : queue[i] = queue[j] => i = j
      /\ \A c \in Caller : caller[c].stage = "wait" <=> InQueue(c)
  BY DEF ChannelInv, QueueInv, InQueue
<1>2. Len(queue) \in Nat /\ DOMAIN queue = 1 .. Len(queue)
  BY <1>1, LenProperties
<1>3. \A c : c \in ToSet(queue) <=> InQueue(c)
  BY <1>2 DEF ToSet, InQueue
<1>4. QED
  BY <1>1, <1>2, <1>3

(* The queue does not move, and nobody starts or stops waiting.            *)
LEMMA QueueStays ==
  ASSUME ChannelInv, UNCHANGED queue,
         \A c \in Caller : caller'[c].stage = "wait" <=> caller[c].stage = "wait"
  PROVE  QueueInv'
BY DEF ChannelInv, QueueInv

(* The first in the queue leaves it.                                       *)
LEMMA QueuePops ==
  ASSUME ChannelInv, queue # <<>>, NEW c \in Caller, Head(queue) = c,
         queue' = Tail(queue), caller'[c].stage # "wait",
         \A d \in Caller : d # c => caller'[d] = caller[d]
  PROVE  QueueInv'
<1>1. /\ queue \in Seq(Caller) /\ Len(queue) \in Nat
      /\ \A i, j \in 1 .. Len(queue) : queue[i] = queue[j] => i = j
      /\ \A d \in Caller :
           caller[d].stage = "wait" <=> \E i \in 1 .. Len(queue) : queue[i] = d
  BY QueueFacts DEF InQueue
<1>2. /\ queue' \in Seq(Caller) /\ Len(queue') = Len(queue) - 1
      /\ \A i \in 1 .. Len(queue') : queue'[i] = queue[i + 1]
      /\ Len(queue) > 0 /\ queue[1] = c
  BY <1>1, HeadTailProperties, EmptySeq
<1>3. \A i, j \in 1 .. Len(queue') : queue'[i] = queue'[j] => i = j
  <2> TAKE i, j \in 1 .. Len(queue')
  <2> HAVE queue'[i] = queue'[j]
  <2>1. /\ i + 1 \in 1 .. Len(queue) /\ j + 1 \in 1 .. Len(queue)
        /\ queue[i + 1] = queue[j + 1]
    BY <1>1, <1>2
  <2>2. i + 1 = j + 1
    BY <1>1, <2>1
  <2>3. QED
    BY <1>1, <1>2, <2>2
<1>4. ASSUME NEW d \in Caller
      PROVE  (\E i \in 1 .. Len(queue') : queue'[i] = d)
               <=> d # c /\ \E i \in 1 .. Len(queue) : queue[i] = d
  <2>1. ASSUME NEW i \in 1 .. Len(queue'), queue'[i] = d
        PROVE  d # c /\ \E j \in 1 .. Len(queue) : queue[j] = d
    <3>1. i + 1 \in 1 .. Len(queue) /\ queue[i + 1] = d /\ i + 1 # 1 /\ 1 \in 1 .. Len(queue)
      BY <1>1, <1>2, <2>1
    <3>2. QED
      BY <1>1, <1>2, <3>1
  <2>2. ASSUME d # c, NEW i \in 1 .. Len(queue), queue[i] = d
        PROVE  \E j \in 1 .. Len(queue') : queue'[j] = d
    <3>1. i # 1
      BY <1>2, <2>2
    <3>2. i - 1 \in 1 .. Len(queue') /\ (i - 1) + 1 = i
      BY <1>1, <1>2, <3>1
    <3>3. queue'[i - 1] = d
      BY <1>2, <2>2, <3>2
    <3>4. QED
      BY <3>2, <3>3
  <2>3. QED
    BY <2>1, <2>2
<1>5. QED
  BY <1>1, <1>2, <1>3, <1>4 DEF QueueInv

(* A caller joins the queue.                                               *)
LEMMA QueuePushes ==
  ASSUME ChannelInv, NEW c \in Caller, caller[c].stage # "wait",
         queue' = Append(queue, c), caller'[c].stage = "wait",
         \A d \in Caller : d # c => caller'[d] = caller[d]
  PROVE  QueueInv'
<1>1. /\ queue \in Seq(Caller) /\ Len(queue) \in Nat
      /\ \A i, j \in 1 .. Len(queue) : queue[i] = queue[j] => i = j
      /\ \A d \in Caller :
           caller[d].stage = "wait" <=> \E i \in 1 .. Len(queue) : queue[i] = d
  BY QueueFacts DEF InQueue
<1>2. /\ queue' \in Seq(Caller) /\ Len(queue') = Len(queue) + 1
      /\ \A i \in 1 .. Len(queue) : queue'[i] = queue[i]
      /\ queue'[Len(queue) + 1] = c
  BY <1>1, AppendProperties
<1>3. \A i \in 1 .. Len(queue) : queue[i] # c
  BY <1>1
<1>4. \A i, j \in 1 .. Len(queue') : queue'[i] = queue'[j] => i = j
  BY <1>1, <1>2, <1>3
<1>5. \A d \in Caller : (\E i \in 1 .. Len(queue') : queue'[i] = d)
                          <=> d = c \/ \E i \in 1 .. Len(queue) : queue[i] = d
  BY <1>1, <1>2
<1>6. QED
  BY <1>1, <1>2, <1>4, <1>5 DEF QueueInv

(* Every order in which the tasks of a fan-out come has each of them once. *)
LEMMA Orders ==
  ASSUME NEW order \in SetToSeqs(Peer)
  PROVE  /\ order \in Seq(Peer)
         /\ \A i, j \in 1 .. Len(order) : order[i] = order[j] => i = j
         /\ \A p \in Peer : \E i \in 1 .. Len(order) : order[i] = p
<1> DEFINE k == Cardinality(Peer)
           R == {order[i] : i \in 1 .. k}
<1>1. k \in Nat /\ IsFiniteSet(Peer)
  BY Names, FS_CardinalityType
<1>2. order \in [1 .. k -> Peer] /\ \A i, j \in 1 .. k : i # j => order[i] # order[j]
  BY DEF SetToSeqs
<1> HIDE DEF k
<1>3. order \in Seq(Peer) /\ Len(order) = k
  BY <1>1, <1>2
<1>4. R \in SUBSET Peer /\ order \in [1 .. k -> R]
  BY <1>2
<1>5. order \in Bijection(1 .. k, R)
  BY <1>2, <1>4 DEF Bijection, Injection, Surjection, IsInjective
<1> HIDE DEF R
<1>6. Cardinality(R) = k
  BY <1>1, <1>5, FS_CountingElements DEF ExistsBijection
<1>7. R = Peer
  BY <1>1, <1>4, <1>6, FS_Subset DEF k
<1>8. QED
  BY <1>2, <1>3, <1>7 DEF R

-----------------------------------------------------------------------------
(* The calls.                                                              *)
LEMMA FirstWaits ==
  ASSUME ChannelInv, NEW c \in Caller, Waiting(c)
  PROVE  /\ queue # <<>> /\ Head(queue) = c /\ lock = "free"
         /\ caller[c].stage = "wait" /\ caller[c].to \in Peer
         /\ c \in Peer => caller[c].to = c /\ round.on
<1>1. queue # <<>> /\ Head(queue) = c /\ lock = "free"
  BY DEF Waiting
<1>2. queue \in Seq(Caller) /\ 1 \in 1 .. Len(queue) /\ queue[1] = c
  BY <1>1, QueueFacts, EmptySeq, HeadTailProperties
<1>3. caller[c].stage = "wait"
  BY <1>2, QueueFacts DEF InQueue
<1>4. QED
  BY <1>1, <1>3, Names DEF ChannelInv, TaskInv, Caller

(* What a caller's move leaves to show: a task still calls its own peer,   *)
(* and one that returned, or got its channel, did so rightly.              *)
LEMMA CallerMoved ==
  ASSUME ChannelInv, NEW c \in Caller, UNCHANGED round,
         \A d \in Caller : d # c => caller'[d] = caller[d],
         caller[c].stage # "idle",
         caller'[c].stage # "idle" => caller'[c].to = caller[c].to
  PROVE  TaskInv'
<1>1. /\ \A p \in Peer : caller[p].stage # "idle" => caller[p].to = p
      /\ caller[Op].stage # "idle" => caller[Op].to \in Peer
      /\ ~round.on => \A p \in Peer : caller[p].stage = "idle"
      /\ \A p \in Peer : p \in Caller
      /\ Op \in Caller
  BY DEF ChannelInv, TaskInv, Caller
<1>2. \A d \in Caller : caller'[d].stage # "idle" =>
        caller[d].stage # "idle" /\ caller'[d].to = caller[d].to
  OBVIOUS
<1>3. QED
  BY <1>1, <1>2 DEF TaskInv

LEMMA LitFacts ==
  ASSUME ChannelInv, NEW p \in round.lit
  PROVE  /\ p \in Peer /\ p \in Caller /\ Handshakes(p)
         /\ link[p] = "up" /\ Paired(bundle)
         /\ Usable(pool[p]) => pool[p].conn = "live"
         /\ caller[p].stage = "rpc" => pool[p].conn = "live"
         /\ round.on /\ caller[p].stage = "idle" => p \in heard
         /\ round.on /\ round.elapsed > 0 => p \in heard \cup behind
         /\ caller[p].stage # "idle" => caller[p].to = p
BY Facts DEF ChannelInv, LitInv, TaskInv, Reachable, Handshakes, Accepts, Caller

LEMMA CacheHitKeeps ==
  ASSUME ChannelInv, NEW c \in Caller, CacheHit(c)
  PROVE  ChannelInv'
<1>1. /\ queue # <<>> /\ Head(queue) = c /\ lock = "free"
      /\ caller[c].stage = "wait" /\ caller[c].to \in Peer
      /\ c \in Peer => caller[c].to = c
      /\ Usable(pool[caller[c].to])
  BY FirstWaits DEF CacheHit
<1>2. /\ caller' \in [Caller -> Task] /\ caller'[c].stage = "rpc"
      /\ caller'[c].to = caller[c].to
      /\ \A d \in Caller : d # c => caller'[d] = caller[d]
  BY Staged DEF CacheHit, Stages
<1>3. UNCHANGED <<pool, lock, link, cons, disk, bundle, round, heard, behind>>
        /\ queue' = Tail(queue)
  BY DEF CacheHit, net, view
<1>4. TypeInv'
  BY <1>1, <1>2, <1>3, Facts, TypeParts, Names
<1>5. QueueInv'
  BY <1>1, <1>2, <1>3, QueuePops
<1>6. TaskInv'
  BY <1>1, <1>2, <1>3, CallerMoved
<1>7. LitInv'
  BY <1>1, <1>2, <1>3, LitFacts
  DEF LitInv, Reachable, Handshakes, Accepts
<1>8. QED
  BY <1>4, <1>5, <1>6, <1>7 DEF ChannelInv

LEMMA DialBeginsKeeps ==
  ASSUME ChannelInv, NEW c \in Caller, DialBegins(c)
  PROVE  ChannelInv'
<1>1. /\ queue # <<>> /\ Head(queue) = c /\ lock = "free"
      /\ caller[c].stage = "wait" /\ caller[c].to \in Peer
  BY FirstWaits DEF DialBegins
<1> DEFINE x == [caller[c] EXCEPT !.stage = "dial", !.timer = 0]
<1>2. caller \in [Caller -> Task] /\ caller[c] \in Task /\ 0 \in 0 .. DialTimeout
  BY Facts, Names
<1>3. x \in Task /\ x.stage = "dial" /\ x.to = caller[c].to
  BY <1>2 DEF Task, Stages
<1>4. caller' = [caller EXCEPT ![c] = x]
  BY <1>2 DEF DialBegins
<1> HIDE DEF x
<1>5. /\ caller' \in [Caller -> Task] /\ caller'[c].stage = "dial"
      /\ caller'[c].to = caller[c].to
      /\ \A d \in Caller : d # c => caller'[d] = caller[d]
  BY <1>3, <1>4, OneCaller
<1>6. UNCHANGED <<pool, link, cons, disk, bundle, round, heard, behind>>
        /\ queue' = Tail(queue) /\ lock' = c
  BY DEF DialBegins, net, view
<1>7. TypeInv'
  BY <1>1, <1>5, <1>6, Facts, TypeParts, Names
<1>8. QueueInv'
  BY <1>1, <1>5, <1>6, QueuePops
<1>9. TaskInv'
  BY <1>1, <1>5, <1>6, CallerMoved
<1>10. LitInv'
  BY <1>1, <1>5, <1>6, LitFacts
  DEF LitInv, Reachable, Handshakes, Accepts
<1>11. QED
  BY <1>7, <1>8, <1>9, <1>10 DEF ChannelInv

(* Who holds the mutex dials, and its own peer if it is a task.            *)
LEMMA HolderDials ==
  ASSUME ChannelInv, NEW c \in Caller, lock = c
  PROVE  /\ caller[c].stage = "dial" /\ caller[c].to \in Peer
         /\ c \in Peer => caller[c].to = c
         /\ lock # "free"
BY Facts, Names DEF ChannelInv, TaskInv, Caller

LEMMA DialSucceedsKeeps ==
  ASSUME ChannelInv, NEW c \in Caller, DialSucceeds(c)
  PROVE  ChannelInv'
<1>1. /\ lock = c /\ Handshakes(caller[c].to)
      /\ caller[c].stage = "dial" /\ caller[c].to \in Peer
      /\ c \in Peer => caller[c].to = c
  BY HolderDials DEF DialSucceeds
<1>2. /\ caller' \in [Caller -> Task] /\ caller'[c].stage = "rpc"
      /\ caller'[c].to = caller[c].to
      /\ \A d \in Caller : d # c => caller'[d] = caller[d]
  BY Staged DEF DialSucceeds, Stages
<1>3. UNCHANGED <<queue, link, cons, disk, bundle, round, heard, behind>>
        /\ lock' = "free"
  BY DEF DialSucceeds, net, view
<1> DEFINE e == [NoEntry EXCEPT !.conn = "live", !.leaf = bundle.cert]
<1>4. e \in Entry /\ e.conn = "live"
  BY Facts, Fresh DEF NoEntry
<1>5. pool' = [pool EXCEPT ![caller[c].to] = e]
  BY DEF DialSucceeds
<1> HIDE DEF e
<1>6. /\ pool' \in [Peer -> Entry] /\ pool'[caller[c].to].conn = "live"
      /\ \A p \in Peer : p # caller[c].to => pool'[p] = pool[p]
  BY <1>1, <1>4, <1>5, Facts
<1>7. TypeInv'
  BY <1>1, <1>2, <1>3, <1>6, Facts, TypeParts, Names
<1>8. QueueInv'
  BY <1>1, <1>2, <1>3, QueueStays
<1>9. TaskInv'
  BY <1>1, <1>2, <1>3, CallerMoved
<1>10. LitInv'
  BY <1>1, <1>2, <1>3, <1>6, LitFacts
  DEF LitInv, Reachable, Handshakes, Accepts
<1>11. QED
  BY <1>7, <1>8, <1>9, <1>10 DEF ChannelInv

(* A caller that returns.                                                  *)
LEMMA Returned ==
  ASSUME ChannelInv, NEW c \in Caller, caller' = [caller EXCEPT ![c] = Idle]
  PROVE  /\ caller' \in [Caller -> Task] /\ caller'[c].stage = "idle"
         /\ \A d \in Caller : d # c => caller'[d] = caller[d]
BY Fresh, OneCaller

LEMMA DialFailsKeeps ==
  ASSUME ChannelInv, NEW c \in Caller, DialFails(c)
  PROVE  ChannelInv'
<1>1. /\ lock = c /\ ~Handshakes(caller[c].to)
      /\ caller[c].stage = "dial" /\ caller[c].to \in Peer
      /\ c \in Peer => caller[c].to = c
  BY HolderDials DEF DialFails
<1>2. /\ caller' \in [Caller -> Task] /\ caller'[c].stage = "idle"
      /\ \A d \in Caller : d # c => caller'[d] = caller[d]
  BY Returned DEF DialFails
<1>3. UNCHANGED <<queue, pool, link, cons, disk, bundle, round, heard, behind>>
        /\ lock' = "free"
  BY DEF DialFails, net, view
<1>4. TypeInv'
  BY <1>1, <1>2, <1>3, Facts, TypeParts, Names
<1>5. QueueInv'
  BY <1>1, <1>2, <1>3, QueueStays
<1>6. TaskInv'
  BY <1>1, <1>2, <1>3, CallerMoved
<1>7. \A p \in round.lit : p # c
  BY <1>1, LitFacts
<1>8. LitInv'
  BY <1>2, <1>3, <1>7, LitFacts
  DEF LitInv, Reachable, Handshakes, Accepts
<1>9. QED
  BY <1>4, <1>5, <1>6, <1>8 DEF ChannelInv

LEMMA RpcAnswersKeeps ==
  ASSUME ChannelInv, NEW c \in Caller, RpcAnswers(c)
  PROVE  ChannelInv'
<1>1. /\ caller[c].stage = "rpc"
      /\ heard' = IF c = Op THEN heard ELSE heard \cup {c}
      /\ UNCHANGED <<queue, lock, pool, link, cons, disk, bundle, round, behind>>
  BY DEF RpcAnswers, net
<1>2. /\ caller' \in [Caller -> Task] /\ caller'[c].stage = "idle"
      /\ \A d \in Caller : d # c => caller'[d] = caller[d]
  BY Returned DEF RpcAnswers, Ends
<1>3. heard' \subseteq Peer /\ heard \subseteq heard' /\ (c \in Peer => c \in heard')
  BY <1>1, Facts, Names DEF Caller
<1>4. TypeInv'
  BY <1>1, <1>2, <1>3, Facts, TypeParts, Names
<1>5. QueueInv'
  BY <1>1, <1>2, QueueStays
<1>6. TaskInv'
  BY <1>1, <1>2, CallerMoved
<1>7. LitInv'
  BY <1>1, <1>2, <1>3, LitFacts
  DEF LitInv, Reachable, Handshakes, Accepts
<1>8. QED
  BY <1>4, <1>5, <1>6, <1>7 DEF ChannelInv

(* Only a channel with a fault fails a call, and a peer without one in     *)
(* this round has no such channel.                                         *)
LEMMA RpcFailsKeeps ==
  ASSUME ChannelInv, NEW c \in Caller, RpcBroken(c) \/ RpcTimesOut(c)
  PROVE  ChannelInv'
<1>1. /\ caller[c].stage = "rpc" /\ caller[c].to \in Peer
      /\ c \in Peer => caller[c].to = c
      /\ pool[caller[c].to].conn # "live"
      /\ UNCHANGED <<queue, lock, link, cons, disk, bundle, round, heard, behind>>
  BY DEF RpcBroken, RpcTimesOut, net, view, ChannelInv, TaskInv, Caller
<1>2. /\ caller' \in [Caller -> Task] /\ caller'[c].stage = "idle"
      /\ \A d \in Caller : d # c => caller'[d] = caller[d]
  BY Returned DEF RpcBroken, RpcTimesOut, Ends
<1>3. /\ pool' \in [Peer -> Entry]
      /\ \A p \in Peer : /\ pool'[p].conn = pool[p].conn
                         /\ Usable(pool'[p]) => Usable(pool[p])
  <2>1. pool \in [Peer -> Entry]
    BY Facts
  <2>2. CASE pool' = pool
    BY <2>1, <2>2
  <2>3. CASE pool' = [pool EXCEPT ![caller[c].to].poisoned = TRUE]
    BY <1>1, <2>1, <2>3 DEF Entry, Usable
  <2>4. QED
    BY <2>2, <2>3 DEF RpcBroken, RpcTimesOut
<1>4. TypeInv'
  BY <1>1, <1>2, <1>3, Facts, TypeParts, Names
<1>5. QueueInv'
  BY <1>1, <1>2, QueueStays
<1>6. TaskInv'
  BY <1>1, <1>2, CallerMoved
<1>7. \A p \in round.lit : p # c
  BY <1>1, LitFacts
<1>8. LitInv'
  <2> SUFFICES ASSUME NEW p \in round.lit
               PROVE  LitInv!(p)'
    BY <1>1 DEF LitInv
  <2>1. QED
    BY <1>1, <1>2, <1>3, <1>7, LitFacts DEF Reachable, Handshakes, Accepts
<1>9. QED
  BY <1>4, <1>5, <1>6, <1>8 DEF ChannelInv

LEMMA ServeKeeps ==
  ASSUME ChannelInv, NEW c \in Caller, Serve(c)
  PROVE  ChannelInv'
BY CacheHitKeeps, DialBeginsKeeps, DialSucceedsKeeps, DialFailsKeeps,
   RpcAnswersKeeps, RpcFailsKeeps DEF Serve

LEMMA AskKeeps ==
  ASSUME ChannelInv, NEW p \in Target, UnaryCall(p) \/ StreamCall(p)
  PROVE  ChannelInv'
<1>0. p \in Peer /\ Op \in Caller
  BY Names DEF Caller
<1>1. PICK kind \in {"unary", "stream"} : Ask(p, kind)
  BY DEF UnaryCall, StreamCall
<1>2. /\ caller[Op].stage = "idle" /\ queue' = Append(queue, Op)
      /\ UNCHANGED <<pool, lock, link, cons, disk, bundle, round, heard, behind>>
  BY <1>1 DEF Ask, net, view
<1> DEFINE x == [Idle EXCEPT !.stage = "wait", !.to = p, !.kind = kind]
<1>3. x \in Task /\ x.stage = "wait" /\ x.to = p
  BY ZenonT(60), <1>0, Fresh
<1>4. caller' = [caller EXCEPT ![Op] = x]
  BY <1>1 DEF Ask
<1> HIDE DEF x
<1>5. /\ caller' \in [Caller -> Task] /\ caller'[Op].stage = "wait"
      /\ caller'[Op].to = p
      /\ \A d \in Caller : d # Op => caller'[d] = caller[d]
  BY <1>0, <1>3, <1>4, OneCaller
<1>6. \A q \in Peer : q \in Caller /\ caller'[q] = caller[q]
  BY <1>5, Names DEF Caller
<1>7. TypeInv'
  BY <1>0, <1>2, <1>5, Facts, TypeParts, Names
<1>8. QueueInv'
  BY <1>0, <1>2, <1>5, QueuePushes
<1>9. TaskInv'
  BY <1>0, <1>2, <1>5, <1>6 DEF ChannelInv, TaskInv
<1>10. LitInv'
  BY <1>2, <1>6, LitFacts DEF LitInv, Reachable, Handshakes, Accepts
<1>11. QED
  BY <1>7, <1>8, <1>9, <1>10 DEF ChannelInv

-----------------------------------------------------------------------------
(* The fan-out.                                                            *)
LEMMA StartRoundKeeps ==
  ASSUME ChannelInv, NEW order \in SetToSeqs(Peer), StartRound(order)
  PROVE  ChannelInv'
<1>1. /\ ~round.on /\ queue' = queue \o order
      /\ UNCHANGED <<pool, lock, link, cons, disk, bundle, heard, behind>>
  BY DEF StartRound, net
<1> DEFINE x(c) == IF c = Op THEN caller[c] ELSE [Idle EXCEPT !.stage = "wait", !.to = c]
<1>2. caller' = [c \in Caller |-> x(c)]
  BY DEF StartRound
<1>3. /\ \A p \in Peer : x(p) \in Task /\ x(p).stage = "wait" /\ x(p).to = p
      /\ x(Op) = caller[Op] /\ x(Op) \in Task /\ Op \in Caller
  <2>1. Op \in Caller
    BY DEF Caller
  <2>2. ASSUME NEW p \in Peer
        PROVE  x(p) \in Task /\ x(p).stage = "wait" /\ x(p).to = p
    <3> DEFINE y == [Idle EXCEPT !.stage = "wait", !.to = p]
    <3>1. y \in Task /\ y.stage = "wait" /\ y.to = p
      BY Fresh
    <3>2. x(p) = y
      BY Names
    <3> HIDE DEF x, y
    <3>3. QED
      BY <3>1, <3>2
  <2>3. QED
    BY <2>1, <2>2, Facts
<1> HIDE DEF x
<1>4. caller' \in [Caller -> Task]
  <2>1. \A c \in Caller : x(c) \in Task
    BY <1>3 DEF Caller
  <2>2. QED
    BY <1>2, <2>1
<1>5. /\ \A p \in Peer : caller'[p].stage = "wait" /\ caller'[p].to = p
      /\ caller'[Op] = caller[Op]
  BY <1>2, <1>3 DEF Caller
<1> DEFINE lit == {p \in Peer : Reachable(p)}
<1>6. round' = [on |-> TRUE, elapsed |-> 0, lit |-> lit]
  BY DEF StartRound
<1>7. /\ round' \in [on : BOOLEAN, elapsed : 0 .. Budget, lit : SUBSET Peer]
      /\ round'.on /\ round'.elapsed = 0 /\ round'.lit = lit
  BY <1>6, Names
<1>8. \A p \in Peer : caller[p].stage = "idle" /\ lock # p /\ p \in Caller
  BY <1>1, Facts DEF ChannelInv, TaskInv
<1>9. TypeInv'
  <2>1. \A c \in Caller : caller'[c].stage = "dial" <=> lock' = c
    BY <1>1, <1>5, <1>8, Facts DEF Caller
  <2>2. QED
    BY <1>1, <1>4, <1>7, <2>1, Facts, TypeParts
<1>10. QueueInv'
  <2>1. /\ queue \in Seq(Caller) /\ Len(queue) \in Nat
        /\ \A i, j \in 1 .. Len(queue) : queue[i] = queue[j] => i = j
        /\ \A d \in Caller :
             caller[d].stage = "wait" <=> \E i \in 1 .. Len(queue) : queue[i] = d
    BY QueueFacts DEF InQueue
  <2>2. /\ order \in Seq(Peer) /\ order \in Seq(Caller) /\ Len(order) \in Nat
        /\ \A i, j \in 1 .. Len(order) : order[i] = order[j] => i = j
        /\ \A p \in Peer : \E i \in 1 .. Len(order) : order[i] = p
    <3>1. order \in Seq(Peer)
      BY Orders
    <3>2. order \in Seq(Caller)
      BY <3>1, SeqMonotonic DEF Caller
    <3>3. QED
      BY <3>1, <3>2, Orders, LenProperties
  <2>3. /\ queue' \in Seq(Caller) /\ Len(queue') = Len(queue) + Len(order)
        /\ \A i \in 1 .. Len(queue) + Len(order) : queue'[i] =
             IF i <= Len(queue) THEN queue[i] ELSE order[i - Len(queue)]
    BY <1>1, <2>1, <2>2, ConcatProperties
  <2>4. \A i \in 1 .. Len(queue) : queue[i] \notin Peer
    BY <1>8, <2>1
  <2>5. \A i \in 1 .. Len(order) : order[i] \in Peer
    BY <2>2, ElementOfSeq
  <2>6. /\ \A i \in 1 .. Len(queue) : i \in 1 .. Len(queue') /\ queue'[i] = queue[i]
        /\ \A i \in 1 .. Len(order) : /\ i + Len(queue) \in 1 .. Len(queue')
                                      /\ queue'[i + Len(queue)] = order[i]
        /\ \A i \in 1 .. Len(queue') :
             \/ i \in 1 .. Len(queue) /\ queue'[i] = queue[i]
             \/ /\ i - Len(queue) \in 1 .. Len(order)
                /\ queue'[i] = order[i - Len(queue)]
    <3>1. \A i \in 1 .. Len(order) : i + Len(queue) \in 1 .. Len(queue')
                                      /\ ~(i + Len(queue) <= Len(queue))
                                      /\ (i + Len(queue)) - Len(queue) = i
      BY <2>1, <2>2, <2>3
    <3>2. \A i \in 1 .. Len(order) : queue'[i + Len(queue)] = order[i]
      BY <2>3, <3>1
    <3>3. Len(queue) \in Nat /\ Len(order) \in Nat /\ Len(queue') = Len(queue) + Len(order)
      BY <2>1, <2>2, <2>3
    <3>4. ASSUME NEW i \in 1 .. Len(queue)
          PROVE  i \in 1 .. Len(queue') /\ queue'[i] = queue[i]
      <4>1. i \in 1 .. Len(queue) + Len(order) /\ i <= Len(queue)
        BY <3>3
      <4>2. QED
        BY <2>3, <3>3, <4>1
    <3>5. ASSUME NEW i \in 1 .. Len(queue'), ~(i \in 1 .. Len(queue))
          PROVE  /\ i - Len(queue) \in 1 .. Len(order)
                 /\ queue'[i] = order[i - Len(queue)]
      <4>1. /\ i \in 1 .. Len(queue) + Len(order) /\ ~(i <= Len(queue))
            /\ i - Len(queue) \in 1 .. Len(order)
        BY <3>3, <3>5
      <4>2. QED
        BY <2>3, <4>1
    <3>6. QED
      BY <3>1, <3>2, <3>4, <3>5
  <2>7. ASSUME NEW i \in 1 .. Len(queue'), NEW j \in 1 .. Len(queue'),
               queue'[i] = queue'[j]
        PROVE  i = j
    <3>1. CASE i \in 1 .. Len(queue) /\ j \in 1 .. Len(queue)
      BY <2>1, <2>6, <2>7, <3>1
    <3>2. CASE /\ i - Len(queue) \in 1 .. Len(order) /\ queue'[i] = order[i - Len(queue)]
               /\ j - Len(queue) \in 1 .. Len(order) /\ queue'[j] = order[j - Len(queue)]
      <4>1. i - Len(queue) = j - Len(queue)
        BY <2>2, <2>7, <3>2
      <4>2. QED
        BY <2>1, <2>2, <2>3, <4>1
    <3>3. QED
      BY SMTT(60), <2>4, <2>5, <2>6, <2>7, <3>1, <3>2
  <2>8. \A d \in Caller : caller'[d].stage = "wait"
                            <=> \E i \in 1 .. Len(queue') : queue'[i] = d
    <3>1. ASSUME NEW p \in Peer
          PROVE  \E i \in 1 .. Len(queue') : queue'[i] = p
      <4>1. PICK i \in 1 .. Len(order) : order[i] = p
        BY <2>2
      <4>2. i + Len(queue) \in 1 .. Len(queue') /\ queue'[i + Len(queue)] = p
        BY <2>6, <4>1
      <4>3. QED
        BY <4>2
    <3>2. (\E i \in 1 .. Len(queue') : queue'[i] = Op)
            <=> \E i \in 1 .. Len(queue) : queue[i] = Op
      BY <2>5, <2>6, Names
    <3>3. QED
      BY <1>3, <1>5, <2>1, <3>1, <3>2 DEF Caller
  <2>9. QED
    BY <2>3, <2>7, <2>8 DEF QueueInv
<1>11. TaskInv'
  BY <1>5, <1>7 DEF ChannelInv, TaskInv
<1>12. LitInv'
  BY <1>1, <1>5, <1>7 DEF LitInv, Reachable, Handshakes, Accepts
<1>13. QED
  BY <1>9, <1>10, <1>11, <1>12 DEF ChannelInv

LEMMA EndRoundKeeps ==
  ASSUME ChannelInv, EndRound
  PROVE  ChannelInv'
<1>1. /\ round' = NoRound /\ heard' = {} /\ behind' = {} /\ lock' = Freed(lock)
      /\ queue' = IF Op \in ToSet(queue) THEN <<Op>> ELSE <<>>
      /\ UNCHANGED <<pool, link, cons, disk, bundle>>
  BY DEF EndRound, net
<1>2. /\ caller' \in [Caller -> Task]
      /\ \A p \in Peer : caller'[p].stage = "idle"
      /\ caller'[Op] = caller[Op] /\ Op \in Caller
  <2>1. caller' = [c \in Caller |-> IF c = Op THEN caller[c] ELSE Idle]
    BY DEF EndRound
  <2>2. Op \in Caller /\ \A p \in Peer : p \in Caller /\ p # Op
    BY Names DEF Caller
  <2>3. caller \in [Caller -> Task] /\ Idle \in Task /\ Idle.stage = "idle"
    BY Facts, Fresh
  <2>4. QED
    BY <2>1, <2>2, <2>3
<1>3. TypeInv'
  <2>1. lock' \in Caller \cup {"free"}
    BY <1>1, Facts DEF Freed
  <2>2. \A c \in Caller : caller'[c].stage = "dial" <=> lock' = c
    BY <1>1, <1>2, Facts, Names DEF Freed, Caller
  <2>3. QED
    BY <1>1, <1>2, <2>1, <2>2, Facts, Fresh, TypeParts
<1>4. QueueInv'
  <2>1. caller[Op].stage = "wait" <=> Op \in ToSet(queue)
    BY <1>2, QueueFacts
  <2>2. \A p \in Peer : p # Op
    BY Names
  <2>3. CASE Op \in ToSet(queue)
    <3>1. queue' = <<Op>> /\ queue' \in Seq(Caller) /\ Len(queue') = 1 /\ queue'[1] = Op
      BY <1>1, <1>2, <2>3
    <3>2. QED
      BY <1>2, <2>1, <2>2, <2>3, <3>1 DEF QueueInv, Caller
  <2>4. CASE Op \notin ToSet(queue)
    <3>1. queue' = <<>> /\ queue' \in Seq(Caller) /\ Len(queue') = 0
      BY <1>1, <2>4
    <3>2. QED
      BY <1>2, <2>1, <2>2, <2>4, <3>1 DEF QueueInv, Caller
  <2>5. QED
    BY <2>3, <2>4
<1>5. TaskInv'
  BY <1>1, <1>2 DEF ChannelInv, TaskInv
<1>6. LitInv'
  BY <1>1, Fresh DEF LitInv
<1>7. QED
  BY <1>3, <1>4, <1>5, <1>6 DEF ChannelInv

LEMMA TickKeeps ==
  ASSUME ChannelInv, Tick
  PROVE  ChannelInv'
<1>1. /\ ~Due /\ ~RoundOver
      /\ UNCHANGED <<queue, pool, lock, link, cons, disk, bundle, heard>>
      /\ behind' = behind \cup (ToSet(queue) \ {Op})
  BY DEF Tick, net, Due
<1>2. /\ caller' \in [Caller -> Task]
      /\ \A c \in Caller : caller'[c].stage = caller[c].stage /\ caller'[c].to = caller[c].to
  <2>1. caller \in [Caller -> Task] /\ lock \in Caller \cup {"free"} /\ DialTimeout \in Nat
    BY Facts, Names
  <2>2. CASE lock = "free"
    BY <2>1, <2>2 DEF Tick
  <2>3. CASE lock # "free"
    <3>1. lock \in Caller /\ caller[lock] \in Task
      BY <2>1, <2>3
    <3> DEFINE t == IF caller[lock].timer < DialTimeout THEN caller[lock].timer + 1
                    ELSE caller[lock].timer
               x == [caller[lock] EXCEPT !.timer = t]
    <3>2. t \in 0 .. DialTimeout
      BY <2>1, <3>1 DEF Task
    <3>3. caller' = [caller EXCEPT ![lock] = x]
      BY <2>1, <2>3, <3>1 DEF Tick
    <3> HIDE DEF t
    <3>4. x \in Task /\ x.stage = caller[lock].stage /\ x.to = caller[lock].to
      BY <3>1, <3>2 DEF Task
    <3> HIDE DEF x
    <3>5. QED
      BY <2>1, <3>1, <3>3, <3>4
  <2>4. QED
    BY <2>2, <2>3
<1>3. /\ round' \in [on : BOOLEAN, elapsed : 0 .. Budget, lit : SUBSET Peer]
      /\ round'.on = round.on /\ round'.lit = round.lit
  <2>1. /\ round \in [on : BOOLEAN, elapsed : 0 .. Budget, lit : SUBSET Peer]
        /\ round.elapsed \in 0 .. Budget /\ Budget \in Nat
    BY Facts, Names
  <2>2. CASE ~round.on
    BY <2>1, <2>2 DEF Tick
  <2>3. CASE round.on
    <3>1. round.elapsed + 1 \in 0 .. Budget
      BY <1>1, <2>1, <2>3 DEF RoundOver
    <3>2. round' = [round EXCEPT !.elapsed = round.elapsed + 1]
      BY <2>3 DEF Tick
    <3>3. QED
      BY <2>1, <3>1, <3>2
  <2>4. QED
    BY <2>2, <2>3
<1>4. behind' \subseteq Peer /\ behind \subseteq behind'
        /\ \A p \in Peer : caller[p].stage = "wait" => p \in behind'
  <2>1. \A c : c \in ToSet(queue) <=> InQueue(c)
    BY QueueFacts
  <2>2. \A c \in ToSet(queue) : c \in Caller
    BY <2>1, QueueFacts DEF InQueue
  <2>3. \A p \in Peer : p # Op /\ p \in Caller
    BY Names DEF Caller
  <2>4. QED
    BY <1>1, <2>1, <2>2, <2>3, Facts, QueueFacts DEF Caller
<1>5. TypeInv'
  BY <1>1, <1>2, <1>3, <1>4, Facts, TypeParts
<1>6. QueueInv'
  BY <1>1, <1>2, QueueStays
<1>7. TaskInv'
  BY <1>2, <1>3 DEF ChannelInv, TaskInv, Caller
<1>8. ASSUME NEW p \in round.lit, round.on
      PROVE  p \in heard \cup behind'
  <2>1. /\ p \in Peer /\ p \in Caller /\ Handshakes(p)
        /\ caller[p].stage = "rpc" => pool[p].conn = "live"
        /\ caller[p].stage = "idle" => p \in heard
        /\ caller[p].stage # "idle" => caller[p].to = p
        /\ caller[p].stage \in Stages
    BY <1>8, LitFacts, Facts DEF Task
  <2>2. caller[p].stage # "rpc"
    BY <1>1, <2>1 DEF Due
  <2>3. caller[p].stage # "dial"
    <3>1. ASSUME caller[p].stage = "dial"
          PROVE  FALSE
      <4>1. lock = p /\ p # "free"
        BY <2>1, <3>1, Facts, Names
      <4>2. Handshakes(caller[lock].to)
        BY <2>1, <3>1, <4>1
      <4>3. QED
        BY <1>1, <4>1, <4>2 DEF Due
    <3>2. QED
      BY <3>1
  <2>4. QED
    BY <1>4, <2>1, <2>2, <2>3 DEF Stages
<1>9. LitInv'
  BY <1>1, <1>2, <1>3, <1>8, LitFacts DEF LitInv, Reachable, Handshakes, Accepts
<1>10. QED
  BY <1>5, <1>6, <1>7, <1>9 DEF ChannelInv

-----------------------------------------------------------------------------
(* Connections, certificates and the consensus plane.  None of them moves  *)
(* a caller.                                                               *)
LEMMA CallersStay ==
  ASSUME ChannelInv, UNCHANGED <<caller, queue, lock, heard, behind>>,
         link' \in [Peer -> {"up", "hole"}], pool' \in [Peer -> Entry],
         cons' \in [Target -> Conn], disk' \in Files, bundle' \in Files,
         NEW lit \in SUBSET round.lit, round' = [round EXCEPT !.lit = lit],
         \A p \in lit : /\ Handshakes(p)'
                        /\ Usable(pool'[p]) => Usable(pool[p])
                        /\ pool'[p].conn = pool[p].conn
  PROVE  ChannelInv'
<1>1. /\ round' \in [on : BOOLEAN, elapsed : 0 .. Budget, lit : SUBSET Peer]
      /\ round'.on = round.on /\ round'.elapsed = round.elapsed /\ round'.lit = lit
  BY Facts
<1>2. TypeInv'
  BY <1>1, Facts, TypeParts
<1>3. QueueInv'
  BY QueueStays
<1>4. TaskInv'
  BY <1>1 DEF ChannelInv, TaskInv
<1>5. LitInv'
  BY <1>1, LitFacts DEF LitInv, Reachable
<1>6. QED
  BY <1>2, <1>3, <1>4, <1>5 DEF ChannelInv

LEMMA Turned ==
  ASSUME ChannelInv, NEW p \in Peer, NEW from, NEW to \in Conn, Turn(p, from, to)
  PROVE  /\ pool' \in [Peer -> Entry] /\ cons' \in [Target -> Conn]
         /\ \A q \in Peer : q # p => pool'[q] = pool[q]
<1>1. pool \in [Peer -> Entry] /\ cons \in [Target -> Conn]
  BY Facts
<1>2. pool[p].conn \in Conn
  BY <1>1 DEF Entry
<1> DEFINE x == IF pool[p].conn \in from THEN to ELSE pool[p].conn
<1>3. x \in Conn
  BY <1>2
<1>4. pool' = [pool EXCEPT ![p].conn = x]
  BY <1>1 DEF Turn
<1> HIDE DEF x
<1>5. pool' \in [Peer -> Entry] /\ \A q \in Peer : q # p => pool'[q] = pool[q]
  BY <1>1, <1>3, <1>4 DEF Entry
<1>6. cons' \in [Target -> Conn]
  BY <1>1 DEF Turn
<1>7. QED
  BY <1>5, <1>6

LEMMA LinksKeep ==
  ASSUME ChannelInv, NEW p \in Peer, Cut(p) \/ Heal(p) \/ PeerRestarts(p) \/ KeepAlive(p)
  PROVE  ChannelInv'
<1>1. /\ UNCHANGED <<caller, queue, lock, heard, behind, disk, bundle>>
      /\ link' = link \/ link' = [link EXCEPT ![p] = "hole"]
           \/ link' = [link EXCEPT ![p] = "up"]
  BY DEF Cut, Heal, PeerRestarts, KeepAlive, view
<1>2. \E from, to : to \in Conn /\ Turn(p, from, to)
  BY DEF Cut, Heal, PeerRestarts, KeepAlive, Conn
<1>3. /\ pool' \in [Peer -> Entry] /\ cons' \in [Target -> Conn]
      /\ \A q \in Peer : q # p => pool'[q] = pool[q]
  BY <1>2, Turned
<1>4. /\ link' \in [Peer -> {"up", "hole"}]
      /\ \A q \in Peer : q # p => link'[q] = link[q]
  BY <1>1, Facts
<1> DEFINE lit == round.lit \ {p}
<1>5. round' = [round EXCEPT !.lit = lit]
  <2>1. CASE Cut(p) \/ PeerRestarts(p)
    BY <2>1 DEF Cut, PeerRestarts
  <2>2. CASE Heal(p) \/ KeepAlive(p)
    <3>1. link[p] = "hole" /\ round' = round
      BY <2>2 DEF Heal, KeepAlive, view
    <3>2. p \notin round.lit
      BY <3>1, LitFacts
    <3>3. lit = round.lit
      BY <3>2
    <3> HIDE DEF lit
    <3>4. round = [round EXCEPT !.lit = round.lit]
      BY Facts
    <3>5. QED
      BY <3>1, <3>3, <3>4
  <2>3. QED
    BY <2>1, <2>2
<1>6. lit \in SUBSET round.lit
  OBVIOUS
<1>7. \A q \in lit : /\ Handshakes(q)'
                     /\ Usable(pool'[q]) => Usable(pool[q])
                     /\ pool'[q].conn = pool[q].conn
  BY <1>1, <1>3, <1>4, LitFacts DEF Handshakes, Accepts, Paired
<1> HIDE DEF lit
<1>8. QED
  BY <1>1, <1>3, <1>4, <1>5, <1>6, <1>7, Facts, CallersStay

LEMMA SameRound ==
  ASSUME ChannelInv, UNCHANGED round
  PROVE  round' = [round EXCEPT !.lit = round.lit]
BY Facts

LEMMA AgeKeeps ==
  ASSUME ChannelInv, NEW p \in Peer, Age(p)
  PROVE  ChannelInv'
<1>1. /\ UNCHANGED <<caller, queue, lock, heard, behind, disk, bundle, link, cons, round>>
      /\ pool' = [pool EXCEPT ![p].aged = TRUE]
  BY DEF Age, view, net
<1>2. /\ pool' \in [Peer -> Entry]
      /\ \A q \in Peer : /\ pool'[q].conn = pool[q].conn
                         /\ Usable(pool'[q]) => Usable(pool[q])
  BY ZenonT(60), <1>1, Facts DEF Entry, Usable
<1>3. \A q \in round.lit : q \in Peer /\ Handshakes(q)'
  BY <1>1, LitFacts DEF Handshakes, Accepts
<1>4. QED
  BY <1>1, <1>2, <1>3, SameRound, Facts, CallersStay

LEMMA ConsensusKeeps ==
  ASSUME ChannelInv, NEW p \in Target, ConsensusRpc(p)
  PROVE  ChannelInv'
<1>1. UNCHANGED <<caller, queue, lock, heard, behind, disk, bundle, link, pool, round>>
  BY DEF ConsensusRpc, view
<1>2. cons' \in [Target -> Conn]
  <2>1. cons \in [Target -> Conn] /\ cons[p] \in Conn
    BY Facts
  <2>2. AfterRpc(p, cons[p]) \in Conn
    BY <2>1 DEF AfterRpc, Conn, Invalidated
  <2>3. QED
    BY <2>1, <2>2 DEF ConsensusRpc
<1>3. \A q \in round.lit : Handshakes(q)'
  BY <1>1, LitFacts DEF Handshakes, Accepts
<1>4. QED
  BY <1>1, <1>2, <1>3, SameRound, Facts, CallersStay

LEMMA RotateKeeps ==
  ASSUME ChannelInv, NEW file \in {"cert", "key"}, Rotate(file)
  PROVE  ChannelInv'
<1>1. UNCHANGED <<caller, queue, lock, heard, behind, bundle, link, cons, pool, round>>
  BY DEF Rotate, view
<1>2. disk' \in Files
  <2>1. disk \in Files /\ MaxRotations \in Nat
    BY Facts, Names
  <2>2. disk[file] \in 0 .. MaxRotations /\ disk[file] < MaxRotations
    BY <2>1 DEF Rotate, Files
  <2>3. disk[file] + 1 \in 0 .. MaxRotations
    BY <2>1, <2>2
  <2>4. disk' = [disk EXCEPT ![file] = disk[file] + 1]
    BY DEF Rotate
  <2>5. QED
    BY <2>1, <2>3, <2>4 DEF Files
<1>3. \A q \in round.lit : Handshakes(q)'
  BY <1>1, LitFacts DEF Handshakes, Accepts
<1>4. QED
  BY <1>1, <1>2, <1>3, SameRound, Facts, CallersStay

LEMMA ReloadKeeps ==
  ASSUME ChannelInv, Reload
  PROVE  ChannelInv'
<1> DEFINE lit == IF Paired(disk) THEN round.lit ELSE {}
<1>1. /\ UNCHANGED <<caller, queue, lock, heard, behind, disk, link, cons, pool>>
      /\ bundle' = disk /\ round' = [round EXCEPT !.lit = lit]
  BY DEF Reload
<1>2. lit \in SUBSET round.lit
  OBVIOUS
<1>3. \A q \in lit : Handshakes(q)'
  BY <1>1, LitFacts DEF Handshakes, Accepts
<1> HIDE DEF lit
<1>4. QED
  BY <1>1, <1>2, <1>3, Facts, CallersStay

LEMMA ChannelStep == ChannelInv /\ [Next]_vars => ChannelInv'
<1> SUFFICES ASSUME ChannelInv, [Next]_vars PROVE ChannelInv'
  OBVIOUS
<1>1. CASE UNCHANGED vars
  <2>1. UNCHANGED <<caller, queue, lock, heard, behind, disk, bundle, link, cons,
                    pool, round>>
    BY <1>1 DEF vars
  <2>2. \A q \in round.lit : Handshakes(q)'
    BY <2>1, LitFacts DEF Handshakes, Accepts
  <2>3. QED
    BY <2>1, <2>2, SameRound, Facts, CallersStay
<1>2. ASSUME NEW p \in Peer, Cut(p) \/ Heal(p) \/ PeerRestarts(p) \/ KeepAlive(p) \/ Age(p)
      PROVE  ChannelInv'
  BY <1>2, LinksKeep, AgeKeeps
<1>3. QED
  BY <1>1, <1>2, ServeKeeps, AskKeeps, StartRoundKeeps, EndRoundKeeps, ConsensusKeeps,
     RotateKeeps, ReloadKeeps, TickKeeps DEF Next

LEMMA ChannelInit == Init => ChannelInv
<1> SUFFICES ASSUME Init PROVE ChannelInv
  OBVIOUS
<1>1. /\ \A c \in Caller : caller[c] = Idle
      /\ caller \in [Caller -> Task] /\ Op \in Caller /\ Idle.stage = "idle"
  BY Fresh DEF Init, Caller
<1>2. round = NoRound /\ queue = <<>> /\ lock = "free" /\ heard = {} /\ behind = {}
  BY DEF Init
<1>3. pool \in [Peer -> Entry] /\ cons \in [Target -> Conn]
        /\ link \in [Peer -> {"up", "hole"}]
  BY Fresh DEF Init, Conn
<1>4. disk \in Files /\ bundle \in Files
  BY Names DEF Init, Files
<1>5. TypeInv
  <2>1. \A c \in Caller : caller[c].stage = "dial" <=> lock = c
    BY <1>1, <1>2, Names
  <2>2. /\ round \in [on : BOOLEAN, elapsed : 0 .. Budget, lit : SUBSET Peer]
        /\ round.lit \subseteq Peer /\ round.elapsed \in 0 .. Budget
    BY <1>2, Fresh
  <2>3. QED
    BY <1>1, <1>2, <1>3, <1>4, <2>1, <2>2 DEF TypeInv, TypeOK, Entry
<1>6. QueueInv
  <2>1. queue \in Seq(Caller) /\ Len(queue) = 0
    BY <1>2
  <2>2. QED
    BY <1>1, <2>1 DEF QueueInv
<1>7. TaskInv
  BY <1>1 DEF TaskInv, Caller
<1>8. LitInv
  BY <1>2, Fresh DEF LitInv
<1>9. QED
  BY <1>5, <1>6, <1>7, <1>8 DEF ChannelInv

(* When the round is over, its time has run or everybody has returned.     *)
LEMMA HeardOrBehind == ChannelInv => BlindOnlyBehindDial
<1> SUFFICES ASSUME ChannelInv PROVE BlindOnlyBehindDial
  OBVIOUS
<1>1. TypeOK
  BY DEF ChannelInv, TypeInv
<1>2. ASSUME RoundOver, NEW p \in round.lit
      PROVE  p \in heard \cup behind
  <2>1. round.on /\ (round.elapsed > 0 \/ caller[p].stage = "idle")
    BY <1>2, Names, Facts, LitFacts DEF RoundOver
  <2>2. QED
    BY <2>1, LitFacts
<1>3. QED
  BY <1>1, <1>2 DEF BlindOnlyBehindDial

(* collect_statuses and the mutex of the pool (PeerPool::client): for any  *)
(* number of peers, any budget and any number of black holes, restarts and *)
(* rotations, a peer that could be reached throughout a fan-out goes       *)
(* unheard only when its task waited for the mutex while somebody dialed.  *)
THEOREM OnlyADialHides == Spec => []BlindOnlyBehindDial
<1>1. Init => ChannelInv
  BY ChannelInit
<1>2. ChannelInv /\ [Next]_vars => ChannelInv'
  BY ChannelStep
<1>3. ChannelInv => BlindOnlyBehindDial
  BY HeardOrBehind
<1>4. QED
  BY <1>1, <1>2, <1>3, PTL DEF Spec
=============================================================================
