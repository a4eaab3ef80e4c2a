---------------------------- MODULE PeerChannels ----------------------------
(***************************************************************************)
(* One agent's outbound connections: the pool of peer channels (peers.rs), *)
(* the channels of the consensus plane (raftnet.rs: openraft's network to  *)
(* each peer and the client of the leader), and the certificate they       *)
(* present (certreload.rs), checked by the peers' servers (peerserver.rs). *)
(*                                                                         *)
(* The peers' links may turn into black holes, where a call gets no answer *)
(* and no error, and peers may restart, which breaks their connections.    *)
(* Time runs in units of half the connect timeout, only to order a dial's  *)
(* time-out and the end of a status fan-out; the other time-outs (a        *)
(* call's own, the keep-alive, the channel's age) may fall at any moment.  *)
(* The CA is never rotated: both sides snapshot their roots at start, so   *)
(* that needs a restart.  A call that holds a channel the pool has since   *)
(* replaced is not kept apart from one on the new channel.                 *)
(***************************************************************************)
EXTENDS Integers, SequencesExt

CONSTANTS Peer,         \* the other members of the pool
          Target,       \* the peers that handlers and the consensus plane call
          Budget,       \* STATUS_FANOUT_BUDGET
          DialTimeout,  \* DEFAULT_CONNECT_TIMEOUT, RAFT_CONNECT_TIMEOUT
          MaxFaults,    \* bound: links cut and peers restarted
          MaxRotations  \* bound: certificates issued

ASSUME ChannelAssumption ==
  /\ IsFiniteSet(Peer) /\ Target \subseteq Peer
  /\ {"op", "free"} \cap Peer = {}
  /\ Budget \in Nat \ {0} /\ DialTimeout \in Nat \ {0}
  /\ MaxFaults \in Nat /\ MaxRotations \in Nat

VARIABLES link,     \* "up" or "hole", per peer
          pool,     \* PeerPool.channels: the cached entry per peer
          cons,     \* the consensus plane's channel to each target
          lock,     \* who holds the mutex of the pool
          queue,    \* who waits for it (tokio's mutex is fair)
          caller,   \* what each caller is doing
          round,    \* the status fan-out in progress
          heard,    \* the peers the fan-out has heard
          behind,   \* history: tasks of the fan-out that waited for the mutex
          disk, bundle,  \* the certificate and key files, and what is loaded
          faults

vars == <<link, pool, cons, lock, queue, caller, round, heard, behind,
          disk, bundle, faults>>

Op == "op"                   \* any handler that calls one peer
Caller == Peer \cup {Op}     \* the fan-out has one task per peer
Idle == [stage |-> "idle", to |-> Op, kind |-> "unary", timer |-> 0]
NoEntry == [conn |-> "none", leaf |-> 0, poisoned |-> FALSE, aged |-> FALSE]
NoRound == [on |-> FALSE, elapsed |-> 0, lit |-> {}]

(* A leaf and a key of the same issue: load_bundle pairs them unchecked,   *)
(* and a handshake signs with one and shows the other.                     *)
Paired(b) == b.cert = b.key

(* serve_mtls: every connection that arrives is accepted in a task of its  *)
(* own, so that no other connection delays it.                             *)
Accepts(p) == link[p] = "up"

(* The peer's server (verify_client_cert) takes a pool member's leaf whose *)
(* key signs; every issue names the member.                                *)
Handshakes(p) == Accepts(p) /\ Paired(bundle)

Init ==
  /\ link = [p \in Peer |-> "up"]
  /\ pool = [p \in Peer |-> NoEntry]
  /\ cons = [p \in Target |-> "none"]
  /\ lock = "free" /\ queue = <<>>
  /\ caller = [c \in Caller |-> Idle]
  /\ round = NoRound
  /\ heard = {} /\ behind = {}
  /\ disk = [cert |-> 0, key |-> 0] /\ bundle = disk
  /\ faults = 0

net == <<link, cons, disk, bundle, faults>>
view == <<round, heard, behind>>
-----------------------------------------------------------------------------
(* PeerPool::client.                                                       *)

(* Mutant: an entry is used however old it is.                             *)
UsableForever(e) == e.conn # "none" /\ ~e.poisoned

Usable(e) == e.conn # "none" /\ ~e.poisoned /\ ~e.aged

Waiting(c) == lock = "free" /\ queue # <<>> /\ Head(queue) = c

(* A hit gives the cached client and the mutex back at once.               *)
CacheHit(c) ==
  /\ Waiting(c) /\ Usable(pool[caller[c].to])
  /\ queue' = Tail(queue)
  /\ caller' = [caller EXCEPT ![c].stage = "rpc"]
  /\ UNCHANGED <<pool, lock, net, view>>

(* A miss dials, holding the mutex until the dial ends.                    *)
DialBegins(c) ==
  /\ Waiting(c) /\ ~Usable(pool[caller[c].to])
  /\ queue' = Tail(queue) /\ lock' = c
  /\ caller' = [caller EXCEPT ![c].stage = "dial", ![c].timer = 0]
  /\ UNCHANGED <<pool, net, view>>

DialSucceeds(c) ==
  /\ lock = c /\ Handshakes(caller[c].to)
  /\ pool' = [pool EXCEPT ![caller[c].to] =
                [NoEntry EXCEPT !.conn = "live", !.leaf = bundle.cert]]
  /\ lock' = "free"
  /\ caller' = [caller EXCEPT ![c].stage = "rpc"]
  /\ UNCHANGED <<queue, net, view>>

(* A handshake that fails fails at once, a black hole after the time-out.  *)
DialGivesUp(c) ==
  \/ link[caller[c].to] = "up"
  \/ caller[c].timer >= DialTimeout

DialFails(c) ==
  /\ lock = c /\ ~Handshakes(caller[c].to) /\ DialGivesUp(c)
  /\ lock' = "free"
  /\ caller' = [caller EXCEPT ![c] = Idle]
  /\ UNCHANGED <<pool, queue, net, view>>

(* Mutant: the fan-out ends with the first task that returns.              *)
FirstReturned ==
  /\ round.on
  /\ \E p \in Peer : caller[p].stage = "idle"

RoundOver ==
  /\ round.on
  /\ \/ round.elapsed >= Budget
     \/ \A p \in Peer : caller[p].stage = "idle"

(* A step of the agent that takes no time is due: time stands still.       *)
Due ==
  \/ lock = "free" /\ queue # <<>>
  \/ lock # "free" /\ (Handshakes(caller[lock].to) \/ DialGivesUp(lock))
  \/ \E c \in Caller : caller[c].stage = "rpc"
                         /\ pool[caller[c].to].conn \in {"live", "broken"}
  \/ RoundOver

-----------------------------------------------------------------------------
(* The calls of PeerChannel.                                               *)

(* A handler asks one peer for something.                                  *)
Ask(p, kind) ==
  /\ ~Due /\ caller[Op].stage = "idle"
  /\ caller' = [caller EXCEPT ![Op] = [Idle EXCEPT !.stage = "wait",
                                                   !.to = p, !.kind = kind]]
  /\ queue' = Append(queue, Op)
  /\ UNCHANGED <<pool, lock, net, view>>

(* create_slot, drop_slot, get_node_config, start, start_pgpool,           *)
(* attach_node, stop, configure_standby, promote.                          *)
UnaryCall(p) == Ask(p, "unary")

(* rewind and basebackup.                                                  *)
StreamCall(p) == Ask(p, "stream")

Ends(c) == caller' = [caller EXCEPT ![c] = Idle]

RpcAnswers(c) ==
  /\ caller[c].stage = "rpc" /\ pool[caller[c].to].conn = "live"
  /\ Ends(c)
  /\ heard' = IF c = Op THEN heard ELSE heard \cup {c}
  /\ UNCHANGED <<pool, lock, queue, round, behind, net>>

(* peer_err and drain_progress_stream: a transport error poisons the entry.*)
RpcBroken(c) ==
  /\ caller[c].stage = "rpc" /\ pool[caller[c].to].conn = "broken"
  /\ Ends(c)
  /\ pool' = [pool EXCEPT ![caller[c].to].poisoned = TRUE]
  /\ UNCHANGED <<lock, queue, net, view>>

(* short_rpc, the set-up of fetch_wal and the channel's ceiling: the call  *)
(* ends by itself and the entry stays as it was.  A stream that is set up  *)
(* has no deadline and ends with the connection.                           *)
RpcTimesOut(c) ==
  /\ c = Op /\ caller[c].stage = "rpc" /\ caller[c].kind = "unary"
  /\ pool[caller[c].to].conn = "half"
  /\ Ends(c)
  /\ UNCHANGED <<pool, lock, queue, net, view>>
-----------------------------------------------------------------------------
(* collect_statuses: one task per peer, one budget for all.                *)

(* Nothing is wrong with the peer, nor with its channel if it has one.     *)
Reachable(p) == Handshakes(p) /\ (Usable(pool[p]) => pool[p].conn = "live")

StartRound(order) ==
  /\ ~round.on
  /\ round' = [on |-> TRUE, elapsed |-> 0,
               lit |-> {p \in Peer : Reachable(p)}]
  /\ caller' = [c \in Caller |-> IF c = Op THEN caller[c]
                                 ELSE [Idle EXCEPT !.stage = "wait", !.to = c]]
  /\ queue' = queue \o order
  /\ UNCHANGED <<pool, lock, heard, behind, net>>

Freed(holder) == IF holder \in Peer THEN "free" ELSE holder

(* The budget is spent, or every task has returned; what is left is        *)
(* aborted, which frees the mutex and poisons nothing.                     *)
EndRound ==
  /\ RoundOver
  /\ round' = NoRound /\ heard' = {} /\ behind' = {}
  /\ lock' = Freed(lock)
  /\ queue' = IF Op \in ToSet(queue) THEN <<Op>> ELSE <<>>
  /\ caller' = [c \in Caller |-> IF c = Op THEN caller[c] ELSE Idle]
  /\ UNCHANGED <<pool, net>>
-----------------------------------------------------------------------------
(* The consensus plane: RaftPeerNetwork (append_entries, vote,             *)
(* install_snapshot) and LeaderClient (propose, read_state).               *)

(* Mutant: a channel that failed is kept for the next call.                *)
Kept(conn) == conn

(* Any error and any expired deadline drop the channel.                    *)
Invalidated(conn) == "none"

(* The cached channel is used, or one is dialed.                           *)
AfterRpc(p, conn) ==
  CASE conn = "live" -> conn
    [] conn = "none" -> IF Handshakes(p) THEN "live" ELSE "none"
    [] OTHER -> Invalidated(conn)

ConsensusRpc(p) ==
  /\ cons' = [cons EXCEPT ![p] = AfterRpc(p, @)]
  /\ UNCHANGED <<link, disk, bundle, faults, pool, lock, queue, caller, view>>
-----------------------------------------------------------------------------
(* What happens to connections.                                            *)

Turn(p, from, to) ==
  LET turned(conn) == IF conn \in from THEN to ELSE conn IN
  /\ pool' = [pool EXCEPT ![p].conn = turned(@)]
  /\ cons' = [t \in Target |-> IF t = p THEN turned(cons[t]) ELSE cons[t]]

Cut(p) ==
  /\ link[p] = "up" /\ faults < MaxFaults
  /\ faults' = faults + 1
  /\ link' = [link EXCEPT ![p] = "hole"]
  /\ round' = [round EXCEPT !.lit = @ \ {p}]
  /\ Turn(p, {"live"}, "half")
  /\ UNCHANGED <<lock, queue, caller, heard, behind, disk, bundle>>

Heal(p) ==
  /\ link[p] = "hole"
  /\ link' = [link EXCEPT ![p] = "up"]
  /\ Turn(p, {"half"}, "live")
  /\ UNCHANGED <<lock, queue, caller, view, disk, bundle, faults>>

PeerRestarts(p) ==
  /\ link[p] = "up" /\ faults < MaxFaults
  /\ faults' = faults + 1
  /\ round' = [round EXCEPT !.lit = @ \ {p}]
  /\ Turn(p, {"live"}, "broken")
  /\ UNCHANGED <<link, lock, queue, caller, heard, behind, disk, bundle>>

(* HTTP/2 keep-alive notices a silent connection.                          *)
KeepAlive(p) ==
  /\ link[p] = "hole"
  /\ Turn(p, {"half"}, "broken")
  /\ UNCHANGED <<link, lock, queue, caller, view, disk, bundle, faults>>

(* MAX_CONNECTION_AGE passes.                                              *)
Age(p) ==
  /\ ~Due /\ pool[p].conn # "none" /\ ~pool[p].aged
  /\ pool' = [pool EXCEPT ![p].aged = TRUE]
  /\ UNCHANGED <<lock, queue, caller, view, net>>

(* A new issue is put in place, one file after the other.                  *)
Rotate(file) ==
  /\ disk[file] < MaxRotations
  /\ file = "key" => disk.key < disk.cert
  /\ file = "cert" => Paired(disk)
  /\ disk' = [disk EXCEPT ![file] = @ + 1]
  /\ UNCHANGED <<link, cons, bundle, faults, pool, lock, queue, caller, view>>

(* SIGHUP: reload reads the files and swaps the bundle; channels stay.     *)
Reload ==
  /\ bundle # disk
  /\ bundle' = disk
  /\ round' = [round EXCEPT !.lit = IF Paired(disk) THEN @ ELSE {}]
  /\ UNCHANGED <<link, cons, disk, faults, pool, lock, queue, caller, heard,
                 behind>>

Tick ==
  /\ ~Due
  /\ round.on \/ lock # "free"
  /\ round' = IF round.on THEN [round EXCEPT !.elapsed = @ + 1] ELSE round
  /\ caller' = IF lock = "free" THEN caller
               ELSE [caller EXCEPT ![lock].timer =
                       IF @ < DialTimeout THEN @ + 1 ELSE @]
  /\ behind' = behind \cup (ToSet(queue) \ {Op})
  /\ UNCHANGED <<pool, lock, queue, heard, net>>

Serve(c) ==
  \/ CacheHit(c) \/ DialBegins(c) \/ DialSucceeds(c) \/ DialFails(c)
  \/ RpcAnswers(c) \/ RpcBroken(c) \/ RpcTimesOut(c)

Next ==
  \/ \E c \in Caller : Serve(c)
  \/ \E p \in Target : UnaryCall(p) \/ StreamCall(p)
  \/ \E order \in SetToSeqs(Peer) : StartRound(order)
  \/ EndRound
  \/ \E p \in Target : ConsensusRpc(p)
  \/ \E p \in Peer : Cut(p) \/ Heal(p) \/ PeerRestarts(p) \/ KeepAlive(p) \/ Age(p)
  \/ \E file \in {"cert", "key"} : Rotate(file)
  \/ Reload
  \/ Tick

(* The loops tick for ever (HA loop, openraft's heartbeats), calls and     *)
(* time-outs run, an operator finishes a rotation and reloads.  Links and  *)
(* peers owe nothing.                                                      *)
Fairness ==
  /\ \A c \in Caller : WF_vars(Serve(c))
  /\ WF_vars(\E order \in SetToSeqs(Peer) : StartRound(order))
  /\ WF_vars(EndRound)
  /\ \A p \in Target : WF_vars(ConsensusRpc(p))
  /\ \A p \in Peer : WF_vars(KeepAlive(p)) /\ SF_vars(Age(p))
  /\ WF_vars(Rotate("key"))
  /\ WF_vars(Reload)
  /\ WF_vars(Tick)

Spec == Init /\ [][Next]_vars
FairSpec == Spec /\ Fairness
-----------------------------------------------------------------------------
Conn == {"none", "live", "half", "broken"}

(* Types of the caches, the callers and the fan-out.                       *)
TypeOK ==
  /\ link \in [Peer -> {"up", "hole"}]
  /\ pool \in [Peer -> [conn : Conn, leaf : 0 .. MaxRotations,
                        poisoned : BOOLEAN, aged : BOOLEAN]]
  /\ cons \in [Target -> Conn]
  /\ lock \in Caller \cup {"free"}
  /\ \A c \in Caller : caller[c].stage = "dial" <=> lock = c
  /\ {heard, behind, round.lit} \subseteq SUBSET Peer
  /\ round.elapsed \in 0 .. Budget

(* A peer that could be reached throughout a fan-out goes unheard only     *)
(* when its task had to wait for the mutex of the pool while another       *)
(* caller dialed: a silent peer whose channel is cached, a broken channel  *)
(* or a failed call of another peer never hides it.                        *)
BlindOnlyBehindDial ==
  /\ TypeOK
  /\ RoundOver => round.lit \ heard \subseteq behind

(* "One slow peer must degrade exactly one peer's evidence" (the comment   *)
(* of collect_statuses): a peer reachable throughout is heard.             *)
OneSlowPeer == RoundOver => round.lit \subseteq heard

(* A handler's call ends, whatever its peer and the mutex of the pool do,  *)
(* once links stop changing.                                               *)
CallsEnd == (caller[Op].stage = "wait") ~> (caller[Op].stage = "idle")

(* When every peer can be reached again for good, the fan-out hears every  *)
(* peer again: no cached connection stays broken in the pool.              *)
PoolRecovers ==
  <>[](\A p \in Peer : Handshakes(p)) => []<>(heard = Peer)

(* A peer that can be reached again for good is reached by the consensus   *)
(* plane, whatever the other peers do.                                     *)
ConsensusRecovers ==
  \A p \in Target : <>[](Handshakes(p)) => []<>(cons[p] = "live")

(* Nothing that is cached or held keeps an agent from its peers for good   *)
(* (PeerPool::client, invalidate): the three above.                        *)
ChannelsRecover == CallsEnd /\ PoolRecovers /\ ConsensusRecovers

(* A rotated certificate reaches every channel of the pool that is used    *)
(* (MAX_CONNECTION_AGE): in the end no live channel shows an older leaf,   *)
(* if the peers can be reached.                                            *)
RotationReaches ==
  <>[](\A p \in Peer : Handshakes(p)) =>
    []<>(\A p \in Peer : pool[p].conn = "live" => pool[p].leaf = bundle.cert)
=============================================================================
