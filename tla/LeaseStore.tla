----------------------------- MODULE LeaseStore -----------------------------
(***************************************************************************)
(* The consensus store as its callers use it: `RaftConsensusStore`         *)
(* (raftconsensus.rs) in front of the replicated state machine             *)
(* (raftstore.rs).  Every node has one caller at a time (the HA loop or an *)
(* operator's command).                                                    *)
(*                                                                         *)
(* What makes this hard is `propose`: it writes to the local Raft and, on  *)
(* ANY error, sends the same command to the node it believes leads.  The   *)
(* error does not mean that the first write is dead, so one call may be in *)
(* the log twice, and a call that returned an error may take effect later. *)
(*                                                                         *)
(* openraft is external and modelled from how propose uses it: `log` holds *)
(* the appended and uncommitted entries, which commit in order or are      *)
(* lost to a leader change; `net` holds forwarded requests on their way to *)
(* the leader, which may arrive after their caller gave up, or never.      *)
(***************************************************************************)
EXTENDS Lease

CONSTANTS MaxCalls,        \* bound: calls made in one behaviour
          PauseArgs,       \* the arguments set_paused is called with
          SwitchoverArgs   \* the arguments set_switchover is called with

ASSUME StoreAssumption ==
  /\ MaxCalls \in Nat
  /\ PauseArgs \subseteq BOOLEAN
  /\ SwitchoverArgs \subseteq Node \cup {NoNode}

VARIABLES cluster,   \* the replicated document, at the last committed entry
          log,       \* uncommitted entries
          net,       \* forwarded requests not yet appended
          call,      \* each node's outstanding call
          calls,     \* how many calls were made (names them)
          appended,  \* how many entries were appended (orders them)
          grants     \* history: every grant with the call that asked for it

vars == <<cluster, log, net, call, calls, appended, grants>>

Expectable == {g.lease : g \in grants} \cup {Vacant}
Idle == [stage |-> "idle", id |-> 0, cmd |-> PausedCmd(FALSE),
         reply |-> "none", lease |-> Vacant]

Init ==
  /\ cluster = EmptyState
  /\ log = {}
  /\ net = {}
  /\ call = [n \in Node |-> Idle]
  /\ calls = 0
  /\ appended = 0
  /\ grants = {}

Append(via, n, id, cmd) ==
  /\ appended' = appended + 1
  /\ log' = log \cup {[at |-> appended + 1, via |-> via,
                       by |-> n, call |-> id, cmd |-> cmd]}

(* The local client_write of propose: appended if this node leads, refused *)
(* (and noticed by LocalFails) if it does not.                             *)
Call(n, cmd) ==
  /\ call[n].stage = "idle"
  /\ calls < MaxCalls
  /\ calls' = calls + 1
  /\ call' = [call EXCEPT ![n] = [Idle EXCEPT !.stage = "local",
                                              !.id = calls + 1, !.cmd = cmd]]
  /\ \/ Append("local", n, calls + 1, cmd)
     \/ UNCHANGED <<log, appended>>
  /\ UNCHANGED <<cluster, net, grants>>

TryTakeover(n) == \E e \in Expectable : Call(n, TakeoverCmd(n, e))
Release(n) ==
  \E l \in Expectable : l.holder = n /\ Call(n, ReleaseCmd(l))
SetPaused(n) == \E p \in PauseArgs : Call(n, PausedCmd(p))
SetSwitchover(n) == \E t \in SwitchoverArgs : Call(n, SwitchoverCmd(t))

Answer(n, reply, lease) ==
  call' = [call EXCEPT ![n].stage = "done", ![n].reply = reply,
                       ![n].lease = lease]

(* client_write failed: forward to the believed leader, or fail when none  *)
(* is known.  The local entry, if there is one, stays where it is.         *)
LocalFails(n) ==
  /\ call[n].stage = "local"
  /\ \/ /\ call' = [call EXCEPT ![n].stage = "forwarded"]
        /\ net' = net \cup {[by |-> n, call |-> call[n].id, cmd |-> call[n].cmd]}
     \/ Answer(n, "Err", Vacant) /\ UNCHANGED net
  /\ UNCHANGED <<cluster, log, calls, appended, grants>>

(* The forwarded request reaches a leader and is appended there.           *)
Arrive(m) ==
  /\ net' = net \ {m}
  /\ Append("forwarded", m.by, m.call, m.cmd)
  /\ UNCHANGED <<cluster, call, calls, grants>>

(* The forwarded request's error or timeout reaches the caller.            *)
ForwardFails(n) ==
  /\ call[n].stage = "forwarded"
  /\ Answer(n, "Err", Vacant)
  /\ UNCHANGED <<cluster, log, net, calls, appended, grants>>

LoseEntry(e) ==
  /\ log' = log \ {e}
  /\ UNCHANGED <<cluster, net, call, calls, appended, grants>>

NewGrants(e) ==
  IF e.cmd.op = "takeover" /\ TakeoverWins(cluster, e.cmd.lease)
  THEN {[call |-> e.call, expected |-> e.cmd.lease,
         lease |-> ApplyCommand(cluster, e.cmd).lease]}
  ELSE {}

(* The oldest entry commits and is applied; the answer reaches the caller  *)
(* if that call is still waiting for this very write, or is lost on the    *)
(* way.                                                                    *)
Commit(e) ==
  /\ \A x \in log : e.at <= x.at
  /\ log' = log \ {e}
  /\ cluster' = ApplyCommand(cluster, e.cmd)
  /\ grants' = grants \cup NewGrants(e)
  /\ \/ /\ call[e.by].id = e.call
        /\ call[e.by].stage = e.via
        /\ Answer(e.by, Outcome(cluster, e.cmd), cluster'.lease)
     \/ UNCHANGED call
  /\ UNCHANGED <<net, calls, appended>>

Return(n) ==
  /\ call[n].stage = "done"
  /\ call' = [call EXCEPT ![n] = Idle]
  /\ UNCHANGED <<cluster, log, net, calls, appended, grants>>

Next ==
  \/ \E n \in Node : \/ TryTakeover(n)
                     \/ Release(n)
                     \/ SetPaused(n)
                     \/ SetSwitchover(n)
                     \/ LocalFails(n)
                     \/ ForwardFails(n)
                     \/ Return(n)
  \/ \E m \in net : Arrive(m)
  \/ \E e \in log : Commit(e) \/ LoseEntry(e)

Spec == Init /\ [][Next]_vars

-----------------------------------------------------------------------------
Reply == {"none", "Won", "Lost", "Released", "NotHolder", "Ack", "Err"}

LogEntry == [at : Nat, via : {"local", "forwarded"}, by : Node,
             call : Nat, cmd : ConsensusCommand]
CallRecord == [stage : {"idle", "local", "forwarded", "done"}, id : Nat,
               cmd : ConsensusCommand, reply : Reply, lease : AnyLease]

(* Every variable stays in its type; in particular a release always names  *)
(* a lease somebody held (`release`, raftconsensus.rs).                    *)
TypeOK ==
  /\ cluster \in ClusterState
  /\ log \in SUBSET LogEntry
  /\ net \in SUBSET [by : Node, call : Nat, cmd : ConsensusCommand]
  /\ call \in [Node -> CallRecord]
  /\ calls \in Nat
  /\ appended \in Nat
  /\ grants \in SUBSET [call : Nat, expected : AnyLease, lease : HeldLease]

(* "Fencing token, strictly monotonic across holder changes": no term is   *)
(* granted twice, whatever was vacated, retried or committed late.         *)
TermsUnique ==
  \A g, h \in grants : g.lease.term = h.lease.term => g = h

(* Of all the candidates that saw the same held lease, at most one ever    *)
(* deposes it, and none deposes it twice, however often `propose` sent the *)
(* takeover: the CAS of apply_command is what makes the retry safe.        *)
OneSuccessor ==
  \A g, h \in grants : g.expected = h.expected /\ g.expected # Vacant => g = h

(* The lease in force is the last one granted.                             *)
LatestInForce ==
  /\ cluster.lease # Vacant => \E g \in grants : g.lease = cluster.lease
  /\ cluster.lease # Vacant =>
       \A g \in grants : g.lease.term <= cluster.lease.term

(* A caller that was answered Won was granted exactly the lease it was     *)
(* shown, by this call and for itself, even when its command is in the log *)
(* twice.  Promotion rests on it (`TookOver`, ha.rs).                      *)
WonIsTrue ==
  \A n \in Node : call[n].reply = "Won" =>
    /\ call[n].lease.holder = n
    /\ \E g \in grants : g.call = call[n].id /\ g.lease = call[n].lease

(* "A stale holder cannot clobber its successor's lease" (`release`,       *)
(* consensus.rs): the lease becomes vacant only by the commit of a release *)
(* that its own holder issued for that very term.                          *)
VacatesOwn ==
  cluster.lease # Vacant /\ cluster'.lease = Vacant =>
    \E e \in log : /\ e \notin log'
                   /\ e.by = cluster.lease.holder
                   /\ e.cmd = ReleaseCmd(cluster.lease)
NoClobber == [][VacatesOwn]_vars

(* The store implements the abstract lease.                                *)
AL == INSTANCE AbstractLease WITH lease <- cluster.lease,
                                  granted <- {g.lease : g \in grants}
ImplementsLease == AL!ASpec
=============================================================================
