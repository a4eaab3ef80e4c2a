------------------------------ MODULE Handoff ------------------------------
(***************************************************************************)
(* Planned role swap and what follows it (localserver.rs): cluster_handoff *)
(* and its phase ladder, the fan-out that rebases the other standbys,      *)
(* pgpool's follow_primary hook, allow_async, and the operator's resume    *)
(* and abandon over the in-flight journal.  Planned work is done on a      *)
(* paused cluster: the HA loop takes no role decision meanwhile (HaLoop's  *)
(* TickPaused), and nothing here touches the lease.                        *)
(*                                                                         *)
(* A ladder is a sequence of steps.  A driver applies a step's effect and  *)
(* only then journals the phase, so a crash can fall between the two.  A   *)
(* failed DropSlot, which is queued for the maintenance worker (module     *)
(* Maintenance), leaves the slot where it is.                              *)
(***************************************************************************)
EXTENDS StandbyOps, FiniteSets, Sequences

CONSTANTS Primary,      \* the primary at the start
          MaxOps,       \* bound: operations an operator or pgpool starts
          MaxFaults,    \* bound: faults in one behaviour
          FaultKinds,   \* which of them happen
          Overlap       \* TRUE: work is started while other work is open

ASSUME HandoffAssumption ==
  /\ IsFiniteSet(Node) /\ Primary \in Node
  /\ NoNode \notin Node
  /\ MaxOps \in Nat /\ MaxFaults \in Nat
  /\ Overlap \in BOOLEAN

VARIABLES journal,   \* journal[n]: the operations begun on n, oldest first
          drivers,   \* the tasks that drive an operation, of every daemon
          ops,       \* operations an operator or pgpool may still start
          faults     \* faults left

vars == <<inst, slots, journal, drivers, ops, faults>>

(* Mutants: the local stop comes first; the copy comes before the stop.    *)
StopFirst == [handoff     |-> <<"stop", "promote", "slot", "copy", "conf", "start",
                                "attach", "complete">>,
              follow      |-> <<"dial", "stop", "slot", "copy", "conf", "start",
                                "attach", "complete">>,
              hook        |-> <<"stop", "slot", "copy", "conf", "start", "attach">>,
              allow_async |-> <<"clear">>]
CopyFirst == [StopFirst EXCEPT !.handoff =
                <<"promote", "slot", "copy", "stop", "conf", "start", "attach", "complete">>]

(* HANDOFF_PHASES, FP_PHASES: phase k of an operation says that the first  *)
(* k steps are journaled.  The last step of a journaled ladder ends the    *)
(* operation; allow_async has no phases and ends after its one call.       *)
Ladder == [handoff     |-> <<"promote", "slot", "stop", "copy", "conf", "start",
                             "attach", "complete">>,
           follow      |-> <<"dial", "stop", "slot", "copy", "conf", "start",
                             "attach", "complete">>,
           hook        |-> <<"stop", "slot", "copy", "conf", "start", "attach">>,
           allow_async |-> <<"clear">>]

(* An operation rebuilds `node` as a standby of `primary`.                 *)
InflightOp == [kind    : {"handoff", "follow", "allow_async"},
               node    : Node, primary : Node,
               phase   : 0..7,
               status  : {"InProgress", "Done", "Abandoned"}]

(* The hook keeps no journal entry: its driver names operation 0.          *)
Driver == [host : Node, op : Nat, kind : DOMAIN Ladder, node : Node, primary : Node,
           at   : 1..8,                                  \* the step it is at
           sub  : {"todo", "wiped", "half", "done", "fanout"},
           who  : {"first", "resumed"}]

Step(d) == Ladder[d.kind][d.at]
Entry(d) == journal[d.host][d.op]
Driven(h, i) == \E d \in drivers : d.host = h /\ d.op = i

Init ==
  /\ inst = [n \in Node |->
               [running |-> TRUE, primary |-> n = Primary, promoting |-> FALSE,
                stray |-> FALSE, data |-> "good", line |-> 1,
                conf |-> IF n = Primary THEN NoNode ELSE Primary,
                signal |-> n # Primary]]
  /\ slots = [n \in Node |-> IF n = Primary THEN Node \ {Primary} ELSE {}]
  /\ journal = [n \in Node |-> <<>>]
  /\ drivers = {}
  /\ ops = MaxOps
  /\ faults = MaxFaults

Fault(kind) == kind \in FaultKinds /\ faults > 0 /\ faults' = faults - 1

-----------------------------------------------------------------------------
(* The journal of one daemon.                                              *)
InProgress(h) == {i \in DOMAIN journal[h] : journal[h][i].status = "InProgress"}
SameKey(h, kind, n, p) ==
  {i \in DOMAIN journal[h] : /\ journal[h][i].kind = kind
                             /\ journal[h][i].node = n
                             /\ journal[h][i].primary = p}
NewOp(kind, n, p) == [kind |-> kind, node |-> n, primary |-> p, phase |-> 0,
                      status |-> "InProgress"]
NewDriver(h, i, kind, n, p) ==
  [host |-> h, op |-> i, kind |-> kind, node |-> n, primary |-> p,
   at |-> 1, sub |-> "todo", who |-> "first"]

(* `begin`: an exclusive operation waits for every other one to end.       *)
Begin(h, kind, n, p) ==
  /\ ops > 0
  /\ ops' = ops - 1
  /\ IF kind = "handoff"
       THEN InProgress(h) = {}
       ELSE SameKey(h, kind, n, p) \cap InProgress(h) = {}
  /\ journal' = [journal EXCEPT ![h] = Append(@, NewOp(kind, n, p))]
  /\ drivers' = drivers \cup {NewDriver(h, Len(journal[h]) + 1, kind, n, p)}
  /\ UNCHANGED <<inst, slots, faults>>

(* Nothing in the code keeps the work of two hosts apart: a journal knows  *)
(* its own host only.  Unless Overlap is set, it is started one at a time  *)
(* and in a cluster that has one primary.                                  *)
Orderly ==
  Overlap \/ /\ drivers = {}
             /\ \A m \in Node : InProgress(m) = {}
             /\ Cardinality({m \in Node : Serving(m)}) = 1

(* cluster_handoff on the primary h, up to the first step of the ladder.   *)
(* A key whose latest operation is Done is taken for a repetition of it,   *)
(* and one in progress is refused; so is a target that is not a running    *)
(* standby.  The lag limit, which --allow-lag lifts, is not modelled.      *)
ClusterHandoff(h, p) ==
  /\ Serving(h)
  /\ p # h
  /\ LET earlier == SameKey(h, "handoff", h, p) IN
       earlier # {} => journal[h][Max(earlier)].status = "Abandoned"
  /\ inst[p].running /\ ~inst[p].primary
  /\ Orderly
  /\ Begin(h, "handoff", h, p)

(* allow_async on the primary: its one step clears the synchronous list.   *)
AllowAsync(h) ==
  /\ Serving(h)
  /\ Begin(h, "allow_async", h, h)

(* pgpool's follow_primary, run on the new primary h for another member n: *)
(* a stopped one is left alone.  pgpool fires it after the primary changed.*)
FollowPrimaryHook(h, n) ==
  /\ ops > 0
  /\ Orderly
  /\ n # h /\ Serving(h) /\ inst[h].line > 1 /\ inst[n].running
  /\ ops' = ops - 1
  /\ drivers' = drivers \cup {NewDriver(h, 0, "hook", n, h)}
  /\ UNCHANGED <<inst, slots, journal, faults>>

-----------------------------------------------------------------------------
Moves(d, e) == drivers' = (drivers \ {d}) \cup {e}
Ends(d) == drivers' = drivers \ {d}

(* Whether the call of a step can succeed where things stand.              *)
Able(d) ==
  CASE Step(d) = "promote" -> inst[d.node].running /\ Promotable(d.primary)
    [] Step(d) = "slot"    -> inst[d.primary].running
    [] Step(d) = "copy"    -> IF d.sub = "wiped" THEN CopyPossible(d.primary)
                                                ELSE Rewindable(d.node, d.primary)
    [] Step(d) = "start"   -> inst[d.node].data = "good"
    [] Step(d) = "clear"   -> inst[d.node].running
    [] OTHER               -> TRUE

(* The calls that change an instance, in the order the ladder makes them.  *)
(* write_recovery_conf is two writes, and a copy that falls back to        *)
(* basebackup wipes before it copies.                                      *)
StepEffect(d) ==
  CASE Step(d) = "promote"                  -> Signalled(d.primary)
    [] Step(d) = "stop"                     -> Stopped(d.node)
    [] Step(d) = "copy" /\ d.sub = "todo"   -> Rewound(d.node, d.primary)
    [] Step(d) = "copy" /\ d.sub = "wiped"  -> Copied(d.node, d.primary)
    [] Step(d) = "conf" /\ d.sub = "todo"   -> ConfWritten(d.node, d.primary)
    [] Step(d) = "conf" /\ d.sub = "half"   -> SignalWritten(d.node)
    [] Step(d) = "start"                    -> Started(d.node)
    [] OTHER                                -> inst

(* drive_follow_primary skips a standby it finds stopped.                  *)
Skips(d) == d.kind = "follow" /\ Step(d) = "stop" /\ ~inst[d.node].running

Do(d) ==
  /\ d.sub \in {"todo", "wiped", "half"} /\ Able(d) /\ ~Skips(d)
  /\ Step(d) # "complete"
  /\ inst' = StepEffect(d)
  /\ slots' = CASE Step(d) = "slot" -> SlotCreated(d.primary, d.node)
                [] Step(d) = "copy" -> SlotsCleaned(d.node)
                [] OTHER            -> slots
  /\ Moves(d, [d EXCEPT !.sub = IF Step(d) = "conf" /\ @ = "todo" THEN "half" ELSE "done"])
  /\ UNCHANGED <<journal, ops, faults>>

(* The rewind failed: `basebackup` empties the directory.  For a standby   *)
(* driven through its peer service, that service looks at the unit first.  *)
Fallback(d) ==
  /\ Step(d) = "copy" /\ d.sub = "todo"
  /\ \/ ~Able(d) /\ UNCHANGED faults
     \/ Able(d) /\ Fault("rewind")
  /\ d.kind # "handoff" => ~inst[d.node].running
  /\ inst' = Cleared(d.node)
  /\ slots' = SlotsCleaned(d.node)
  /\ Moves(d, [d EXCEPT !.sub = "wiped"])
  /\ UNCHANGED <<journal, ops>>

(* update_phase: the step is journaled, unless the operator has abandoned  *)
(* the operation meanwhile.                                                *)
Journal(d) ==
  /\ d.sub = "done" /\ d.op # 0 /\ d.at < Len(Ladder[d.kind])
  /\ IF Entry(d).status = "InProgress"
       THEN /\ journal' = [journal EXCEPT ![d.host][d.op].phase = d.at]
            /\ Moves(d, [d EXCEPT !.at = @ + 1, !.sub = "todo"])
       ELSE /\ journal' = IF d.kind = "follow"
                            THEN [journal EXCEPT ![d.host][d.op].status = "Abandoned"]
                            ELSE journal
            /\ Ends(d)
  /\ UNCHANGED <<inst, slots, ops, faults>>

(* The hook goes from call to call.                                        *)
HookStep(d) ==
  /\ d.op = 0 /\ d.sub = "done"
  /\ IF d.at < Len(Ladder.hook)
       THEN Moves(d, [d EXCEPT !.at = @ + 1, !.sub = "todo"])
       ELSE Ends(d)
  /\ UNCHANGED <<inst, slots, journal, ops, faults>>

(* `complete` once the last phase is journaled, at the step that was       *)
(* skipped, or after the call of allow_async.  It does not look at the     *)
(* status it overwrites.  The first driver of a handoff goes on to the     *)
(* fan-out.                                                                *)
Complete(d) ==
  /\ d.op # 0
  /\ \/ d.sub = "todo" /\ (Step(d) = "complete" \/ Skips(d))
     \/ d.sub = "done" /\ d.at = Len(Ladder[d.kind])
  /\ journal' = [journal EXCEPT ![d.host][d.op].status = "Done"]
  /\ IF d.kind = "handoff" /\ d.who = "first"
       THEN Moves(d, [d EXCEPT !.sub = "fanout"])
       ELSE Ends(d)
  /\ UNCHANGED <<inst, slots, ops, faults>>

(* fan_out_follow_primary: member by member, an operation is begun and the *)
(* task that drives it spawned, beside the tasks of the members before.    *)
FanOut(d) ==
  /\ d.sub = "fanout"
  /\ LET h == d.host
         left == {m \in Node \ {h, d.primary} :
                    \A i \in SameKey(h, "follow", m, d.primary) :
                      i <= d.op /\ i \notin InProgress(h)}
     IN \/ \E m \in left :
             /\ journal' = [journal EXCEPT ![h] = Append(@, NewOp("follow", m, d.primary))]
             /\ drivers' = drivers \cup
                  {NewDriver(h, Len(journal[h]) + 1, "follow", m, d.primary)}
        \/ left = {} /\ Ends(d) /\ UNCHANGED journal
  /\ UNCHANGED <<inst, slots, ops, faults>>

(* A step fails.  After both copies failed a handoff drops the slot and    *)
(* gives up; any other failure leaves its entry in progress.  A follow     *)
(* always ends Abandoned, and from the copy to the start it drops the slot *)
(* (so does the hook).  A failed attach is only noted by a handoff.        *)
Fail(d) ==
  /\ d.sub \in {"todo", "wiped", "half"} /\ ~Skips(d)
  /\ Step(d) # "complete"
  /\ Step(d) = "copy" /\ d.sub = "todo" => d.kind # "handoff" /\ inst[d.node].running
  /\ ~(d.kind = "handoff" /\ Step(d) = "attach")
  /\ \/ ~Able(d) /\ UNCHANGED faults
     \/ Able(d) /\ Fault("step")
  /\ LET cleans == IF d.kind = "handoff" THEN Step(d) = "copy"
                                         ELSE Step(d) \in {"copy", "conf", "start"}
         gives_up == d.op # 0 /\ (d.kind # "handoff" \/ cleans)
     IN /\ \/ cleans /\ slots' = SlotDropped(d.primary, d.node)
           \/ slots' = slots
        /\ journal' = IF gives_up
                        THEN [journal EXCEPT ![d.host][d.op].status = "Abandoned"]
                        ELSE journal
  /\ Ends(d)
  /\ UNCHANGED <<inst, ops>>

-----------------------------------------------------------------------------
(* Mutant: off by one, the written configuration is taken for a start.     *)
VerifyEarly(op) ==
  /\ inst[op.primary].running
  /\ inst[op.primary].primary <=> op.phase >= 1
  /\ op.phase >= 1 => (inst[op.node].running <=> op.phase \notin 3..4)
  /\ op.phase >= 6 => ~inst[op.node].primary

(* verify_handoff_state: the cluster must look as the recorded phase says. *)
(* Before the promotion only the target is asked, and a stopped one does   *)
(* not answer that it is in recovery.                                      *)
VerifyHandoffState(op) ==
  /\ inst[op.primary].running
  /\ inst[op.primary].primary <=> op.phase >= 1
  /\ op.phase >= 1 => (inst[op.node].running <=> op.phase \notin 3..5)
  /\ op.phase >= 6 => ~inst[op.node].primary

Resumed(h, i) ==
  LET op == journal[h][i] IN
  drivers' = drivers \cup {[NewDriver(h, i, op.kind, op.node, op.primary) EXCEPT
                               !.who = "resumed", !.at = op.phase + 1]}

(* resume_handoff checks the cluster first, resume_follow_primary re-enters*)
(* the ladder unverified.                                                  *)
ResumeHandoff(h, i) ==
  /\ journal[h][i].kind = "handoff"
  /\ VerifyHandoffState(journal[h][i])
  /\ Resumed(h, i)
ResumeFollowPrimary(h, i) ==
  /\ journal[h][i].kind = "follow"
  /\ Resumed(h, i)

(* ResumeInflightOp: nothing looks for a task that still drives the        *)
(* operation.  An allow_async is not resumed.                              *)
ResumeInflightOp(h, i) ==
  /\ journal[h][i].status = "InProgress"
  /\ Driven(h, i) => Overlap /\ \A d \in drivers : d.who = "first"
  /\ ResumeHandoff(h, i) \/ ResumeFollowPrimary(h, i)
  /\ UNCHANGED <<inst, slots, journal, ops, faults>>

(* AbandonInflightOp: the driver, if one lives, is not told.               *)
AbandonInflightOp(h, i) ==
  /\ journal[h][i].status = "InProgress"
  /\ Driven(h, i) => Fault("abandon")
  /\ ~Driven(h, i) => UNCHANGED faults
  /\ journal' = [journal EXCEPT ![h][i].status = "Abandoned"]
  /\ UNCHANGED <<inst, slots, drivers, ops>>

(* The daemon of h dies and takes its tasks with it.                       *)
DaemonCrash(h) ==
  /\ Fault("crash")
  /\ \E d \in drivers : d.host = h
  /\ drivers' = {d \in drivers : d.host # h}
  /\ UNCHANGED <<inst, slots, journal, ops>>

(* The operator stops a standby for its own maintenance, one that no open  *)
(* operation has begun to rebuild.                                         *)
OperatorStop(n) ==
  /\ Fault("opstop")
  /\ \A d \in drivers : d.node = n => d.at <= 2
  /\ \A h \in Node : \A i \in InProgress(h) :
       journal[h][i].node = n => journal[h][i].phase <= 1
  /\ inst[n].running /\ ~inst[n].primary /\ ~inst[n].promoting
  /\ inst' = Stopped(n)
  /\ UNCHANGED <<slots, journal, drivers, ops>>

(* A promotion comes to its end, a client writes to a primary another      *)
(* instance is about to replace or has replaced, and a standby streams     *)
(* over a timeline switch of its upstream.                                 *)
PromotionEnds(n) ==
  /\ inst[n].promoting
  /\ inst' = Promoted(n)
  /\ UNCHANGED <<slots, journal, drivers, ops, faults>>
StrayWrite(n) ==
  /\ Serving(n) /\ ~inst[n].stray
  /\ \E m \in Node : inst[m].promoting \/ inst[m].line > inst[n].line
  /\ inst' = [inst EXCEPT ![n].stray = TRUE]
  /\ UNCHANGED <<slots, journal, drivers, ops, faults>>
CatchUp(n) ==
  /\ inst[n].running /\ ~inst[n].primary /\ ~inst[n].stray
  /\ inst[n].conf # NoNode
  /\ Serving(inst[n].conf) /\ inst[n].line < inst[inst[n].conf].line
  /\ inst' = [inst EXCEPT ![n].line = inst[inst[n].conf].line]
  /\ UNCHANGED <<slots, journal, drivers, ops, faults>>

DriverStep(d) ==
  \/ Do(d)
  \/ Fallback(d)
  \/ Journal(d)
  \/ HookStep(d)
  \/ Complete(d)
  \/ FanOut(d)
  \/ Fail(d)

Next ==
  \/ \E d \in drivers : DriverStep(d)
  \/ \E h \in Node :
       \/ \E p \in Node : ClusterHandoff(h, p)
       \/ AllowAsync(h)
       \/ \E n \in Node : FollowPrimaryHook(h, n)
       \/ \E i \in DOMAIN journal[h] : ResumeInflightOp(h, i) \/ AbandonInflightOp(h, i)
       \/ DaemonCrash(h)
       \/ OperatorStop(h)
       \/ PromotionEnds(h)
       \/ StrayWrite(h)
       \/ CatchUp(h)

Spec == Init /\ [][Next]_vars

-----------------------------------------------------------------------------
TypeOK ==
  /\ inst \in [Node -> Instance]
  /\ slots \in [Node -> SUBSET Node]
  /\ journal \in [Node -> Seq(InflightOp)]
  /\ drivers \subseteq Driver
  /\ ops \in 0..MaxOps /\ faults \in 0..MaxFaults

(* A planned handoff never leaves the cluster without a primary, whatever  *)
(* fails, dies, is resumed or abandoned on the way: the local instance is  *)
(* stopped only once the target has been told to promote.                  *)
SomePrimary == \E n \in Node : Serving(n) \/ inst[n].promoting

(* The deposed primary does not serve again: from the journaled stop until *)
(* the end of its handoff, the node that gave the role away never runs out *)
(* of recovery, since recovery configuration and standby.signal are both   *)
(* on disk before the start.                                               *)
DeposedStaysDown ==
  \A h \in Node : \A i \in InProgress(h) :
    LET op == journal[h][i] IN
      op.kind = "handoff" /\ op.phase >= 3 => ~Serving(op.node)

(* The role moves and is never lost or doubled by the node that gave it    *)
(* away (run_handoff_from_phase): both of the above, in typed states.      *)
RoleHandedOver == TypeOK /\ SomePrimary /\ DeposedStaysDown

CompletesInto(Good(_, _)) ==
  \A h \in Node : \A i \in InProgress(h) :
    LET op == journal[h][i] IN
      journal'[h][i].status = "Done" /\ op.kind # "allow_async"
        => \/ Good(op.node, op.primary) /\ op.node \in slots[op.primary]
           \/ op.kind = "follow" /\ op.phase = 1 /\ ~inst[op.node].running

(* An operation that ends Done leaves its node running as a standby of the *)
(* new primary, with its slot there; the one exception is a standby that   *)
(* drive_follow_primary found stopped.                                     *)
CompletedFollows == [][CompletesInto(Follows)]_vars

(* What "handoff complete: local demoted to standby" tells the operator:   *)
(* the standby can stream, it has no WAL that the new timeline lacks.      *)
CompletedStreams == [][CompletesInto(Streams)]_vars

(* basebackup empties a data directory no running instance is using:       *)
(* pgstandby.rs leaves that check to its callers.                          *)
WipeOnlyStopped ==
  [][\A n \in Node : inst[n].data = "good" /\ inst'[n].data = "gone"
                       => ~inst[n].running]_vars

(* A handoff that has lost its driver can be resumed, unless the driver    *)
(* died after a promote, a stop or a start took effect and before the      *)
(* phase was journaled: verify_handoff_state then finds the cluster one    *)
(* step ahead of the journal.  (Or the promotion has not ended yet, or an  *)
(* operator has stopped a standby that takes part.)                        *)
StuckOnlyInWindow ==
  \A h \in Node : \A i \in InProgress(h) :
    LET op == journal[h][i]
    IN /\ op.kind = "handoff"
       /\ ~Driven(h, i)
       => \/ VerifyHandoffState(op)
          \/ op.phase = 0 /\ inst[op.primary].primary
          \/ op.phase = 2 /\ ~inst[op.node].running
          \/ op.phase = 5 /\ inst[op.node].running
          \/ op.phase >= 1 /\ inst[op.primary].promoting
          \/ ~inst[op.primary].running
          \/ op.phase >= 6 /\ ~inst[op.node].running

(* What the comment on the ladder says: after a crash, resume picks up at  *)
(* the phase the journal holds.                                            *)
ResumePicksUp ==
  \A h \in Node : \A i \in InProgress(h) :
    journal[h][i].kind = "handoff" /\ ~Driven(h, i) => VerifyHandoffState(journal[h][i])
=============================================================================
