--------------------------- MODULE SlotOwnership ---------------------------
(***************************************************************************)
(* Who may drop a replication slot.  One primary hosts a slot per standby. *)
(* `cluster recover` (localserver.rs) rebuilds a standby through its slot; *)
(* three other paths drop slots: pgpool's failover hook for a standby that *)
(* went down, which comes late; a drop request of a peer, which may be     *)
(* stale; and the maintenance worker.  Each of the three consults the      *)
(* journal first, and each has awaits between the consult and the drop.    *)
(*                                                                         *)
(* A recovery is a task per journal entry.  A crash of the daemon ends all *)
(* tasks and handlers; journal, queue and replay markers are files.  The   *)
(* replay key of the hook is (detached, new_main, old_primary): with this  *)
(* primary in office it is the standby.  Reading the journal is assumed to *)
(* succeed (a guard that cannot read it proceeds unguarded).               *)
(***************************************************************************)
EXTENDS Maintenance

CONSTANTS MaxOps,       \* bound: recoveries begun
          MaxIntents,   \* bound: intents queued
          MaxFaults,    \* bound: faults and rare events in a behaviour
          FaultKinds    \* which of them this instance may meet

ASSUME SlotAssumption == {MaxOps, MaxIntents, MaxFaults} \subseteq Nat
                         /\ MaxAttempts \in Nat \ {0}

VARIABLES standby,   \* each member: is it up, can its data directory start
          task,      \* the step each recovery is at, by journal id
          handler,   \* the failover hook and the peer's drop request
          reported,  \* members whose failure pgpool has yet to act on
          markers,   \* replay markers of the failover hook
          faults     \* faults still to come

vars == <<journal, slot, db, queue, worker, retry, window,
          standby, task, handler, reported, markers, faults>>

Fault(kind) == kind \in FaultKinds /\ faults > 0 /\ faults' = faults - 1

Free == [at |-> "free", node |-> 0, saw |-> 0]
Live(i) == task[i] # "gone"
Busy(h) == handler[h].at # "free"

(* Every recovery and every hook in progress may still queue one intent.   *)
Room ==
  Len(queue) + Cardinality({i \in Op : Live(i)})
             + (IF Busy("hook") THEN 1 ELSE 0) < MaxIntents

Init ==
  /\ journal = <<>> /\ task = <<>> /\ queue = <<>>
  /\ slot = [n \in Standby |-> "active"]
  /\ standby = [n \in Standby |-> [up |-> TRUE, ready |-> TRUE]]
  /\ db = TRUE
  /\ worker = Asleep /\ retry = NoRetry
  /\ window = [n \in Standby |-> 0]
  /\ handler = [h \in {"hook", "peer"} |-> Free]
  /\ reported = {} /\ markers = {}
  /\ faults = MaxFaults

-----------------------------------------------------------------------------
(* `recovery_first_stage`, as `cluster_recover` calls it: the target is    *)
(* down, stopped by the preflight if it was not, and the dedup of an       *)
(* earlier completion is bypassed.                                         *)
RecoverBegin(n) ==
  /\ ~standby[n].up
  /\ MayBegin(n)
  /\ Len(journal) < MaxOps /\ Room
  /\ journal' = Begun(n)
  /\ task' = Append(task, "create")
  /\ UNCHANGED <<slot, db, queue, worker, retry, window, standby, handler,
                 reported, markers, faults>>

(* CHECKPOINT and create_slot; an existing slot is as good as a new one.   *)
(* A failure abandons the entry: there is nothing to clean up.             *)
RecoverCreate(i) ==
  /\ task[i] = "create"
  /\ LET n == journal[i].target
     IN \/ /\ db
           /\ slot' = [slot EXCEPT ![n] = IF @ = "none" THEN "idle" ELSE @]
           /\ window' = [window EXCEPT ![n] =
                IF journal[i].status = "InProgress" /\ slot'[n] = "idle"
                THEN i ELSE @]
           /\ task' = [task EXCEPT ![i] = "copy"]
        \/ /\ ~db
           /\ task' = [task EXCEPT ![i] = "abandon"]
           /\ UNCHANGED <<slot, window>>
  /\ UNCHANGED <<journal, db, queue, worker, retry, standby, handler,
                 reported, markers, faults>>

(* The peer may be out of reach, and `peer.basebackup` refuses a target    *)
(* that runs; otherwise it wipes the data directory before it copies, and  *)
(* may fail after that.                                                    *)
RecoverCopy(i) ==
  /\ task[i] = "copy"
  /\ LET n == journal[i].target
     IN \/ /\ \/ standby[n].up /\ UNCHANGED faults
              \/ Fault("copy")
           /\ task' = [task EXCEPT ![i] = "cleanup"]
           /\ UNCHANGED standby
        \/ /\ ~standby[n].up
           /\ standby' = [standby EXCEPT ![n].ready = FALSE]
           /\ \/ /\ task' = [task EXCEPT ![i] = "configure"]
                 /\ UNCHANGED faults
              \/ /\ Fault("copy")
                 /\ task' = [task EXCEPT ![i] = "cleanup"]
  /\ UNCHANGED <<journal, slot, db, queue, worker, retry, window, handler,
                 reported, markers>>

(* `peer.configure_standby`: now the data directory can start.             *)
RecoverConfigure(i) ==
  /\ task[i] = "configure"
  /\ \/ /\ standby' = [standby EXCEPT ![journal[i].target].ready = TRUE]
        /\ task' = [task EXCEPT ![i] = "complete"]
        /\ UNCHANGED faults
     \/ /\ Fault("configure")
        /\ task' = [task EXCEPT ![i] = "cleanup"]
        /\ UNCHANGED standby
  /\ UNCHANGED <<journal, slot, db, queue, worker, retry, window, handler,
                 reported, markers>>

RecoverComplete(i) ==
  /\ task[i] = "complete"
  /\ journal' = Completed(i)
  /\ task' = [task EXCEPT ![i] = "start"]
  /\ UNCHANGED <<slot, db, queue, worker, retry, window, standby, handler,
                 reported, markers, faults>>

(* The start of the target is a gate: when it fails the call ends.  The    *)
(* steps after it only tell pgpool.                                        *)
RecoverStart(i) ==
  /\ task[i] = "start"
  /\ \/ /\ standby' = [standby EXCEPT ![journal[i].target].up =
                         standby[journal[i].target].ready]
        /\ UNCHANGED faults
     \/ Fault("start") /\ UNCHANGED standby
  /\ task' = [task EXCEPT ![i] = "gone"]
  /\ UNCHANGED <<journal, slot, db, queue, worker, retry, window, handler,
                 reported, markers>>

(* `cleanup_slot_after_failure`: drop the slot, or queue its drop.         *)
RecoverCleanup(i) ==
  /\ task[i] = "cleanup"
  /\ LET n == journal[i].target
     IN /\ \/ /\ Droppable(n)
              /\ slot' = Dropped(n)
              /\ UNCHANGED queue
           \/ /\ ~Droppable(n)
              /\ queue' = Queued(n)
              /\ UNCHANGED slot
        /\ window' = [window EXCEPT ![n] = IF @ = i THEN 0 ELSE @]
  /\ task' = [task EXCEPT ![i] = "abandon"]
  /\ UNCHANGED <<journal, db, worker, retry, standby, handler, reported,
                 markers, faults>>

(* The `fail!` macro: the journal entry is abandoned last.                 *)
RecoverAbandon(i) ==
  /\ task[i] = "abandon"
  /\ journal' = Abandoned(i)
  /\ task' = [task EXCEPT ![i] = "gone"]
  /\ UNCHANGED <<slot, db, queue, worker, retry, window, standby, handler,
                 reported, markers, faults>>

(* `abandon_inflight_op`: an entry in progress is marked, nothing more;    *)
(* whether its task still runs is not looked at.                           *)
AbandonOp(i) ==
  /\ Fault("abandon")
  /\ journal[i].status = "InProgress"
  /\ journal' = [Abandoned(i) EXCEPT ![i].operator = TRUE]
  /\ window' = [window EXCEPT ![journal[i].target] =
                  IF @ = i THEN 0 ELSE @]
  /\ UNCHANGED <<slot, db, queue, worker, retry, standby, task, handler,
                 reported, markers>>

-----------------------------------------------------------------------------
(* `failover`, standby down.  A marker ends it; an owner ends it and       *)
(* writes the marker.                                                      *)
HookConsult(n) ==
  /\ n \in reported /\ ~Busy("hook") /\ Room
  /\ reported' = reported \ {n}
  /\ \/ /\ n \in markers
        /\ UNCHANGED <<journal, markers, handler>>
     \/ /\ n \notin markers
        /\ journal' = Consulted(n, SeenActive(n))
        /\ \/ /\ Owned(n, SeenActive(n))
              /\ markers' = markers \cup {n}
              /\ UNCHANGED handler
           \/ /\ ~Owned(n, SeenActive(n))
              /\ handler' = [handler EXCEPT !["hook"] =
                    [at |-> "probe", node |-> n, saw |-> window[n]]]
              /\ UNCHANGED markers
  /\ UNCHANGED <<slot, db, queue, worker, retry, window, standby, task,
                 faults>>

(* The precondition: a standby that is seen streaming is not dropped, and  *)
(* no marker is written.  One that cannot be asked is taken for down.      *)
HookProbe ==
  /\ handler["hook"].at = "probe"
  /\ \/ /\ slot[handler["hook"].node] = "active"
        /\ handler' = [handler EXCEPT !["hook"] = Free]
        /\ UNCHANGED faults
     \/ /\ \/ slot[handler["hook"].node] # "active" /\ UNCHANGED faults
           \/ Fault("unasked")
        /\ handler' = [handler EXCEPT !["hook"].at = "drop"]
  /\ UNCHANGED <<journal, slot, db, queue, worker, retry, window, standby,
                 task, reported, markers>>

(* The drop, or its intent.                                                *)
HookDrop ==
  /\ handler["hook"].at = "drop"
  /\ LET n == handler["hook"].node
     IN \/ /\ Droppable(n)
           /\ slot' = Dropped(n)
           /\ UNCHANGED queue
        \/ /\ ~Droppable(n)
           /\ queue' = Queued(n)
           /\ UNCHANGED slot
  /\ handler' = [handler EXCEPT !["hook"].at = "mark"]
  /\ UNCHANGED <<journal, db, worker, retry, window, standby, task,
                 reported, markers, faults>>

HookMark ==
  /\ handler["hook"].at = "mark"
  /\ markers' = markers \cup {handler["hook"].node}
  /\ handler' = [handler EXCEPT !["hook"] = Free]
  /\ UNCHANGED <<journal, slot, db, queue, worker, retry, window, standby,
                 task, reported, faults>>

(* `PeerServer::drop_slot`, called by another node's clean-up or queue     *)
(* long after its reason: refused with ok when the slot has an owner.      *)
PeerConsult(n) ==
  /\ Fault("stale")
  /\ ~Busy("peer")
  /\ journal' = Consulted(n, SeenActive(n))
  /\ handler' = [handler EXCEPT !["peer"] =
       IF Owned(n, SeenActive(n)) THEN Free
       ELSE [at |-> "drop", node |-> n, saw |-> window[n]]]
  /\ UNCHANGED <<slot, db, queue, worker, retry, window, standby, task,
                 reported, markers>>

PeerDrop ==
  /\ handler["peer"].at = "drop"
  /\ slot' = IF Droppable(handler["peer"].node)
             THEN Dropped(handler["peer"].node) ELSE slot
  /\ handler' = [handler EXCEPT !["peer"] = Free]
  /\ UNCHANGED <<journal, db, queue, worker, retry, window, standby, task,
                 reported, markers, faults>>

-----------------------------------------------------------------------------
(* The standby stops: it failed, or `cluster recover` stopped it.  pgpool  *)
(* will report it.                                                         *)
StandbyDown(n) ==
  /\ standby[n].up
  /\ standby' = [standby EXCEPT ![n].up = FALSE]
  /\ slot' = [slot EXCEPT ![n] = IF @ = "active" THEN "idle" ELSE @]
  /\ reported' = reported \cup {n}
  /\ UNCHANGED <<journal, db, queue, worker, retry, window, task, handler,
                 markers, faults>>

(* The host of a standby that was not being rebuilt comes back.            *)
StandbyUp(n) ==
  /\ Fault("return")
  /\ ~standby[n].up /\ standby[n].ready
  /\ standby' = [standby EXCEPT ![n].up = TRUE]
  /\ UNCHANGED <<journal, slot, db, queue, worker, retry, window, task,
                 handler, reported, markers>>

(* A running standby attaches to its slot; without one its agent's follow  *)
(* creates it (`RoleExecutor::follow`).                                    *)
Connect(n) ==
  /\ standby[n].up /\ slot[n] = "idle"
  /\ slot' = [slot EXCEPT ![n] = "active"]
  /\ window' = [window EXCEPT ![n] = 0]
  /\ UNCHANGED <<journal, db, queue, worker, retry, standby, task, handler,
                 reported, markers, faults>>

Refollow(n) ==
  /\ standby[n].up /\ slot[n] = "none" /\ db
  /\ slot' = [slot EXCEPT ![n] = "idle"]
  /\ UNCHANGED <<journal, db, queue, worker, retry, window, standby, task,
                 handler, reported, markers, faults>>

(* CROSS_OP_GRACE passes since the completion; nobody looks at the age of  *)
(* a discharged entry.                                                     *)
GraceEnds(i) ==
  /\ journal[i].fresh /\ ~journal[i].discharged
  /\ journal' = [journal EXCEPT ![i].fresh = FALSE]
  /\ window' = [window EXCEPT ![journal[i].target] =
                  IF @ = i THEN 0 ELSE @]
  /\ UNCHANGED <<slot, db, queue, worker, retry, standby, task, handler,
                 reported, markers, faults>>

(* The worker's other job: a marker is pruned a day later.                 *)
MarkerSwept(n) ==
  /\ Fault("day")
  /\ n \in markers
  /\ markers' = markers \ {n}
  /\ UNCHANGED <<journal, slot, db, queue, worker, retry, window, standby,
                 task, handler, reported>>

DbFails ==
  /\ Fault("db") /\ db
  /\ db' = FALSE
  /\ UNCHANGED <<journal, slot, queue, worker, retry, window, standby, task,
                 handler, reported, markers>>

DbBack ==
  /\ ~db
  /\ db' = TRUE
  /\ UNCHANGED <<journal, slot, queue, worker, retry, window, standby, task,
                 handler, reported, markers, faults>>

(* The daemon dies and is restarted.                                       *)
Crash ==
  /\ Fault("crash")
  /\ task' = [i \in Op |-> "gone"]
  /\ handler' = [h \in DOMAIN handler |-> Free]
  /\ worker' = Asleep /\ retry' = NoRetry
  /\ UNCHANGED <<journal, slot, db, queue, window, standby, reported,
                 markers>>

(* `retry_maintenance`: the read of `reschedule`, refused unless pending.  *)
RescheduleRead(i) ==
  /\ Fault("retry")
  /\ retry.id = 0 /\ queue[i].status = "Pending"
  /\ retry' = [id |-> i, attempts |-> queue[i].attempts]
  /\ UNCHANGED <<journal, slot, db, queue, worker, window, standby, task,
                 handler, reported, markers>>

RecoverStep(i) ==
  \/ RecoverCreate(i) \/ RecoverCopy(i) \/ RecoverConfigure(i)
  \/ RecoverComplete(i) \/ RecoverStart(i)
  \/ RecoverCleanup(i) \/ RecoverAbandon(i)
HookStep == HookProbe \/ HookDrop \/ HookMark
WorkerStep ==
  /\ \/ SweepStart \/ SweepEnd
     \/ WorkerConsult \/ WorkerDrop \/ WorkerMarkDone
     \/ RescheduleWrite
     \/ \E i \in Intent : BackoffEnds(i)
  /\ UNCHANGED <<standby, task, handler, reported, markers, faults>>

Next ==
  \/ \E n \in Standby :
       \/ RecoverBegin(n) \/ HookConsult(n) \/ PeerConsult(n)
       \/ StandbyDown(n) \/ StandbyUp(n) \/ Connect(n) \/ Refollow(n)
       \/ MarkerSwept(n)
  \/ \E i \in Op : RecoverStep(i) \/ AbandonOp(i) \/ GraceEnds(i)
  \/ \E i \in Intent : RescheduleRead(i)
  \/ HookStep \/ PeerDrop
  \/ WorkerStep
  \/ DbFails \/ DbBack \/ Crash

Spec == Init /\ [][Next]_vars

(* Handlers finish, a sweep takes what is due, a running standby attaches, *)
(* the connection to PostgreSQL recovers, the grace passes.  Nobody        *)
(* repairs a host, calls a hook twice or starts a recovery.                *)
Fairness ==
  /\ \A i \in 1 .. MaxOps : WF_vars(i \in Op /\ RecoverStep(i))
  /\ \A i \in 1 .. MaxOps : WF_vars(i \in Op /\ GraceEnds(i))
  /\ \A n \in Standby : WF_vars(HookConsult(n)) /\ WF_vars(Connect(n))
  /\ WF_vars(HookStep) /\ WF_vars(PeerDrop)
  /\ WF_vars(WorkerStep) /\ WF_vars(DbBack)

FairSpec == Spec /\ Fairness

-----------------------------------------------------------------------------
Stage == {"create", "copy", "configure", "complete", "start", "cleanup",
          "abandon", "gone"}
Handler == [at : {"free", "probe", "drop", "mark"}, node : Standby \cup {0},
            saw : Nat]
Worker == [at : {"sleep", "pick", "drop", "mark"}, saw : Nat,
           todo : [Todo -> 0 .. MaxAttempts - 1]]

(* Types; only a running standby streams, and only one that was configured *)
(* runs.                                                                   *)
TypeOK ==
  /\ journal \in Seq(InflightOp) /\ Len(journal) <= MaxOps
  /\ queue \in Seq(MaintenanceIntent) /\ Len(queue) <= MaxIntents
  /\ slot \in [Standby -> {"none", "idle", "active"}]
  /\ standby \in [Standby -> [up : BOOLEAN, ready : BOOLEAN]]
  /\ \A n \in Standby : slot[n] = "active" => standby[n].up
  /\ \A n \in Standby : standby[n].up => standby[n].ready
  /\ task \in Seq(Stage) /\ Len(task) = Len(journal)
  /\ handler \in [{"hook", "peer"} -> Handler]
  /\ worker \in Worker /\ Todo \subseteq Intent
  /\ retry \in [id : Nat, attempts : 0 .. MaxAttempts - 1]
  /\ window \in [Standby -> Nat] /\ db \in BOOLEAN
  /\ markers \cup reported \subseteq Standby /\ faults \in 0 .. MaxFaults

Drops(n) == slot[n] # "none" /\ slot'[n] = "none"

(* From the creation of its slot until the rebuilt standby attaches, until *)
(* the recovery gives up or until the grace is over, a request that comes  *)
(* in does not take the slot away, whichever of the three paths it comes   *)
(* by, whether the recovery is still running, done, or cut off by a crash; *)
(* and no recovery cleans up the slot of another, unless the operator      *)
(* abandoned it while it ran.                                              *)
WindowDrop(n) ==
  \/ \E i \in Op : task[i] = "cleanup" /\ task'[i] = "abandon"
                   /\ (window[n] = i \/ journal[i].operator)
  \/ \E h \in DOMAIN handler :
       /\ handler[h].at = "drop" /\ handler'[h].at # "drop"
       /\ handler[h].node = n /\ handler[h].saw # window[n]
  \/ /\ worker.at = "drop" /\ worker'.at = "mark"
     /\ queue[Current].target = n /\ worker.saw # window[n]
WindowProtected ==
  [][\A n \in Standby : Drops(n) /\ window[n] # 0 => WindowDrop(n)]_vars

(* A slot whose standby cannot start pins WAL until somebody drops it.  A  *)
(* file says so: an operation in progress, a queued or abandoned drop, or  *)
(* an entry the operator abandoned; also when drops fail and the daemon    *)
(* crashes between any two steps of a failed recovery.                     *)
Recorded(n) ==
  \/ \E i \in Op : /\ journal[i].target = n
                   /\ \/ journal[i].status = "InProgress"
                      \/ journal[i].operator
  \/ \E i \in Intent : queue[i].target = n /\ queue[i].status # "Done"
Orphaned(n) == slot[n] # "none" /\ ~standby[n].ready /\ ~Recorded(n)

(* "Failure between (3) and (5) drops the slot ...; if the drop itself     *)
(* fails it queues a DropSlotCleanup maintenance intent"                   *)
(* (recovery_first_stage): no failed recovery leaves an orphan.            *)
NoSilentOrphan == \A n \in Standby : ~Orphaned(n)

(* The same but for an intent the worker gave up in favour of an owner:    *)
(* the only way for a slot to be forgotten is to be trusted to an          *)
(* operation that then fails.                                              *)
OrphanWasYielded ==
  /\ TypeOK
  /\ \A n \in Standby : Orphaned(n) =>
       \E i \in Intent : queue[i].target = n /\ queue[i].yielded

(* A queued drop is done or given up, whatever fails: the budget of        *)
(* attempts ends, across crashes and operators' retries.                   *)
DeferredDropEnds ==
  \A i \in 1 .. MaxIntents :
    (i \in Intent /\ queue[i].status = "Pending")
      ~> (i \in Intent /\ queue[i].status # "Pending")
=============================================================================
