---------------------------- MODULE Maintenance ----------------------------
(***************************************************************************)
(* The durable retry queue for failed slot drops and its worker            *)
(* (maintenance.rs), on the node that hosts the slots: targets are local.  *)
(* A sweep lists the pending intents that are due and takes them oldest    *)
(* first; each is a consult of the journal, a drop, and the marking of the *)
(* result, and others move in between.  Intents survive a crash; the sweep *)
(* does not.  An intent's id is its place in the queue.  Pruning terminal  *)
(* intents a day later is left out.                                        *)
(***************************************************************************)
EXTENDS InflightOps

CONSTANTS MaxAttempts   \* MAX_ATTEMPTS

VARIABLES slot,     \* each member's replication slot on this primary
          db,       \* whether this agent's connection to PostgreSQL works
          queue,    \* the maintenance intents, oldest first
          worker,   \* the sweep in progress
          retry,    \* an operator's reschedule between its read and write
          window    \* history: the recovery a slot was created for and is
                    \* still waiting to be used by, 0 when there is none

Intent == DOMAIN queue
MaintenanceIntent == [target   : Standby,
                      status   : {"Pending", "Done", "Abandoned"},
                      attempts : 0 .. MaxAttempts - 1,
                      due      : BOOLEAN,      \* next_retry_at has passed
                      yielded  : BOOLEAN]      \* history: left to an owner

Queued(n) ==
  Append(queue, [target |-> n, status |-> "Pending", attempts |-> 0,
                 due |-> TRUE, yielded |-> FALSE])

Asleep == [at |-> "sleep", todo |-> <<>>, saw |-> 0]
NoRetry == [id |-> 0, attempts |-> 0]

(* `pg_drop_replication_slot` refuses an active slot and a missing one.    *)
Droppable(n) == db /\ slot[n] = "idle"
Dropped(n) == [slot EXCEPT ![n] = "none"]

(* `slot_active`; an answer that cannot be had counts as not observed.     *)
SeenActive(n) == db /\ slot[n] = "active"

(* The listing a sweep works from holds the attempts as they were then; the *)
(* intent being processed is the oldest one left of it.                    *)
Todo == DOMAIN worker.todo
Current == Min(Todo)
Advance ==
  [at |-> "pick", saw |-> 0,
   todo |-> [i \in Todo \ {Current} |-> worker.todo[i]]]

MarkDone(i) == [queue EXCEPT ![i].status = "Done", ![i].due = FALSE]

MarkAttempt(i) == [queue EXCEPT ![i].attempts = @ + 1, ![i].status = "Pending",
                                ![i].due = FALSE]
MarkAbandoned(i) == [queue EXCEPT ![i].status = "Abandoned", ![i].due = FALSE]

(* Mutant: an attempt is not counted.                                      *)
FailForgetsAttempt(i) == [queue EXCEPT ![i].due = FALSE]

(* Mutant: a failed drop leaves the queue.                                 *)
FailForgotten(i) == MarkDone(i)

(* `fail`: a back-off, or the end of the budget, which is told from the    *)
(* listing; the file is read again and counted up.                         *)
Fail(i) ==
  IF worker.todo[i] + 1 >= MaxAttempts THEN MarkAbandoned(i) ELSE MarkAttempt(i)

(* `process_sweep`: list_pending, without those that are backing off.      *)
SweepStart ==
  /\ worker.at = "sleep"
  /\ LET due == {i \in Intent : queue[i].status = "Pending" /\ queue[i].due}
     IN /\ due # {}
        /\ worker' = [at |-> "pick", saw |-> 0,
                      todo |-> [i \in due |-> queue[i].attempts]]
  /\ UNCHANGED <<journal, slot, db, queue, retry, window>>

SweepEnd ==
  /\ worker.at = "pick" /\ Todo = {}
  /\ worker' = Asleep
  /\ UNCHANGED <<journal, slot, db, queue, retry, window>>

(* `process_drop_slot`, up to the drop: an intent whose slot has an owner  *)
(* is done.                                                                *)
WorkerConsult ==
  /\ worker.at = "pick" /\ Todo # {}
  /\ LET n == queue[Current].target
         active == SeenActive(n)
     IN /\ journal' = Consulted(n, active)
        /\ \/ /\ Owned(n, active)
              /\ queue' = [MarkDone(Current) EXCEPT ![Current].yielded = TRUE]
              /\ worker' = Advance
           \/ /\ ~Owned(n, active)
              /\ worker' = [worker EXCEPT !.at = "drop", !.saw = window[n]]
              /\ UNCHANGED queue
  /\ UNCHANGED <<slot, db, retry, window>>

WorkerDrop ==
  /\ worker.at = "drop"
  /\ LET n == queue[Current].target
     IN \/ /\ Droppable(n)
           /\ slot' = Dropped(n)
           /\ worker' = [worker EXCEPT !.at = "mark"]
           /\ UNCHANGED queue
        \/ /\ ~Droppable(n)
           /\ queue' = Fail(Current)
           /\ worker' = Advance
           /\ UNCHANGED slot
  /\ UNCHANGED <<journal, db, retry, window>>

WorkerMarkDone ==
  /\ worker.at = "mark"
  /\ queue' = MarkDone(Current)
  /\ worker' = Advance
  /\ UNCHANGED <<journal, slot, db, retry, window>>

(* next_retry_at passes.                                                   *)
BackoffEnds(i) ==
  /\ queue[i].status = "Pending" /\ ~queue[i].due
  /\ queue' = [queue EXCEPT ![i].due = TRUE]
  /\ UNCHANGED <<journal, slot, db, worker, retry, window>>

(* `retry_maintenance`: `reschedule` reads a pending intent and writes the *)
(* whole file back, with nothing held in between.                          *)
RescheduleWrite ==
  /\ retry.id # 0
  /\ queue' = [queue EXCEPT ![retry.id].status = "Pending",
                            ![retry.id].attempts = retry.attempts,
                            ![retry.id].due = TRUE]
  /\ retry' = NoRetry
  /\ UNCHANGED <<journal, slot, db, worker, window>>
=============================================================================
