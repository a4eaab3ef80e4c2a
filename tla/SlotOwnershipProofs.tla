------------------------ MODULE SlotOwnershipProofs ------------------------
(***************************************************************************)
(* Proofs about SlotOwnership: no request that comes in takes the slot of  *)
(* a recovery away, and no failed recovery leaves a slot behind that       *)
(* nothing records, unless the worker left its drop to an owner.  Both     *)
(* hold for every set of standbys, any number of recoveries, intents,      *)
(* attempts and faults, and any faults.                                    *)
(***************************************************************************)
EXTENDS SlotOwnership, NaturalsInduction, WellFoundedInduction,
        FiniteSetTheorems, TLAPS

(* A recovery that may still change its slot or its entry.                 *)
Running == {"create", "copy", "configure", "complete", "cleanup", "abandon"}

(* It is in progress, unless the operator abandoned it while it ran; no    *)
(* two recoveries of a member are in progress; what is discharged is done. *)
OpsInv ==
  /\ \A i \in Op : task[i] \in Running =>
       \/ journal[i].status = "InProgress"
       \/ journal[i].status = "Abandoned" /\ journal[i].operator
  /\ \A i \in Op : journal[i].discharged => journal[i].status = "Done"
  /\ \A i, j \in Op :
       /\ journal[i].target = journal[j].target
       /\ journal[i].status = "InProgress" /\ journal[j].status = "InProgress"
       => i = j

(* A sweep that drops or marks has a current intent, no intent was tried   *)
(* more often than the listing says, nor less often than the reschedule    *)
(* read.                                                                   *)
SweepInv ==
  /\ worker.at \in {"drop", "mark"} => Todo # {}
  /\ \A i \in Todo : queue[i].attempts <= worker.todo[i]
  /\ retry.id # 0 => /\ retry.id \in Intent
                     /\ retry.attempts <= queue[retry.id].attempts

(* The recoveries that may yet queue an intent, and the hook.              *)
Owing == {i \in Op : task[i] \notin {"abandon", "gone"}}
HookOwes == IF handler["hook"].at \in {"probe", "drop"} THEN 1 ELSE 0
BudgetInv == Len(queue) + Cardinality(Owing) + HookOwes <= MaxIntents

(* Who a slot waits for owns it, so no consult that found no owner came    *)
(* after its creation; and while a recovery that the operator left alone   *)
(* works on a slot, the slot waits for nobody else.                        *)
WindowInv ==
  /\ \A n \in Standby : slot[n] = "active" => window[n] = 0
  /\ \A n \in Standby : window[n] # 0 =>
       window[n] \in Op /\ journal[window[n]].target = n /\ Owns(window[n])
  /\ \A i \in Op : task[i] \in {"create", "abandon"} =>
       window[journal[i].target] # i
  /\ \A i \in Op :
       task[i] \in {"copy", "configure", "complete", "cleanup"} =>
         journal[i].operator \/ window[journal[i].target] \in {0, i}

(* Whoever found no owner found a slot, that of a member, that waited for  *)
(* nobody.                                                                 *)
SawInv ==
  /\ \A h \in {"hook", "peer"} :
       handler[h].saw = 0 /\ (Busy(h) => handler[h].node \in Standby)
  /\ worker.saw = 0

(* An operation that answers for its slot: one before its first change, or *)
(* after its clean-up, does not.                                           *)
Answering(i) ==
  \/ journal[i].operator
  \/ journal[i].status = "InProgress" /\ task[i] \notin {"create", "abandon"}

(* An intent that will still be there when the sweep has marked its        *)
(* current one.                                                            *)
Standing(i) ==
  \/ queue[i].yielded
  \/ queue[i].status # "Done" /\ ~(worker.at = "mark" /\ i = Current)

(* A slot whose standby cannot start is answered for; what is about to be  *)
(* completed can start.                                                    *)
Answered(n) ==
  \/ \E i \in Op : journal[i].target = n /\ Answering(i)
  \/ \E i \in Intent : queue[i].target = n /\ Standing(i)
ByOperator(n) == \E i \in Op : journal[i].target = n /\ journal[i].operator
Pinning(n) == slot[n] # "none" /\ ~standby[n].ready
OrphanInv ==
  /\ \A n \in Standby : Pinning(n) => Answered(n)
  /\ \A i \in Op : task[i] = "complete" =>
       standby[journal[i].target].ready \/ ByOperator(journal[i].target)

IInv ==
  /\ TypeOK /\ OpsInv /\ SweepInv /\ BudgetInv
  /\ WindowInv /\ SawInv /\ OrphanInv

(* The parts of the type invariant.                                        *)
JournalOK ==
  /\ journal \in Seq(InflightOp) /\ Len(journal) <= MaxOps
  /\ task \in Seq(Stage) /\ Len(task) = Len(journal)
SlotsOK ==
  /\ slot \in [Standby -> {"none", "idle", "active"}]
  /\ standby \in [Standby -> [up : BOOLEAN, ready : BOOLEAN]]
  /\ \A n \in Standby : slot[n] = "active" => standby[n].up
  /\ \A n \in Standby : standby[n].up => standby[n].ready
HandlerOK == handler \in [{"hook", "peer"} -> Handler]
QueueOK ==
  /\ queue \in Seq(MaintenanceIntent)
  /\ worker \in Worker /\ Todo \subseteq Intent
  /\ retry \in [id : Nat, attempts : 0 .. MaxAttempts - 1]
OtherOK ==
  /\ window \in [Standby -> Nat] /\ db \in BOOLEAN
  /\ markers \cup reported \subseteq Standby /\ faults \in 0 .. MaxFaults

-----------------------------------------------------------------------------
(* Least and greatest elements, and the operators that choose them.        *)
LEMMA LeastNumber ==
  ASSUME NEW T \in SUBSET Nat, T # {}
  PROVE  \E x \in T : \A y \in T : x <= y
<1>1. PICK x \in T : \A y \in T : ~(<<y, x>> \in OpToRel(<, Nat))
  BY NatLessThanWellFounded, WFMin, Zenon
<1>2. \A y \in T : ~(y < x)
  BY <1>1 DEF OpToRel
<1>3. QED
  BY <1>2

LEMMA MinMember ==
  ASSUME NEW T \in SUBSET Nat, T # {}
  PROVE  Min(T) \in T
<1>1. \E x \in T : \A y \in T : x <= y
  BY LeastNumber
<1>2. QED
  BY <1>1 DEF Min

LEMMA MaxMember ==
  ASSUME NEW k \in Nat, NEW T \in SUBSET (1 .. k), T # {}
  PROVE  Max(T) \in T
<1> DEFINE U == {k - x : x \in T}
<1>1. U \in SUBSET Nat /\ U # {}
  <2>1. \A x \in T : k - x \in Nat
    OBVIOUS
  <2>2. PICK x \in T : TRUE
    OBVIOUS
  <2>3. k - x \in U
    OBVIOUS
  <2>4. QED
    BY <2>1, <2>3
<1>2. PICK u \in U : \A y \in U : u <= y
  BY <1>1, LeastNumber
<1>3. PICK x \in T : u = k - x
  OBVIOUS
<1>4. \A y \in T : x >= y
  <2> TAKE y \in T
  <2>1. k - x <= k - y
    BY <1>2, <1>3
  <2>2. QED
    BY <2>1
<1>5. \E z \in T : \A y \in T : z >= y
  BY <1>4
<1>6. QED
  BY <1>5 DEF Max

-----------------------------------------------------------------------------
LEMMA Constants == /\ MaxOps \in Nat /\ MaxIntents \in Nat /\ MaxFaults \in Nat
                   /\ MaxAttempts \in Nat /\ 0 \in 0 .. MaxAttempts - 1
  BY SlotAssumption

(* The files as functions.                                                 *)
LEMMA Shape ==
  ASSUME TypeOK
  PROVE  /\ Len(journal) \in Nat /\ Op = 1 .. Len(journal)
         /\ journal \in [Op -> InflightOp] /\ task \in [Op -> Stage]
         /\ Len(queue) \in Nat /\ Intent = 1 .. Len(queue)
         /\ queue \in [Intent -> MaintenanceIntent]
         /\ \A i \in Op : journal[i].target \in Standby
         /\ \A i \in Intent : queue[i].target \in Standby
<1>1. Len(journal) \in Nat /\ Op = 1 .. Len(journal) /\ journal \in [Op -> InflightOp]
  BY DEF TypeOK, Op
<1>2. task \in [Op -> Stage]
  BY <1>1 DEF TypeOK
<1>3. Len(queue) \in Nat /\ Intent = 1 .. Len(queue)
      /\ queue \in [Intent -> MaintenanceIntent]
  BY DEF TypeOK, Intent
<1>4. QED
  BY <1>1, <1>2, <1>3 DEF InflightOp, MaintenanceIntent

(* The intent a sweep is at.                                               *)
LEMMA CurrentIntent ==
  ASSUME TypeOK, Todo # {}
  PROVE  Current \in Todo /\ Current \in Intent
<1>1. Todo \in SUBSET Nat
  BY Shape DEF TypeOK
<1>2. QED
  BY <1>1, MinMember DEF Current, TypeOK

(* Who owns a slot.                                                        *)
LEMMA YoungestOwner ==
  ASSUME TypeOK, NEW n \in Standby, Owners(n) # {}
  PROVE  Max(Owners(n)) \in Owners(n)
  BY Shape, MaxMember DEF Owners

LEMMA TypeParts ==
  TypeOK <=> /\ JournalOK /\ SlotsOK /\ HandlerOK /\ QueueOK /\ OtherOK
             /\ Len(queue) <= MaxIntents
  BY DEF TypeOK, JournalOK, SlotsOK, HandlerOK, QueueOK, OtherOK

-----------------------------------------------------------------------------
(* Steps that change one operation: its entry and the stage of its task.   *)
Move(i, e, s) ==
  /\ journal' = [journal EXCEPT ![i] = e]
  /\ task' = [task EXCEPT ![i] = s]

LEMMA MoveFacts ==
  ASSUME TypeOK, NEW i \in Op, NEW e \in InflightOp, NEW s \in Stage, Move(i, e, s)
  PROVE  /\ JournalOK' /\ Op' = Op /\ Len(journal') = Len(journal)
         /\ journal'[i] = e /\ task'[i] = s
         /\ \A j \in Op : j # i => journal'[j] = journal[j] /\ task'[j] = task[j]
<1>1. journal \in Seq(InflightOp) /\ Len(journal) <= MaxOps
      /\ task \in Seq(Stage) /\ Len(task) = Len(journal)
  BY DEF TypeOK
<1>2. journal' = [journal EXCEPT ![i] = e] /\ task' = [task EXCEPT ![i] = s]
  BY DEF Move
<1>3. Op = DOMAIN journal /\ Op = 1 .. Len(journal) /\ Len(journal) \in Nat
  BY <1>1, Shape DEF Op
<1>4. journal' \in Seq(InflightOp) /\ Len(journal') = Len(journal)
  BY <1>1, <1>2, <1>3
<1>5. task' \in Seq(Stage) /\ Len(task') = Len(task)
  BY <1>1, <1>2, <1>3
<1>6. Op' = Op
  BY <1>3, <1>4 DEF Op
<1>7. /\ journal'[i] = e /\ task'[i] = s
      /\ \A j \in Op : j # i => journal'[j] = journal[j] /\ task'[j] = task[j]
  BY <1>1, <1>2, <1>3
<1>8. QED
  BY <1>1, <1>4, <1>5, <1>6, <1>7 DEF JournalOK

(* A change of an entry that keeps what OpsInv says.                       *)
LEMMA MoveOps ==
  ASSUME IInv, NEW i \in Op, NEW e \in InflightOp, NEW s \in Stage, Move(i, e, s),
         e.target = journal[i].target,
         s \in Running => \/ e.status = "InProgress"
                          \/ e.status = "Abandoned" /\ e.operator,
         e.discharged => e.status = "Done",
         e.status = "InProgress" => journal[i].status = "InProgress"
  PROVE  JournalOK' /\ OpsInv'
<1>1. TypeOK /\ OpsInv
  BY DEF IInv
<1>2. /\ JournalOK' /\ Op' = Op /\ journal'[i] = e /\ task'[i] = s
      /\ \A j \in Op : j # i => journal'[j] = journal[j] /\ task'[j] = task[j]
  BY <1>1, MoveFacts
<1>3. \A j \in Op : task'[j] \in Running =>
        \/ journal'[j].status = "InProgress"
        \/ journal'[j].status = "Abandoned" /\ journal'[j].operator
  BY <1>1, <1>2 DEF OpsInv
<1>4. \A j \in Op : journal'[j].discharged => journal'[j].status = "Done"
  BY <1>1, <1>2 DEF OpsInv
<1>5. \A j \in Op : /\ journal'[j].target = journal[j].target
                    /\ journal'[j].status = "InProgress" => journal[j].status = "InProgress"
  BY <1>2
<1>6. QED
  BY <1>1, <1>2, <1>3, <1>4, <1>5 DEF OpsInv

(* A consult leaves the journal alone, or discharges the youngest owner,   *)
(* which is done, of a slot that is active.                                *)
LEMMA ConsultFacts ==
  ASSUME TypeOK, NEW n \in Standby, journal' = Consulted(n, SeenActive(n))
  PROVE  \/ journal' = journal
         \/ \E i \in Op :
              /\ journal' = [journal EXCEPT ![i].discharged = TRUE]
              /\ journal[i].target = n /\ journal[i].status = "Done"
              /\ slot[n] = "active"
<1>1. CASE Discharging(n, SeenActive(n))
  <2> DEFINE m == Max(Owners(n))
  <2>1. Owners(n) # {} /\ journal[m].status = "Done" /\ slot[n] = "active"
    BY <1>1 DEF Discharging, SeenActive
  <2>2. m \in Owners(n)
    BY <2>1, YoungestOwner
  <2>3. m \in Op /\ journal[m].target = n
    BY <2>2 DEF Owners
  <2>4. journal' = [journal EXCEPT ![m].discharged = TRUE]
    BY <1>1 DEF Consulted, Discharged
  <2> HIDE DEF m
  <2>5. QED
    BY <2>1, <2>3, <2>4
<1>2. CASE ~Discharging(n, SeenActive(n))
  BY <1>2 DEF Consulted
<1>3. QED
  BY <1>1, <1>2

(* The same as one operation's change.                                     *)
Discharge(i) ==
  Move(i, [journal[i] EXCEPT !.discharged = TRUE], task[i])

LEMMA ConsultMove ==
  ASSUME TypeOK, NEW n \in Standby, journal' = Consulted(n, SeenActive(n)),
         task' = task
  PROVE  \/ UNCHANGED <<journal, task>>
         \/ \E i \in Op : /\ Discharge(i)
                          /\ journal[i].target = n /\ journal[i].status = "Done"
                          /\ slot[n] = "active"
<1>1. CASE journal' = journal
  BY <1>1
<1>2. ASSUME NEW i \in Op,
             journal' = [journal EXCEPT ![i].discharged = TRUE],
             journal[i].target = n, journal[i].status = "Done", slot[n] = "active"
      PROVE  Discharge(i)
  <2>1. task' = [task EXCEPT ![i] = task[i]]
    BY Shape
  <2>2. QED
    BY <1>2, <2>1 DEF Discharge, Move
<1>3. QED
  BY <1>1, <1>2, ConsultFacts

(* The steps of a recovery, of the operator and of time as such changes.   *)
LEMMA Moves ==
  ASSUME TypeOK, NEW i \in Op
  PROVE  LET e == journal[i]
         IN /\ RecoverCreate(i) => /\ task[i] = "create"
                                   /\ \/ Move(i, e, "copy") /\ db
                                      \/ Move(i, e, "abandon") /\ UNCHANGED <<slot, window>>
            /\ RecoverCopy(i) => /\ task[i] = "copy"
                                 /\ \/ Move(i, e, "cleanup")
                                    \/ Move(i, e, "configure")
            /\ RecoverConfigure(i) => /\ task[i] = "configure"
                                      /\ \/ Move(i, e, "complete")
                                         \/ Move(i, e, "cleanup") /\ UNCHANGED standby
            /\ RecoverComplete(i) =>
                 /\ task[i] = "complete"
                 /\ Move(i, [e EXCEPT !.status = "Done", !.fresh = TRUE], "start")
            /\ RecoverStart(i) => task[i] = "start" /\ Move(i, e, "gone")
            /\ RecoverCleanup(i) => task[i] = "cleanup" /\ Move(i, e, "abandon")
            /\ RecoverAbandon(i) =>
                 /\ task[i] = "abandon"
                 /\ Move(i, [e EXCEPT !.status = "Abandoned"], "gone")
            /\ AbandonOp(i) =>
                 /\ e.status = "InProgress"
                 /\ Move(i, [e EXCEPT !.status = "Abandoned", !.operator = TRUE], task[i])
            /\ GraceEnds(i) => Move(i, [e EXCEPT !.fresh = FALSE], task[i])
<1>1. journal = [journal EXCEPT ![i] = journal[i]] /\ task = [task EXCEPT ![i] = task[i]]
  BY Shape
<1>2. RecoverCreate(i) => /\ task[i] = "create"
                          /\ \/ Move(i, journal[i], "copy") /\ db
                             \/ Move(i, journal[i], "abandon") /\ UNCHANGED <<slot, window>>
  BY <1>1 DEF RecoverCreate, Move
<1>3. RecoverCopy(i) => /\ task[i] = "copy"
                        /\ \/ Move(i, journal[i], "cleanup")
                           \/ Move(i, journal[i], "configure")
  BY <1>1 DEF RecoverCopy, Move
<1>4. RecoverConfigure(i) => /\ task[i] = "configure"
                             /\ \/ Move(i, journal[i], "complete")
                                \/ Move(i, journal[i], "cleanup") /\ UNCHANGED standby
  BY <1>1 DEF RecoverConfigure, Move
<1>5. RecoverStart(i) => task[i] = "start" /\ Move(i, journal[i], "gone")
  BY <1>1 DEF RecoverStart, Move
<1>6. RecoverCleanup(i) => task[i] = "cleanup" /\ Move(i, journal[i], "abandon")
  BY <1>1 DEF RecoverCleanup, Move
<1>7. journal \in [Op -> InflightOp]
  BY Shape
<1>8. RecoverComplete(i) =>
        /\ task[i] = "complete"
        /\ Move(i, [journal[i] EXCEPT !.status = "Done", !.fresh = TRUE], "start")
  BY <1>7 DEF RecoverComplete, Completed, Move
<1>9. RecoverAbandon(i) =>
        /\ task[i] = "abandon"
        /\ Move(i, [journal[i] EXCEPT !.status = "Abandoned"], "gone")
  BY <1>7 DEF RecoverAbandon, Abandoned, Move
<1>10. AbandonOp(i) =>
         /\ journal[i].status = "InProgress"
         /\ Move(i, [journal[i] EXCEPT !.status = "Abandoned", !.operator = TRUE], task[i])
  <2> SUFFICES ASSUME AbandonOp(i)
               PROVE  /\ journal[i].status = "InProgress"
                      /\ Move(i, [journal[i] EXCEPT !.status = "Abandoned",
                                                    !.operator = TRUE], task[i])
    OBVIOUS
  <2>1. journal' = [Abandoned(i) EXCEPT ![i].operator = TRUE] /\ task' = task
        /\ journal[i].status = "InProgress"
    BY DEF AbandonOp
  <2>2. [Abandoned(i) EXCEPT ![i].operator = TRUE]
        = [journal EXCEPT ![i] = [journal[i] EXCEPT !.status = "Abandoned",
                                                    !.operator = TRUE]]
    BY <1>7 DEF Abandoned
  <2>3. QED
    BY <1>1, <2>1, <2>2 DEF Move
<1>11. GraceEnds(i) => Move(i, [journal[i] EXCEPT !.fresh = FALSE], task[i])
  BY <1>1, <1>7 DEF GraceEnds, Move
<1>12. QED
  BY <1>2, <1>3, <1>4, <1>5, <1>6, <1>8, <1>9, <1>10, <1>11

(* What these entries are.                                                 *)
LEMMA EntryFacts ==
  ASSUME NEW e \in InflightOp
  PROVE  LET done == [e EXCEPT !.status = "Done", !.fresh = TRUE]
             given == [e EXCEPT !.status = "Abandoned"]
             taken == [e EXCEPT !.status = "Abandoned", !.operator = TRUE]
             old == [e EXCEPT !.fresh = FALSE]
             seen == [e EXCEPT !.discharged = TRUE]
         IN /\ {done, given, taken, old, seen} \subseteq InflightOp
            /\ done.target = e.target /\ done.status = "Done" /\ done.fresh
            /\ done.discharged = e.discharged /\ done.operator = e.operator
            /\ given.target = e.target /\ given.status = "Abandoned"
            /\ given.discharged = e.discharged /\ given.operator = e.operator
            /\ taken.target = e.target /\ taken.status = "Abandoned"
            /\ taken.discharged = e.discharged /\ taken.operator
            /\ old.target = e.target /\ old.status = e.status
            /\ old.discharged = e.discharged /\ old.operator = e.operator
            /\ seen.target = e.target /\ seen.status = e.status
            /\ seen.fresh = e.fresh /\ seen.operator = e.operator
  BY DEF InflightOp, InflightStatus

(* A new operation.                                                        *)
LEMMA BeginFacts ==
  ASSUME TypeOK, NEW n \in Standby, RecoverBegin(n)
  PROVE  LET k == Len(journal) + 1
             e == [target |-> n, status |-> "InProgress", fresh |-> FALSE,
                   discharged |-> FALSE, operator |-> FALSE]
         IN /\ JournalOK' /\ k \notin Op /\ Op' = Op \cup {k}
            /\ journal'[k] = e /\ task'[k] = "create"
            /\ \A j \in Op : journal'[j] = journal[j] /\ task'[j] = task[j]
<1> DEFINE k == Len(journal) + 1
           e == [target |-> n, status |-> "InProgress", fresh |-> FALSE,
                 discharged |-> FALSE, operator |-> FALSE]
<1>1. journal \in Seq(InflightOp) /\ task \in Seq(Stage) /\ Len(task) = Len(journal)
  BY DEF TypeOK
<1>2. journal' = Append(journal, e) /\ task' = Append(task, "create")
      /\ Len(journal) < MaxOps
  BY DEF RecoverBegin, Begun
<1>3. e \in InflightOp /\ "create" \in Stage
  BY DEF InflightOp, InflightStatus, Stage
<1> HIDE DEF e
<1>4. journal' \in Seq(InflightOp) /\ task' \in Seq(Stage)
      /\ Len(journal') = k /\ Len(task') = k
  BY <1>1, <1>2, <1>3
<1>5. Len(journal) \in Nat /\ Op = 1 .. Len(journal) /\ Op' = 1 .. Len(journal')
  BY <1>1, <1>4 DEF Op
<1>6. k \notin Op /\ Op' = Op \cup {k}
  BY <1>4, <1>5
<1>7. /\ journal'[k] = e /\ task'[k] = "create"
      /\ \A j \in Op : journal'[j] = journal[j] /\ task'[j] = task[j]
  BY <1>1, <1>2, <1>3, <1>5
<1>8. JournalOK'
  BY <1>2, <1>4, Constants DEF JournalOK
<1>9. QED
  BY <1>6, <1>7, <1>8 DEF e

(* The tasks are gone, the entries are files.                              *)
LEMMA CrashFacts ==
  ASSUME TypeOK, Crash
  PROVE  JournalOK' /\ Op' = Op /\ journal' = journal
         /\ \A i \in Op : task'[i] = "gone"
<1>1. journal' = journal /\ task' = [i \in Op |-> "gone"]
  BY DEF Crash
<1>2. Op = 1 .. Len(journal) /\ Len(journal) \in Nat
  BY Shape
<1>3. task' \in Seq(Stage) /\ Len(task') = Len(journal)
  BY <1>1, <1>2 DEF Stage
<1>4. QED
  BY <1>1, <1>3 DEF JournalOK, TypeOK, Op

(* The steps by what they do to the operations.                            *)
Consults(n) == journal' = Consulted(n, SeenActive(n)) /\ task' = task

LEMMA ConsultSteps ==
  ASSUME TypeOK
  PROVE  /\ \A n \in Standby : PeerConsult(n) => Consults(n)
         /\ \A n \in Standby :
              HookConsult(n) => Consults(n) \/ UNCHANGED <<journal, task, handler>>
         /\ WorkerConsult /\ UNCHANGED task =>
              queue[Current].target \in Standby /\ Consults(queue[Current].target)
<1>1. ASSUME NEW n \in Standby, PeerConsult(n) PROVE Consults(n)
  BY <1>1 DEF PeerConsult, Consults
<1>2. ASSUME NEW n \in Standby, HookConsult(n)
      PROVE  Consults(n) \/ UNCHANGED <<journal, task, handler>>
  BY <1>2 DEF HookConsult, Consults
<1>3. ASSUME WorkerConsult, UNCHANGED task
      PROVE  queue[Current].target \in Standby /\ Consults(queue[Current].target)
  <2>1. Todo # {} /\ journal' = Consulted(queue[Current].target,
                                          SeenActive(queue[Current].target))
    BY <1>3 DEF WorkerConsult
  <2>2. Current \in Intent
    BY <2>1, CurrentIntent
  <2>3. QED
    BY <1>3, <2>1, <2>2, Shape DEF Consults
<1>4. QED
  BY <1>1, <1>2, <1>3

LEMMA JournalKinds ==
  ASSUME TypeOK, Next
  PROVE  \/ \E n \in Standby : RecoverBegin(n) \/ Consults(n)
         \/ \E i \in Op : RecoverStep(i) \/ AbandonOp(i) \/ GraceEnds(i)
         \/ Crash
         \/ UNCHANGED <<journal, task>>
<1>1. ASSUME NEW n \in Standby,
             \/ StandbyDown(n) \/ StandbyUp(n) \/ Connect(n) \/ Refollow(n)
             \/ MarkerSwept(n)
      PROVE  UNCHANGED <<journal, task>>
  BY <1>1 DEF StandbyDown, StandbyUp, Connect, Refollow, MarkerSwept
<1>2. ASSUME HookStep \/ PeerDrop \/ DbFails \/ DbBack
             \/ \E i \in Intent : RescheduleRead(i)
      PROVE  UNCHANGED <<journal, task>>
  BY <1>2 DEF HookStep, HookProbe, HookDrop, HookMark, PeerDrop, DbFails, DbBack,
              RescheduleRead
<1>3. CASE WorkerStep /\ ~WorkerConsult
  BY <1>3 DEF WorkerStep, SweepStart, SweepEnd, WorkerDrop, WorkerMarkDone,
              RescheduleWrite, BackoffEnds
<1>4. CASE WorkerStep /\ WorkerConsult
  BY <1>4, ConsultSteps DEF WorkerStep
<1>5. ASSUME NEW n \in Standby, HookConsult(n) \/ PeerConsult(n)
      PROVE  Consults(n) \/ UNCHANGED <<journal, task>>
  BY <1>5, ConsultSteps
<1>6. QED
  BY <1>1, <1>2, <1>3, <1>4, <1>5 DEF Next

(* The operations keep their types and OpsInv.                             *)
LEMMA OpsStep ==
  ASSUME IInv, Next
  PROVE  JournalOK' /\ OpsInv'
<1>1. TypeOK /\ OpsInv
  BY DEF IInv
<1>2. journal \in [Op -> InflightOp] /\ task \in [Op -> Stage]
  BY <1>1, Shape
<1>3. ASSUME NEW n \in Standby, RecoverBegin(n)
      PROVE  JournalOK' /\ OpsInv'
  <2> DEFINE k == Len(journal) + 1
  <2>1. /\ JournalOK' /\ k \notin Op /\ Op' = Op \cup {k}
        /\ \A j \in Op : journal'[j] = journal[j] /\ task'[j] = task[j]
        /\ journal'[k] = [target |-> n, status |-> "InProgress", fresh |-> FALSE,
                          discharged |-> FALSE, operator |-> FALSE]
    BY <1>1, <1>3, BeginFacts
  <2> HIDE DEF k
  <2>2. \A j \in Op : journal[j].target = n => journal[j].status # "InProgress"
    BY <1>3 DEF RecoverBegin, MayBegin, SameKey
  <2>3. QED
    BY <1>1, <2>1, <2>2 DEF OpsInv
<1>4. ASSUME NEW n \in Standby, Consults(n)
      PROVE  JournalOK' /\ OpsInv'
  <2>1. CASE UNCHANGED <<journal, task>>
    BY <1>1, <2>1, TypeParts DEF JournalOK, OpsInv, Op
  <2>2. ASSUME NEW i \in Op, Discharge(i), journal[i].status = "Done"
        PROVE  JournalOK' /\ OpsInv'
    <3> DEFINE e == [journal[i] EXCEPT !.discharged = TRUE]
    <3>1. /\ e \in InflightOp /\ e.target = journal[i].target
          /\ e.status = "Done"
      BY <1>2, <2>2, EntryFacts
    <3>2. Move(i, e, task[i]) /\ task[i] \in Stage
      BY <1>2, <2>2 DEF Discharge
    <3>3. task[i] \notin Running
      BY <1>1, <2>2 DEF OpsInv
    <3> HIDE DEF e
    <3>4. QED
      BY <3>1, <3>2, <3>3, MoveOps
  <2>3. QED
    BY <1>1, <1>4, <2>1, <2>2, ConsultMove DEF Consults
<1>5. ASSUME NEW i \in Op, RecoverStep(i) \/ AbandonOp(i) \/ GraceEnds(i)
      PROVE  JournalOK' /\ OpsInv'
  <2> DEFINE e == journal[i]
             done == [e EXCEPT !.status = "Done", !.fresh = TRUE]
             given == [e EXCEPT !.status = "Abandoned"]
             taken == [e EXCEPT !.status = "Abandoned", !.operator = TRUE]
             old == [e EXCEPT !.fresh = FALSE]
  <2>1. e \in InflightOp /\ task[i] \in Stage
    BY <1>2
  <2>2. /\ task[i] \in Running => \/ e.status = "InProgress"
                                  \/ e.status = "Abandoned" /\ e.operator
        /\ e.discharged => e.status = "Done"
    BY <1>1 DEF OpsInv
  <2>3. ASSUME NEW s \in Stage, Move(i, e, s), task[i] \in Running \/ s \notin Running
        PROVE  JournalOK' /\ OpsInv'
    BY <2>1, <2>2, <2>3, MoveOps
  <2>4. CASE RecoverCreate(i) \/ RecoverCopy(i) \/ RecoverConfigure(i)
             \/ RecoverStart(i) \/ RecoverCleanup(i)
    BY <1>1, <2>3, <2>4, Moves DEF Running, Stage
  <2>5. CASE RecoverComplete(i)
    <3>1. task[i] = "complete" /\ Move(i, done, "start")
      BY <1>1, <2>5, Moves
    <3>2. done \in InflightOp /\ done.target = e.target /\ done.status = "Done"
      BY <2>1, EntryFacts
    <3> HIDE DEF done
    <3>3. QED
      BY <3>1, <3>2, MoveOps DEF Running, Stage
  <2>6. CASE RecoverAbandon(i)
    <3>1. task[i] = "abandon" /\ Move(i, given, "gone")
      BY <1>1, <2>6, Moves
    <3>2. given \in InflightOp /\ given.target = e.target
          /\ given.status = "Abandoned" /\ given.discharged = e.discharged
      BY <2>1, EntryFacts
    <3>3. ~e.discharged
      BY <2>2, <3>1 DEF Running
    <3> HIDE DEF given
    <3>4. QED
      BY <3>1, <3>2, <3>3, MoveOps DEF Running, Stage
  <2>7. CASE AbandonOp(i)
    <3>1. e.status = "InProgress" /\ Move(i, taken, task[i])
      BY <1>1, <2>7, Moves
    <3>2. taken \in InflightOp /\ taken.target = e.target
          /\ taken.status = "Abandoned" /\ taken.discharged = e.discharged
          /\ taken.operator
      BY <2>1, EntryFacts
    <3>3. ~e.discharged
      BY <2>2, <3>1
    <3> HIDE DEF taken
    <3>4. QED
      BY <2>1, <3>1, <3>2, <3>3, MoveOps
  <2>8. CASE GraceEnds(i)
    <3>1. Move(i, old, task[i])
      BY <1>1, <2>8, Moves
    <3>2. old \in InflightOp /\ old.target = e.target /\ old.status = e.status
          /\ old.discharged = e.discharged /\ old.operator = e.operator
      BY <2>1, EntryFacts
    <3> HIDE DEF old
    <3>3. QED
      BY <2>1, <2>2, <3>1, <3>2, MoveOps
  <2>9. QED
    BY <1>5, <2>4, <2>5, <2>6, <2>7, <2>8 DEF RecoverStep
<1>6. CASE Crash
  <2>1. JournalOK' /\ Op' = Op /\ journal' = journal
        /\ \A i \in Op : task'[i] = "gone"
    BY <1>1, <1>6, CrashFacts
  <2>2. QED
    BY <1>1, <2>1 DEF OpsInv, Running
<1>7. CASE UNCHANGED <<journal, task>>
  BY <1>1, <1>7, TypeParts DEF JournalOK, OpsInv, Op
<1>8. QED
  BY <1>1, <1>3, <1>4, <1>5, <1>6, <1>7, JournalKinds

-----------------------------------------------------------------------------
(* Steps that change one member: its slot and its state.                   *)
Member(n, v, r) ==
  /\ slot' = [slot EXCEPT ![n] = v]
  /\ standby' = [standby EXCEPT ![n] = r]

SlotState == {"none", "idle", "active"}
StandbyState == [up : BOOLEAN, ready : BOOLEAN]

(* What a step may do to slots and standbys.                               *)
SlotEffects ==
  /\ SlotsOK'
  /\ \A m \in Standby : slot[m] # "active" /\ slot'[m] = "active" => Connect(m)
  /\ \A m \in Standby : slot[m] = "none" /\ slot'[m] # "none" =>
       \/ standby'[m].ready
       \/ \E i \in Op : RecoverCreate(i) /\ journal[i].target = m
  /\ \A m \in Standby : standby[m].ready /\ ~standby'[m].ready =>
       \E i \in Op : RecoverCopy(i) /\ journal[i].target = m

LEMMA MemberEffects ==
  ASSUME TypeOK, NEW n \in Standby, NEW v \in SlotState, NEW r \in StandbyState,
         Member(n, v, r),
         v = "active" => r.up, r.up => r.ready,
         slot[n] # "active" /\ v = "active" => Connect(n),
         slot[n] = "none" /\ v # "none" =>
           r.ready \/ \E i \in Op : RecoverCreate(i) /\ journal[i].target = n,
         standby[n].ready /\ ~r.ready =>
           \E i \in Op : RecoverCopy(i) /\ journal[i].target = n
  PROVE  SlotEffects
<1>1. slot \in [Standby -> SlotState] /\ standby \in [Standby -> StandbyState]
  BY DEF TypeOK, SlotState, StandbyState
<1>2. slot' \in [Standby -> SlotState] /\ standby' \in [Standby -> StandbyState]
  BY <1>1 DEF Member
<1>3. /\ slot'[n] = v /\ standby'[n] = r
      /\ \A m \in Standby : m # n => slot'[m] = slot[m] /\ standby'[m] = standby[m]
  BY <1>1 DEF Member
<1>4. /\ \A m \in Standby : slot'[m] = "active" => standby'[m].up
      /\ \A m \in Standby : standby'[m].up => standby'[m].ready
  BY <1>3 DEF TypeOK
<1>5. SlotsOK'
  BY <1>2, <1>4 DEF SlotsOK, SlotState, StandbyState
<1>6. QED
  BY <1>3, <1>5 DEF SlotEffects

LEMMA SlotStep ==
  ASSUME IInv, Next
  PROVE  SlotEffects
<1>1. TypeOK
  BY DEF IInv
<1>2. slot \in [Standby -> SlotState] /\ standby \in [Standby -> StandbyState]
  BY <1>1 DEF TypeOK, SlotState, StandbyState
<1>3. \A n \in Standby : /\ slot[n] = "active" => standby[n].up
                         /\ standby[n].up => standby[n].ready
  BY <1>1 DEF TypeOK
<1>4. \A n \in Standby : /\ slot = [slot EXCEPT ![n] = slot[n]]
                         /\ standby = [standby EXCEPT ![n] = standby[n]]
  BY <1>2
<1>5. \A i \in Op : journal[i].target \in Standby
  BY <1>1, Shape
<1>6. CASE UNCHANGED <<slot, standby>>
  BY <1>1, <1>6, TypeParts DEF SlotEffects, SlotsOK
<1>7. ASSUME NEW n \in Standby, StandbyDown(n) PROVE SlotEffects
  <2> DEFINE v == IF slot[n] = "active" THEN "idle" ELSE slot[n]
             r == [standby[n] EXCEPT !.up = FALSE]
  <2>1. slot' = [slot EXCEPT ![n] = v] /\ standby' = [standby EXCEPT ![n] = r]
    BY <1>2, <1>7 DEF StandbyDown
  <2>2. v \in SlotState /\ v # "active" /\ (slot[n] = "none" => v = "none")
    BY <1>2 DEF SlotState
  <2>3. r \in StandbyState /\ ~r.up /\ r.ready = standby[n].ready
    BY <1>2 DEF StandbyState
  <2> HIDE DEF v, r
  <2>4. QED
    BY <1>1, <2>1, <2>2, <2>3, MemberEffects DEF Member
<1>8. ASSUME NEW n \in Standby, StandbyUp(n) PROVE SlotEffects
  <2> DEFINE r == [standby[n] EXCEPT !.up = TRUE]
  <2>1. slot' = [slot EXCEPT ![n] = slot[n]] /\ standby' = [standby EXCEPT ![n] = r]
        /\ standby[n].ready
    BY <1>2, <1>4, <1>8 DEF StandbyUp
  <2>2. r \in StandbyState /\ r.up /\ r.ready = standby[n].ready
    BY <1>2 DEF StandbyState
  <2> HIDE DEF r
  <2>3. QED
    BY <1>1, <1>2, <2>1, <2>2, MemberEffects DEF Member
<1>9. ASSUME NEW n \in Standby, Connect(n) PROVE SlotEffects
  <2>1. Member(n, "active", standby[n]) /\ standby[n].up
    BY <1>4, <1>9 DEF Connect, Member
  <2>2. QED
    BY <1>1, <1>2, <1>3, <1>9, <2>1, MemberEffects DEF SlotState
<1>10. ASSUME NEW n \in Standby, Refollow(n) PROVE SlotEffects
  <2>1. Member(n, "idle", standby[n]) /\ standby[n].up
    BY <1>4, <1>10 DEF Refollow, Member
  <2>2. QED
    BY <1>1, <1>2, <1>3, <2>1, MemberEffects DEF SlotState
<1>11. ASSUME NEW n \in Standby, slot[n] = "idle", Member(n, "none", standby[n])
       PROVE  SlotEffects
  BY <1>1, <1>2, <1>3, <1>11, MemberEffects DEF SlotState
<1>12. ASSUME NEW i \in Op, RecoverCreate(i), ~UNCHANGED <<slot, standby>>
       PROVE  SlotEffects
  <2> DEFINE n == journal[i].target
             v == IF slot[n] = "none" THEN "idle" ELSE slot[n]
  <2>1. slot' = [slot EXCEPT ![n] = v] /\ standby' = standby
    BY <1>2, <1>12 DEF RecoverCreate
  <2>2. n \in Standby /\ v \in SlotState /\ (v = "active" <=> slot[n] = "active")
    BY <1>2, <1>5 DEF SlotState
  <2>3. Member(n, v, standby[n])
    BY <1>4, <2>1, <2>2 DEF Member
  <2> HIDE DEF v
  <2>4. QED
    BY <1>1, <1>2, <1>3, <1>12, <2>2, <2>3, MemberEffects
<1>13. ASSUME NEW i \in Op, RecoverCopy(i), ~UNCHANGED <<slot, standby>>
       PROVE  SlotEffects
  <2> DEFINE n == journal[i].target
             r == [standby[n] EXCEPT !.ready = FALSE]
  <2>1. slot' = slot /\ standby' = [standby EXCEPT ![n] = r] /\ ~standby[n].up
    BY <1>2, <1>13 DEF RecoverCopy
  <2>2. n \in Standby /\ r \in StandbyState /\ ~r.up
    BY <1>2, <1>5, <2>1 DEF StandbyState
  <2>3. Member(n, slot[n], r) /\ slot[n] # "active"
    BY <1>3, <1>4, <2>1, <2>2 DEF Member
  <2> HIDE DEF r
  <2>4. QED
    BY <1>1, <1>2, <1>13, <2>2, <2>3, MemberEffects
<1>14. ASSUME NEW i \in Op, RecoverConfigure(i), ~UNCHANGED <<slot, standby>>
       PROVE  SlotEffects
  <2> DEFINE n == journal[i].target
             r == [standby[n] EXCEPT !.ready = TRUE]
  <2>1. slot' = slot /\ standby' = [standby EXCEPT ![n] = r]
    BY <1>2, <1>14 DEF RecoverConfigure
  <2>2. n \in Standby /\ r \in StandbyState /\ r.ready /\ r.up = standby[n].up
    BY <1>2, <1>5 DEF StandbyState
  <2>3. Member(n, slot[n], r)
    BY <1>4, <2>1, <2>2 DEF Member
  <2> HIDE DEF r
  <2>4. QED
    BY <1>1, <1>2, <1>3, <2>2, <2>3, MemberEffects
<1>15. ASSUME NEW i \in Op, RecoverStart(i), ~UNCHANGED <<slot, standby>>
       PROVE  SlotEffects
  <2> DEFINE n == journal[i].target
             r == [standby[n] EXCEPT !.up = standby[n].ready]
  <2>1. slot' = slot /\ standby' = [standby EXCEPT ![n] = r]
    BY <1>2, <1>15 DEF RecoverStart
  <2>2. n \in Standby /\ r \in StandbyState
        /\ r.up = standby[n].ready /\ r.ready = standby[n].ready
    BY <1>2, <1>5 DEF StandbyState
  <2>3. Member(n, slot[n], r)
    BY <1>4, <2>1, <2>2 DEF Member
  <2> HIDE DEF r
  <2>4. QED
    BY <1>1, <1>2, <1>3, <2>2, <2>3, MemberEffects
<1>16. ASSUME NEW i \in Op, RecoverCleanup(i) PROVE SlotEffects
  <2>1. CASE Droppable(journal[i].target)
    <3>1. Member(journal[i].target, "none", standby[journal[i].target])
          /\ slot[journal[i].target] = "idle"
      BY <1>4, <1>5, <1>16, <2>1 DEF RecoverCleanup, Dropped, Droppable, Member
    <3>2. QED
      BY <1>5, <1>11, <3>1
  <2>2. CASE ~Droppable(journal[i].target)
    BY <1>6, <1>16, <2>2 DEF RecoverCleanup
  <2>3. QED
    BY <2>1, <2>2
<1>17. ASSUME NEW n, standby' = standby,
              slot' = slot \/ (Droppable(n) /\ slot' = Dropped(n))
       PROVE  SlotEffects
  <2>1. CASE slot' = slot
    BY <1>6, <1>17, <2>1
  <2>2. CASE Droppable(n) /\ slot' = Dropped(n) /\ n \in Standby
    <3>1. Member(n, "none", standby[n]) /\ slot[n] = "idle"
      BY <1>4, <1>17, <2>2 DEF Dropped, Droppable, Member
    <3>2. QED
      BY <1>11, <2>2, <3>1
  <2>3. CASE slot' = Dropped(n) /\ n \notin Standby
    <3>1. slot' = slot
      BY <1>2, <2>3 DEF Dropped
    <3>2. QED
      BY <1>6, <1>17, <3>1
  <2>4. QED
    BY <1>17, <2>1, <2>2, <2>3
<1>18. CASE HookDrop
  <2> DEFINE n == handler["hook"].node
  <2>1. standby' = standby /\ (slot' = slot \/ (Droppable(n) /\ slot' = Dropped(n)))
    BY <1>18 DEF HookDrop
  <2> HIDE DEF n
  <2>2. QED
    BY <1>17, <2>1
<1>19. CASE PeerDrop
  <2> DEFINE n == handler["peer"].node
  <2>1. standby' = standby /\ (slot' = slot \/ (Droppable(n) /\ slot' = Dropped(n)))
    BY <1>19 DEF PeerDrop
  <2> HIDE DEF n
  <2>2. QED
    BY <1>17, <2>1
<1>20. CASE WorkerDrop /\ standby' = standby
  <2> DEFINE n == queue[Current].target
  <2>1. CASE Droppable(n) /\ slot' = Dropped(n)
    <3>1. Todo # {}
      BY <1>20 DEF IInv, SweepInv, WorkerDrop
    <3>2. n \in Standby
      BY <1>1, <3>1, CurrentIntent, Shape
    <3>3. Member(n, "none", standby[n]) /\ slot[n] = "idle"
      BY <1>4, <1>20, <2>1, <3>2 DEF Dropped, Droppable, Member
    <3>4. QED
      BY <1>11, <3>2, <3>3
  <2>2. CASE slot' = slot
    BY <1>6, <1>20, <2>2
  <2>3. QED
    BY <1>20, <2>1, <2>2 DEF WorkerDrop
<1>21. ASSUME NEW n \in Standby,
              RecoverBegin(n) \/ HookConsult(n) \/ PeerConsult(n) \/ MarkerSwept(n)
       PROVE  SlotEffects
  BY <1>6, <1>21 DEF RecoverBegin, HookConsult, PeerConsult, MarkerSwept
<1>22. ASSUME NEW i \in Op,
              RecoverComplete(i) \/ RecoverAbandon(i) \/ AbandonOp(i) \/ GraceEnds(i)
       PROVE  SlotEffects
  BY <1>6, <1>22 DEF RecoverComplete, RecoverAbandon, AbandonOp, GraceEnds
<1>23. CASE HookProbe \/ HookMark \/ DbFails \/ DbBack \/ Crash
            \/ \E i \in Intent : RescheduleRead(i)
  BY <1>6, <1>23 DEF HookProbe, HookMark, DbFails, DbBack, Crash, RescheduleRead
<1>24. CASE WorkerStep
  BY <1>6, <1>20, <1>24 DEF WorkerStep, SweepStart, SweepEnd, WorkerConsult,
                            WorkerMarkDone, RescheduleWrite, BackoffEnds
<1>25. ASSUME NEW i \in Op, RecoverStep(i) PROVE SlotEffects
  BY <1>6, <1>12, <1>13, <1>14, <1>15, <1>16, <1>22, <1>25 DEF RecoverStep
<1>26. QED
  BY <1>7, <1>8, <1>9, <1>10, <1>18, <1>19, <1>21, <1>22, <1>23, <1>24, <1>25
  DEF Next, HookStep

-----------------------------------------------------------------------------
(* The queue and the sweep.                                                *)

(* A new intent.                                                           *)
LEMMA QueuedFacts ==
  ASSUME TypeOK, NEW n \in Standby, queue' = Queued(n)
  PROVE  LET k == Len(queue) + 1
         IN /\ queue' \in Seq(MaintenanceIntent) /\ Len(queue') = k
            /\ k \notin Intent /\ Intent' = Intent \cup {k}
            /\ queue'[k].target = n /\ queue'[k].status = "Pending"
            /\ \A i \in Intent : queue'[i] = queue[i]
<1> DEFINE k == Len(queue) + 1
           x == [target |-> n, status |-> "Pending", attempts |-> 0,
                 due |-> TRUE, yielded |-> FALSE]
<1>1. queue \in Seq(MaintenanceIntent) /\ queue' = Append(queue, x)
  BY DEF TypeOK, Queued
<1>2. x \in MaintenanceIntent /\ x.target = n /\ x.status = "Pending"
  BY Constants DEF MaintenanceIntent
<1> HIDE DEF x
<1>3. queue' \in Seq(MaintenanceIntent) /\ Len(queue') = k
  BY <1>1, <1>2
<1>4. Len(queue) \in Nat /\ Intent = 1 .. Len(queue) /\ Intent' = 1 .. Len(queue')
  BY <1>1, <1>3 DEF Intent
<1>5. k \notin Intent /\ Intent' = Intent \cup {k}
  BY <1>3, <1>4
<1>6. queue'[k] = x /\ \A i \in Intent : queue'[i] = queue[i]
  BY <1>1, <1>2, <1>4
<1>7. QED
  BY <1>2, <1>3, <1>5, <1>6

(* A change of one intent.                                                 *)
LEMMA IntentFacts ==
  ASSUME TypeOK, NEW i \in Intent, NEW x \in MaintenanceIntent,
         queue' = [queue EXCEPT ![i] = x]
  PROVE  /\ queue' \in Seq(MaintenanceIntent) /\ Len(queue') = Len(queue)
         /\ Intent' = Intent /\ queue'[i] = x
         /\ \A j \in Intent : j # i => queue'[j] = queue[j]
<1>1. queue \in Seq(MaintenanceIntent) /\ Intent = DOMAIN queue
  BY DEF TypeOK, Intent
<1>2. queue' \in Seq(MaintenanceIntent) /\ Len(queue') = Len(queue)
      /\ DOMAIN queue' = DOMAIN queue
  BY <1>1
<1>3. QED
  BY <1>1, <1>2 DEF Intent

(* What a step may do to queue and sweep: it never forgets an intent, but  *)
(* for the one whose slot the worker has just dropped.                     *)
QueueEffects ==
  /\ QueueOK' /\ SweepInv' /\ worker'.saw = 0
  /\ Intent \subseteq Intent'
  /\ Len(queue') = Len(queue) \/ HookDrop \/ \E i \in Op : RecoverCleanup(i)
  /\ \A i \in Intent :
       /\ queue'[i].target = queue[i].target
       /\ Standing(i) => \/ Standing(i)'
                         \/ slot'[queue[i].target] = "none"

LEMMA WorkerSet ==
  ASSUME NEW a \in {"sleep", "pick", "drop", "mark"}, NEW t,
         t \in [DOMAIN t -> 0 .. MaxAttempts - 1],
         worker' = [at |-> a, saw |-> 0, todo |-> t],
         queue' \in Seq(MaintenanceIntent), DOMAIN t \subseteq Intent',
         a \in {"drop", "mark"} => DOMAIN t # {},
         \A i \in DOMAIN t : queue'[i].attempts <= t[i],
         retry' \in [id : Nat, attempts : 0 .. MaxAttempts - 1],
         retry'.id # 0 => /\ retry'.id \in Intent'
                          /\ retry'.attempts <= queue'[retry'.id].attempts
  PROVE  /\ QueueOK' /\ SweepInv' /\ worker'.saw = 0
         /\ Todo' = DOMAIN t /\ worker'.at = a
<1>1. worker'.at = a /\ worker'.saw = 0 /\ worker'.todo = t
  OBVIOUS
<1>2. Todo' = DOMAIN t
  BY <1>1 DEF Todo
<1>3. worker' \in Worker'
  BY <1>2 DEF Worker
<1>4. QueueOK'
  BY <1>2, <1>3 DEF QueueOK
<1>5. SweepInv'
  BY <1>1, <1>2 DEF SweepInv
<1>6. QED
  BY <1>1, <1>2, <1>4, <1>5

(* The worker as it is, and where it goes from its current intent.         *)
LEMMA WorkerFacts ==
  ASSUME IInv
  PROVE  /\ worker = [at |-> worker.at, saw |-> 0, todo |-> worker.todo]
         /\ worker.at \in {"sleep", "pick", "drop", "mark"}
         /\ worker.todo \in [DOMAIN worker.todo -> 0 .. MaxAttempts - 1]
         /\ DOMAIN worker.todo = Todo /\ Todo \subseteq Intent
<1>1. worker \in Worker /\ Todo \subseteq Intent
  BY DEF IInv, TypeOK
<1>2. worker.saw = 0
  BY DEF IInv, SawInv
<1>3. QED
  BY <1>1, <1>2 DEF Worker, Todo

LEMMA AdvanceFacts ==
  ASSUME IInv
  PROVE  LET t == [i \in Todo \ {Current} |-> worker.todo[i]]
         IN /\ Advance = [at |-> "pick", saw |-> 0, todo |-> t]
            /\ t \in [DOMAIN t -> 0 .. MaxAttempts - 1]
            /\ DOMAIN t = Todo \ {Current} /\ \A i \in DOMAIN t : t[i] = worker.todo[i]
<1>1. worker.todo \in [Todo -> 0 .. MaxAttempts - 1]
  BY WorkerFacts
<1>2. QED
  BY <1>1 DEF Advance

(* A consult that finds no owner finds a slot that waits for nobody.       *)
LEMMA NoOwnerNoWindow ==
  ASSUME IInv, NEW n \in Standby, ~Owned(n, SeenActive(n))
  PROVE  window[n] = 0
<1> SUFFICES ASSUME window[n] # 0 PROVE FALSE
  OBVIOUS
<1>1. WindowInv
  BY DEF IInv
<1>2. window[n] \in Owners(n)
  BY <1>1 DEF WindowInv, Owners
<1>3. slot[n] = "active"
  BY <1>2 DEF Owned, Discharging, SeenActive
<1>4. QED
  BY <1>1, <1>3 DEF WindowInv

(* Steps that leave the queue and the sweep alone.                         *)
LEMMA QueueAlone ==
  ASSUME IInv, UNCHANGED <<queue, worker, retry>>
  PROVE  QueueEffects
<1>1. QueueOK /\ SweepInv /\ worker.saw = 0
  BY TypeParts DEF IInv, SawInv
<1>2. QueueOK'
  BY <1>1 DEF QueueOK, Todo, Intent, Worker
<1>3. SweepInv'
  BY <1>1 DEF SweepInv, Todo, Intent
<1>4. Intent' = Intent /\ \A i \in Intent : Standing(i) => Standing(i)'
  BY DEF Intent, Standing, Current, Todo
<1>5. QED
  BY <1>1, <1>2, <1>3, <1>4 DEF QueueEffects

(* A new intent is at the end of the queue.                                *)
LEMMA QueueGrows ==
  ASSUME IInv, NEW n \in Standby, queue' = Queued(n), UNCHANGED <<worker, retry>>,
         HookDrop \/ \E i \in Op : RecoverCleanup(i)
  PROVE  QueueEffects
<1> DEFINE k == Len(queue) + 1
<1>1. TypeOK /\ QueueOK /\ SweepInv
  BY TypeParts DEF IInv
<1>2. /\ queue' \in Seq(MaintenanceIntent) /\ Intent \subseteq Intent'
      /\ \A i \in Intent : queue'[i] = queue[i]
  BY <1>1, QueuedFacts
<1>3. Todo' = Todo /\ Current' = Current /\ Todo \subseteq Intent
  BY <1>1 DEF Todo, Current, QueueOK
<1>4. QueueOK'
  <2>1. worker' \in Worker'
    BY <1>1, <1>3 DEF QueueOK, Worker
  <2>2. QED
    BY <1>1, <1>2, <1>3, <2>1 DEF QueueOK
<1>5. SweepInv'
  BY <1>1, <1>2, <1>3 DEF SweepInv
<1>6. \A i \in Intent : Standing(i) => Standing(i)'
  BY <1>2, <1>3 DEF Standing
<1>7. QED
  BY <1>2, <1>4, <1>5, <1>6 DEF QueueEffects, IInv, SawInv

(* The sweep finishes its current intent, which becomes x.                 *)
LEMMA QueueAdvances ==
  ASSUME IInv, Todo # {}, NEW x \in MaintenanceIntent,
         queue' = [queue EXCEPT ![Current] = x], worker' = Advance, retry' = retry,
         x.target = queue[Current].target,
         queue[Current].attempts <= x.attempts,
         Standing(Current) => x.yielded \/ x.status # "Done"
  PROVE  QueueEffects
<1> DEFINE c == Current
           t == [i \in Todo \ {c} |-> worker.todo[i]]
<1>1. TypeOK /\ SweepInv /\ QueueOK
  BY TypeParts DEF IInv
<1>2. c \in Todo /\ c \in Intent
  BY <1>1, CurrentIntent
<1>3. /\ queue' \in Seq(MaintenanceIntent) /\ Len(queue') = Len(queue)
      /\ Intent' = Intent /\ queue'[c] = x
      /\ \A j \in Intent : j # c => queue'[j] = queue[j]
  BY <1>1, <1>2, IntentFacts
<1>4. /\ worker' = [at |-> "pick", saw |-> 0, todo |-> t]
      /\ t \in [DOMAIN t -> 0 .. MaxAttempts - 1]
      /\ DOMAIN t = Todo \ {c} /\ \A i \in DOMAIN t : t[i] = worker.todo[i]
  BY AdvanceFacts
<1>5. DOMAIN t \subseteq Intent'
  BY <1>1, <1>3, <1>4 DEF QueueOK
<1>6. \A i \in DOMAIN t : queue'[i].attempts <= t[i]
  BY <1>1, <1>3, <1>4, <1>5 DEF SweepInv
<1>7. retry' \in [id : Nat, attempts : 0 .. MaxAttempts - 1]
  BY <1>1 DEF QueueOK
<1>8. retry'.id # 0 => /\ retry'.id \in Intent'
                       /\ retry'.attempts <= queue'[retry'.id].attempts
  <2>1. retry.id # 0 => retry.id \in Intent
                        /\ retry.attempts <= queue[retry.id].attempts
    BY <1>1 DEF SweepInv
  <2>2. retry.attempts \in Nat /\ queue[c].attempts \in Nat /\ x.attempts \in Nat
    BY <1>1, <1>2, Shape, Constants DEF QueueOK, MaintenanceIntent
  <2>3. QED
    BY <1>3, <2>1, <2>2
<1> HIDE DEF t, c
<1>9. QueueOK' /\ SweepInv' /\ worker'.saw = 0 /\ worker'.at = "pick"
  BY <1>3, <1>4, <1>5, <1>6, <1>7, <1>8, WorkerSet
<1>10. \A i \in Intent : queue'[i].target = queue[i].target
                         /\ (Standing(i) => Standing(i)')
  BY <1>3, <1>9 DEF Standing, c
<1>11. QED
  BY <1>3, <1>9, <1>10 DEF QueueEffects

(* The sweep moves while the queue stays.                                  *)
LEMMA SweepMoves ==
  ASSUME IInv, NEW a \in {"sleep", "pick", "drop", "mark"}, NEW t,
         t \in [DOMAIN t -> 0 .. MaxAttempts - 1],
         worker' = [at |-> a, saw |-> 0, todo |-> t],
         queue' = queue, retry' = retry \/ retry' = NoRetry, DOMAIN t \subseteq Intent,
         a \in {"drop", "mark"} => DOMAIN t # {} /\ t = worker.todo,
         \A i \in DOMAIN t : queue[i].attempts <= t[i],
         a = "mark" => slot'[queue[Current].target] = "none"
  PROVE  QueueEffects
<1>1. TypeOK /\ SweepInv /\ QueueOK
  BY TypeParts DEF IInv
<1>2. queue' \in Seq(MaintenanceIntent) /\ Intent' = Intent
  BY <1>1 DEF QueueOK, Intent
<1>3. retry' \in [id : Nat, attempts : 0 .. MaxAttempts - 1]
      /\ (retry'.id # 0 => retry' = retry)
  BY <1>1, Constants DEF QueueOK, NoRetry
<1>4. retry'.id # 0 => /\ retry'.id \in Intent'
                       /\ retry'.attempts <= queue'[retry'.id].attempts
  BY <1>1, <1>2, <1>3 DEF SweepInv
<1>5. /\ QueueOK' /\ SweepInv' /\ worker'.saw = 0
      /\ Todo' = DOMAIN t /\ worker'.at = a
  BY <1>2, <1>3, <1>4, WorkerSet
<1>6. a = "mark" => Current' = Current
  BY <1>5 DEF Current, Todo
<1>7. \A i \in Intent :
        Standing(i) => Standing(i)' \/ slot'[queue[i].target] = "none"
  BY <1>5, <1>6 DEF Standing
<1>8. QED
  BY <1>2, <1>5, <1>7 DEF QueueEffects

(* A change of one intent while a sweep is where it is.                    *)
LEMMA IntentMoves ==
  ASSUME IInv, NEW i \in Intent, NEW x \in MaintenanceIntent,
         queue' = [queue EXCEPT ![i] = x], worker' = worker,
         retry' = NoRetry \/ (retry' = retry /\ x.attempts = queue[i].attempts),
         x.target = queue[i].target, x.attempts <= queue[i].attempts,
         x.yielded = queue[i].yielded, x.status = "Pending"
  PROVE  QueueEffects
<1>1. TypeOK /\ SweepInv /\ QueueOK /\ worker.saw = 0
  BY TypeParts DEF IInv, SawInv
<1>2. /\ queue' \in Seq(MaintenanceIntent) /\ Len(queue') = Len(queue)
      /\ Intent' = Intent /\ queue'[i] = x
      /\ \A j \in Intent : j # i => queue'[j] = queue[j]
  BY <1>1, IntentFacts
<1>3. Todo' = Todo /\ Current' = Current /\ Todo \subseteq Intent
  BY <1>1 DEF Todo, Current, QueueOK
<1>4. retry' \in [id : Nat, attempts : 0 .. MaxAttempts - 1]
  BY <1>1, Constants DEF QueueOK, NoRetry
<1>5. QueueOK'
  <2>1. worker' \in Worker'
    BY <1>1, <1>3 DEF QueueOK, Worker
  <2>2. QED
    BY <1>2, <1>3, <1>4, <2>1 DEF QueueOK
<1>6. \A j \in Intent : queue'[j].attempts <= queue[j].attempts
                        /\ queue[j].attempts \in Nat /\ queue'[j].attempts \in Nat
  BY <1>1, <1>2, Shape, Constants DEF MaintenanceIntent
<1>7. \A j \in Todo' : queue'[j].attempts <= worker'.todo[j]
  <2>1. \A j \in Todo : worker.todo[j] \in Nat /\ queue[j].attempts <= worker.todo[j]
    BY <1>1, Constants DEF SweepInv, QueueOK, Worker
  <2>2. QED
    BY <1>3, <1>6, <2>1
<1>8. retry'.id # 0 => /\ retry'.id \in Intent'
                       /\ retry'.attempts <= queue'[retry'.id].attempts
  BY <1>1, <1>2 DEF SweepInv, NoRetry
<1>9. SweepInv'
  BY <1>1, <1>3, <1>7, <1>8 DEF SweepInv
<1>10. \A j \in Intent : queue'[j].target = queue[j].target
  BY <1>2
<1>11. \A j \in Intent : Standing(j) => Standing(j)' \/ slot'[queue[j].target] = "none"
  BY <1>2, <1>3 DEF Standing
<1>12. QED
  BY <1>1, <1>2, <1>5, <1>9, <1>10, <1>11 DEF QueueEffects

LEMMA QueueStep ==
  ASSUME IInv, Next
  PROVE  QueueEffects
<1>1. TypeOK /\ SweepInv /\ QueueOK /\ SawInv
  BY TypeParts DEF IInv
<1>2. queue \in [Intent -> MaintenanceIntent] /\ retry.attempts \in 0 .. MaxAttempts - 1
      /\ \A i \in Op : journal[i].target \in Standby
  BY <1>1, Shape DEF QueueOK
<1>2a. \A i \in Intent : queue[i].attempts \in 0 .. MaxAttempts - 1
  BY <1>2 DEF MaintenanceIntent
<1>2b. \A i \in Intent : queue[i].attempts \in Nat
  BY <1>2a, Constants
<1>3. ASSUME NEW n \in Standby,
             \/ RecoverBegin(n) \/ HookConsult(n) \/ PeerConsult(n)
             \/ StandbyDown(n) \/ StandbyUp(n) \/ Connect(n) \/ Refollow(n)
             \/ MarkerSwept(n)
      PROVE  QueueEffects
  BY <1>3, QueueAlone DEF RecoverBegin, HookConsult, PeerConsult, StandbyDown,
     StandbyUp, Connect, Refollow, MarkerSwept
<1>4. ASSUME NEW i \in Op, RecoverStep(i) \/ AbandonOp(i) \/ GraceEnds(i)
      PROVE  QueueEffects
  <2>1. CASE RecoverCleanup(i)
    <3>1. \/ UNCHANGED <<queue, worker, retry>>
          \/ queue' = Queued(journal[i].target) /\ UNCHANGED <<worker, retry>>
      BY <2>1 DEF RecoverCleanup
    <3>2. QED
      BY <1>2, <2>1, <3>1, QueueAlone, QueueGrows
  <2>2. CASE ~RecoverCleanup(i)
    BY <1>4, <2>2, QueueAlone DEF RecoverStep, RecoverCreate, RecoverCopy,
       RecoverConfigure, RecoverComplete, RecoverStart, RecoverAbandon, AbandonOp,
       GraceEnds
  <2>3. QED
    BY <2>1, <2>2
<1>5. ASSUME NEW i \in Intent, RescheduleRead(i) PROVE QueueEffects
  <2>1. /\ retry' = [id |-> i, attempts |-> queue[i].attempts]
        /\ queue' = queue /\ worker' = worker
    BY <1>5 DEF RescheduleRead
  <2>2. Intent' = Intent /\ Todo' = Todo /\ Current' = Current
    BY <2>1 DEF Intent, Todo, Current
  <2>3. i \in Nat /\ queue[i].attempts \in 0 .. MaxAttempts - 1
    BY <1>1, <1>2, Shape DEF MaintenanceIntent
  <2>4. QueueOK'
    <3>1. worker' \in Worker'
      BY <1>1, <2>1, <2>2 DEF QueueOK, Worker
    <3>2. QED
      BY <1>1, <2>1, <2>2, <2>3, <3>1 DEF QueueOK
  <2>5. SweepInv'
    BY <1>1, <2>1, <2>2, <2>3 DEF SweepInv
  <2>6. QED
    BY <1>1, <2>1, <2>2, <2>4, <2>5 DEF QueueEffects, Standing, SawInv
<1>6. CASE HookDrop
  <2> DEFINE n == handler["hook"].node
  <2>1. n \in Standby
    BY <1>1, <1>6 DEF SawInv, HookDrop, Busy
  <2>2. \/ UNCHANGED <<queue, worker, retry>>
        \/ queue' = Queued(n) /\ UNCHANGED <<worker, retry>>
    BY <1>6 DEF HookDrop
  <2> HIDE DEF n
  <2>3. QED
    BY <1>6, <2>1, <2>2, QueueAlone, QueueGrows
<1>7. CASE HookProbe \/ HookMark \/ PeerDrop \/ DbFails \/ DbBack
  BY <1>7, QueueAlone DEF HookProbe, HookMark, PeerDrop, DbFails, DbBack
<1>8. CASE Crash \/ SweepEnd
  <2>1. worker' = [at |-> "sleep", saw |-> 0, todo |-> <<>>] /\ queue' = queue
        /\ (retry' = retry \/ retry' = NoRetry)
    BY <1>8 DEF Crash, SweepEnd, Asleep
  <2>2. DOMAIN <<>> = {} /\ <<>> \in [{} -> 0 .. MaxAttempts - 1]
    OBVIOUS
  <2>3. QED
    BY <2>1, <2>2, SweepMoves
<1>9. CASE SweepStart
  <2> DEFINE due == {i \in Intent : queue[i].status = "Pending" /\ queue[i].due}
             t == [i \in due |-> queue[i].attempts]
  <2>1. worker' = [at |-> "pick", saw |-> 0, todo |-> t] /\ UNCHANGED <<queue, retry>>
    BY <1>9 DEF SweepStart
  <2>2. DOMAIN t \subseteq Intent /\ \A i \in DOMAIN t : t[i] = queue[i].attempts
    OBVIOUS
  <2>3. \A i \in Intent : queue[i].attempts \in 0 .. MaxAttempts - 1
    BY <1>2 DEF MaintenanceIntent
  <2>4. t \in [DOMAIN t -> 0 .. MaxAttempts - 1]
    BY <2>3
  <2>5. \A i \in DOMAIN t : queue[i].attempts <= t[i]
    BY <2>2, <2>3, Constants
  <2> HIDE DEF t
  <2>6. QED
    BY <2>1, <2>2, <2>4, <2>5, SweepMoves
<1>10. ASSUME Todo # {}
       PROVE  /\ Current \in Todo /\ Current \in Intent
              /\ queue[Current] \in MaintenanceIntent
              /\ queue[Current].attempts \in Nat
              /\ queue[Current].target \in Standby
              /\ worker.todo[Current] \in 0 .. MaxAttempts - 1
              /\ queue[Current].attempts <= worker.todo[Current]
  <2>1. Current \in Todo /\ Current \in Intent
    BY <1>1, <1>10, CurrentIntent
  <2>2. worker.todo[Current] \in 0 .. MaxAttempts - 1
    BY <2>1, WorkerFacts
  <2>3. QED
    BY <1>1, <1>2, <1>2b, <2>1, <2>2 DEF SweepInv, MaintenanceIntent
<1>11. CASE WorkerConsult
  <2> DEFINE n == queue[Current].target
             x == [queue[Current] EXCEPT !.status = "Done", !.due = FALSE,
                                         !.yielded = TRUE]
  <2>1. Todo # {} /\ retry' = retry
        /\ \/ /\ queue' = [MarkDone(Current) EXCEPT ![Current].yielded = TRUE]
              /\ worker' = Advance
           \/ /\ ~Owned(n, SeenActive(n)) /\ queue' = queue
              /\ worker' = [worker EXCEPT !.at = "drop", !.saw = window[n]]
    BY <1>11 DEF WorkerConsult
  <2>2. CASE /\ queue' = [MarkDone(Current) EXCEPT ![Current].yielded = TRUE]
             /\ worker' = Advance
    <3>1. queue' = [queue EXCEPT ![Current] = x]
      BY <1>2, <1>10, <2>1, <2>2 DEF MarkDone
    <3>2. x \in MaintenanceIntent /\ x.target = queue[Current].target
          /\ x.attempts = queue[Current].attempts /\ x.yielded
      BY <1>10, <2>1 DEF MaintenanceIntent
    <3> HIDE DEF x
    <3>3. queue[Current].attempts <= x.attempts
      BY <1>10, <2>1, <3>2
    <3>4. QED
      BY <2>1, <2>2, <3>1, <3>2, <3>3, QueueAdvances
  <2>3. CASE /\ ~Owned(n, SeenActive(n)) /\ queue' = queue
             /\ worker' = [worker EXCEPT !.at = "drop", !.saw = window[n]]
    <3>1. window[n] = 0
      BY <1>10, <2>1, <2>3, NoOwnerNoWindow
    <3>2. worker' = [at |-> "drop", saw |-> 0, todo |-> worker.todo]
      BY <2>3, <3>1, WorkerFacts
    <3>3. \A i \in DOMAIN worker.todo : queue[i].attempts <= worker.todo[i]
      BY <1>1 DEF SweepInv, Todo
    <3>4. QED
      BY <2>1, <2>3, <3>2, <3>3, WorkerFacts, SweepMoves
  <2>4. QED
    BY <2>1, <2>2, <2>3
<1>12. CASE WorkerDrop
  <2> DEFINE n == queue[Current].target
  <2>1. Todo # {} /\ retry' = retry
    BY <1>1, <1>12 DEF SweepInv, WorkerDrop
  <2>2. CASE Droppable(n) /\ slot' = Dropped(n) /\ queue' = queue
             /\ worker' = [worker EXCEPT !.at = "mark"]
    <3>1. slot'[n] = "none"
      BY <1>1, <1>10, <2>1, <2>2 DEF Dropped, TypeOK
    <3>2. worker' = [at |-> "mark", saw |-> 0, todo |-> worker.todo]
      BY <2>2, WorkerFacts
    <3>3. \A i \in DOMAIN worker.todo : queue[i].attempts <= worker.todo[i]
      BY <1>1 DEF SweepInv, Todo
    <3>4. QED
      BY <2>1, <2>2, <3>1, <3>2, <3>3, WorkerFacts, SweepMoves
  <2>3. CASE queue' = Fail(Current) /\ worker' = Advance
    <3> DEFINE c == queue[Current]
               given == [c EXCEPT !.status = "Abandoned", !.due = FALSE]
               again == [c EXCEPT !.attempts = c.attempts + 1,
                                  !.status = "Pending", !.due = FALSE]
    <3>1. CASE worker.todo[Current] + 1 >= MaxAttempts
      <4>1. queue' = [queue EXCEPT ![Current] = given]
        BY <1>2, <1>10, <2>1, <2>3, <3>1 DEF Fail, MarkAbandoned
      <4>2. given \in MaintenanceIntent /\ given.target = c.target
            /\ given.attempts = c.attempts /\ given.status # "Done"
        BY <1>10, <2>1 DEF MaintenanceIntent
      <4> HIDE DEF given
      <4>3. c.attempts <= given.attempts
        BY <1>10, <2>1, <4>2
      <4>4. QED
        BY <2>1, <2>3, <4>1, <4>2, <4>3, QueueAdvances
    <3>2. CASE ~(worker.todo[Current] + 1 >= MaxAttempts)
      <4>1. queue' = [queue EXCEPT ![Current] = again]
        BY <1>2, <1>10, <2>1, <2>3, <3>2 DEF Fail, MarkAttempt
      <4>2. c.attempts + 1 \in 0 .. MaxAttempts - 1 /\ c.attempts <= c.attempts + 1
        <5>1. c.attempts \in 0 .. MaxAttempts - 1
          BY <1>10, <2>1 DEF MaintenanceIntent
        <5>2. QED
          BY <1>10, <2>1, <3>2, <5>1, Constants
      <4>3. again \in MaintenanceIntent /\ again.target = c.target
            /\ again.attempts = c.attempts + 1 /\ again.status # "Done"
        BY <1>10, <2>1, <4>2 DEF MaintenanceIntent
      <4> HIDE DEF again
      <4>4. QED
        BY <2>1, <2>3, <4>1, <4>2, <4>3, QueueAdvances
    <3>3. QED
      BY <3>1, <3>2
  <2>4. QED
    BY <1>12, <2>2, <2>3 DEF WorkerDrop
<1>13. CASE WorkerMarkDone
  <2> DEFINE x == [queue[Current] EXCEPT !.status = "Done", !.due = FALSE]
  <2>1. Todo # {} /\ retry' = retry /\ worker' = Advance /\ worker.at = "mark"
    BY <1>1, <1>13 DEF SweepInv, WorkerMarkDone
  <2>2. queue' = [queue EXCEPT ![Current] = x]
    BY <1>2, <1>10, <1>13, <2>1 DEF WorkerMarkDone, MarkDone
  <2>3. x \in MaintenanceIntent /\ x.target = queue[Current].target
        /\ x.attempts = queue[Current].attempts
        /\ x.yielded = queue[Current].yielded
    BY <1>10, <2>1 DEF MaintenanceIntent
  <2>4. Standing(Current) => x.yielded
    BY <2>1, <2>3 DEF Standing
  <2> HIDE DEF x
  <2>5. queue[Current].attempts <= x.attempts
    BY <1>10, <2>1, <2>3
  <2>6. QED
    BY <2>1, <2>2, <2>3, <2>4, <2>5, QueueAdvances
<1>14. CASE RescheduleWrite
  <2> DEFINE i == retry.id
             x == [queue[i] EXCEPT !.status = "Pending", !.attempts = retry.attempts,
                                   !.due = TRUE]
  <2>1. i \in Intent /\ retry.attempts <= queue[i].attempts
    BY <1>1, <1>14 DEF SweepInv, RescheduleWrite
  <2>2. queue' = [queue EXCEPT ![i] = x] /\ retry' = NoRetry /\ worker' = worker
    BY <1>2, <1>14, <2>1 DEF RescheduleWrite
  <2>3. x \in MaintenanceIntent /\ x.target = queue[i].target
        /\ x.attempts = retry.attempts /\ x.yielded = queue[i].yielded
        /\ x.status = "Pending"
    BY <1>2, <2>1 DEF MaintenanceIntent
  <2> HIDE DEF x, i
  <2>4. QED
    BY <2>1, <2>2, <2>3, IntentMoves
<1>15. ASSUME NEW i \in Intent, BackoffEnds(i) PROVE QueueEffects
  <2> DEFINE x == [queue[i] EXCEPT !.due = TRUE]
  <2>1. queue' = [queue EXCEPT ![i] = x] /\ retry' = retry /\ worker' = worker
        /\ queue[i].status = "Pending"
    BY <1>2, <1>15 DEF BackoffEnds
  <2>2. x \in MaintenanceIntent /\ x.target = queue[i].target
        /\ x.attempts = queue[i].attempts /\ x.yielded = queue[i].yielded
        /\ x.status = queue[i].status
    BY <1>2 DEF MaintenanceIntent
  <2> HIDE DEF x
  <2>3. x.attempts <= queue[i].attempts
    BY <1>2b, <2>2
  <2>4. QED
    BY <2>1, <2>2, <2>3, IntentMoves
<1>16. QED
  BY <1>3, <1>4, <1>5, <1>6, <1>7, <1>8, <1>9, <1>11, <1>12, <1>13, <1>14, <1>15
  DEF Next, HookStep, WorkerStep

-----------------------------------------------------------------------------
(* The handlers.                                                           *)
Clean(x) == x.saw = 0 /\ (x.at # "free" => x.node \in Standby)

(* What a step may do to the handlers.                                     *)
HandlerEffects ==
  /\ HandlerOK'
  /\ \A h \in {"hook", "peer"} : Clean(handler'[h])
  /\ handler'["hook"].at \in {"probe", "drop"} =>
       \/ handler["hook"].at \in {"probe", "drop"}
       \/ \E n \in Standby : HookConsult(n)

LEMMA HandlerSet ==
  ASSUME IInv, NEW h \in {"hook", "peer"}, NEW x \in Handler,
         handler' = [handler EXCEPT ![h] = x], Clean(x),
         h = "hook" /\ x.at \in {"probe", "drop"} =>
           \/ handler["hook"].at \in {"probe", "drop"}
           \/ \E n \in Standby : HookConsult(n)
  PROVE  HandlerEffects
<1>1. handler \in [{"hook", "peer"} -> Handler]
  BY DEF IInv, TypeOK
<1>2. handler' \in [{"hook", "peer"} -> Handler]
  BY <1>1
<1>3. handler'[h] = x
      /\ \A g \in {"hook", "peer"} : g # h => handler'[g] = handler[g]
  BY <1>1
<1>4. \A g \in {"hook", "peer"} : Clean(handler[g])
  BY DEF IInv, SawInv, Busy, Clean
<1>5. \A g \in {"hook", "peer"} : Clean(handler'[g])
  BY <1>3, <1>4
<1>6. QED
  BY <1>2, <1>3, <1>5 DEF HandlerEffects, HandlerOK, Handler

LEMMA HandlerStep ==
  ASSUME IInv, Next
  PROVE  HandlerEffects
<1>1. handler \in [{"hook", "peer"} -> Handler]
  BY DEF IInv, TypeOK
<1>2. \A h \in {"hook", "peer"} : Clean(handler[h])
  BY DEF IInv, SawInv, Busy, Clean
<1>3. Free \in Handler /\ Clean(Free) /\ Free.at = "free"
  BY DEF Free, Handler, Clean
<1>4. CASE UNCHANGED handler
  <2>1. HandlerOK'
    BY <1>1, <1>4 DEF HandlerOK, Handler
  <2>2. QED
    BY <1>2, <1>4, <2>1 DEF HandlerEffects
<1>5. ASSUME NEW h \in {"hook", "peer"}, handler' = [handler EXCEPT ![h] = Free]
      PROVE  HandlerEffects
  BY <1>3, <1>5, HandlerSet
<1>6. ASSUME NEW n \in Standby, HookConsult(n) PROVE HandlerEffects
  <2> DEFINE x == [at |-> "probe", node |-> n, saw |-> window[n]]
  <2>1. CASE handler' = [handler EXCEPT !["hook"] = x] /\ ~Owned(n, SeenActive(n))
    <3>1. window[n] = 0
      BY <2>1, NoOwnerNoWindow
    <3>2. x \in Handler /\ Clean(x) /\ x.at = "probe"
      BY <3>1 DEF Handler, Clean
    <3> HIDE DEF x
    <3>3. QED
      BY <1>6, <2>1, <3>2, HandlerSet
  <2>2. QED
    BY <1>4, <1>6, <2>1 DEF HookConsult
<1>7. ASSUME NEW n \in Standby, PeerConsult(n) PROVE HandlerEffects
  <2> DEFINE x == [at |-> "drop", node |-> n, saw |-> window[n]]
  <2>1. CASE ~Owned(n, SeenActive(n))
    <3>1. window[n] = 0 /\ handler' = [handler EXCEPT !["peer"] = x]
      BY <1>7, <2>1, NoOwnerNoWindow DEF PeerConsult
    <3>2. x \in Handler /\ Clean(x)
      BY <3>1 DEF Handler, Clean
    <3> HIDE DEF x
    <3>3. QED
      BY <3>1, <3>2, HandlerSet
  <2>2. CASE Owned(n, SeenActive(n))
    BY <1>5, <1>7, <2>2 DEF PeerConsult
  <2>3. QED
    BY <2>1, <2>2
<1>8. ASSUME NEW a \in {"drop", "mark"}, handler["hook"].at \in {"probe", "drop"},
             handler' = [handler EXCEPT !["hook"].at = a]
      PROVE  HandlerEffects
  <2> DEFINE x == [handler["hook"] EXCEPT !.at = a]
  <2>1. x \in Handler /\ Clean(x) /\ x.at = a
    BY <1>1, <1>2, <1>8 DEF Handler, Clean
  <2>2. handler' = [handler EXCEPT !["hook"] = x]
    BY <1>1, <1>8
  <2> HIDE DEF x
  <2>3. QED
    BY <1>8, <2>1, <2>2, HandlerSet
<1>9. CASE HookStep
  <2>1. CASE HookProbe
    BY <1>5, <1>8, <2>1 DEF HookProbe
  <2>2. CASE HookDrop
    BY <1>8, <2>2 DEF HookDrop
  <2>3. CASE HookMark
    BY <1>5, <2>3 DEF HookMark
  <2>4. QED
    BY <1>9, <2>1, <2>2, <2>3 DEF HookStep
<1>10. CASE PeerDrop
  BY <1>5, <1>10 DEF PeerDrop
<1>11. CASE Crash
  <2>1. handler' = [h \in {"hook", "peer"} |-> Free]
    BY <1>1, <1>11 DEF Crash
  <2>2. handler' \in [{"hook", "peer"} -> Handler]
        /\ \A h \in {"hook", "peer"} : handler'[h] = Free
    BY <1>3, <2>1
  <2>3. QED
    BY <1>3, <2>2 DEF HandlerEffects, HandlerOK, Handler
<1>12. ASSUME NEW n \in Standby,
              \/ RecoverBegin(n) \/ StandbyDown(n) \/ StandbyUp(n) \/ Connect(n)
              \/ Refollow(n) \/ MarkerSwept(n)
       PROVE  HandlerEffects
  BY <1>4, <1>12 DEF RecoverBegin, StandbyDown, StandbyUp, Connect, Refollow,
                     MarkerSwept
<1>13. ASSUME NEW i \in Op, RecoverStep(i) \/ AbandonOp(i) \/ GraceEnds(i)
       PROVE  HandlerEffects
  BY <1>4, <1>13 DEF RecoverStep, RecoverCreate, RecoverCopy, RecoverConfigure,
     RecoverComplete, RecoverStart, RecoverCleanup, RecoverAbandon, AbandonOp,
     GraceEnds
<1>14. CASE WorkerStep \/ DbFails \/ DbBack \/ \E i \in Intent : RescheduleRead(i)
  BY <1>4, <1>14 DEF WorkerStep, DbFails, DbBack, RescheduleRead
<1>15. QED
  BY <1>6, <1>7, <1>9, <1>10, <1>11, <1>12, <1>13, <1>14 DEF Next

(* What nobody answered for was seen to have no owner.                     *)
LEMMA SawStep ==
  ASSUME IInv, Next
  PROVE  SawInv'
<1>1. \A h \in {"hook", "peer"} : Clean(handler'[h])
  BY HandlerStep DEF HandlerEffects
<1>2. worker'.saw = 0
  BY QueueStep DEF QueueEffects
<1>3. \A h \in {"hook", "peer"} : handler'[h].saw = 0
        /\ (handler'[h].at # "free" => handler'[h].node \in Standby)
  BY <1>1 DEF Clean
<1>4. QED
  BY <1>2, <1>3 DEF SawInv, Busy

-----------------------------------------------------------------------------
(* What the rest of the state keeps.                                       *)
LEMMA FaultType ==
  ASSUME TypeOK
  PROVE  /\ UNCHANGED faults => faults' \in 0 .. MaxFaults
         /\ \A k : Fault(k) => faults' \in 0 .. MaxFaults
<1>1. faults \in 0 .. MaxFaults
  BY DEF TypeOK
<1>2. \A k : Fault(k) => faults > 0 /\ faults' = faults - 1
  BY DEF Fault
<1>3. QED
  BY <1>1, <1>2, Constants

LEMMA OtherStep ==
  ASSUME IInv, Next
  PROVE  OtherOK'
<1>1. TypeOK /\ window \in [Standby -> Nat] /\ db \in BOOLEAN
      /\ markers \subseteq Standby /\ reported \subseteq Standby
  BY DEF IInv, TypeOK
<1>2. Op \subseteq Nat
  BY <1>1, Shape
<1>3. \A h \in {"hook", "peer"} : handler[h].at # "free" => handler[h].node \in Standby
  BY DEF IInv, SawInv, Busy
<1>4. (UNCHANGED faults \/ \E k : Fault(k)) => faults' \in 0 .. MaxFaults
  BY <1>1, FaultType
<1>5. window' \in [Standby -> Nat]
  <2>1. ASSUME NEW n, NEW w \in Nat, window' = [window EXCEPT ![n] = w]
        PROVE  window' \in [Standby -> Nat]
    BY <1>1, <2>1
  <2>2. ASSUME NEW n, NEW i \in Op, window' = [window EXCEPT ![n] = IF @ = i THEN 0 ELSE @]
        PROVE  window' \in [Standby -> Nat]
    BY <1>1, <2>2
  <2>3. CASE UNCHANGED window
    BY <1>1, <2>3
  <2>4. ASSUME NEW i \in Op, RecoverStep(i) \/ AbandonOp(i) \/ GraceEnds(i)
        PROVE  window' \in [Standby -> Nat]
    <3>1. CASE RecoverCreate(i)
      BY <1>1, <1>2, <3>1 DEF RecoverCreate
    <3>2. CASE RecoverCleanup(i)
      BY <2>2, <3>2 DEF RecoverCleanup
    <3>3. CASE AbandonOp(i)
      BY <2>2, <3>3 DEF AbandonOp
    <3>4. CASE GraceEnds(i)
      BY <2>2, <3>4 DEF GraceEnds
    <3>5. QED
      BY <2>3, <2>4, <3>1, <3>2, <3>3, <3>4 DEF RecoverStep, RecoverCopy,
         RecoverConfigure, RecoverComplete, RecoverStart, RecoverAbandon
  <2>5. ASSUME NEW n \in Standby,
               \/ RecoverBegin(n) \/ HookConsult(n) \/ PeerConsult(n)
               \/ StandbyDown(n) \/ StandbyUp(n) \/ Connect(n) \/ Refollow(n)
               \/ MarkerSwept(n)
        PROVE  window' \in [Standby -> Nat]
    BY <2>1, <2>3, <2>5 DEF RecoverBegin, HookConsult, PeerConsult, StandbyDown,
       StandbyUp, Connect, Refollow, MarkerSwept
  <2>6. CASE WorkerStep
    BY <2>3, <2>6 DEF WorkerStep, SweepStart, SweepEnd, WorkerConsult, WorkerDrop,
       WorkerMarkDone, RescheduleWrite, BackoffEnds
  <2>7. CASE HookStep \/ PeerDrop \/ DbFails \/ DbBack \/ Crash
             \/ \E i \in Intent : RescheduleRead(i)
    BY <2>3, <2>7 DEF HookStep, HookProbe, HookDrop, HookMark, PeerDrop, DbFails,
       DbBack, Crash, RescheduleRead
  <2>8. QED
    BY <2>4, <2>5, <2>6, <2>7 DEF Next
<1>6. /\ db' \in BOOLEAN /\ markers' \subseteq Standby /\ reported' \subseteq Standby
      /\ UNCHANGED faults \/ \E k : Fault(k)
  <2> DEFINE G == /\ db' \in BOOLEAN /\ markers' \subseteq Standby
                  /\ reported' \subseteq Standby
                  /\ UNCHANGED faults \/ \E k : Fault(k)
  <2>1. ASSUME NEW i \in Op, RecoverStep(i) \/ AbandonOp(i) \/ GraceEnds(i)
        PROVE  G
    BY <1>1, <2>1 DEF RecoverStep, RecoverCreate, RecoverCopy, RecoverConfigure,
       RecoverComplete, RecoverStart, RecoverCleanup, RecoverAbandon, AbandonOp,
       GraceEnds
  <2>2. ASSUME NEW n \in Standby,
               \/ RecoverBegin(n) \/ HookConsult(n) \/ PeerConsult(n)
               \/ StandbyDown(n) \/ StandbyUp(n) \/ Connect(n) \/ Refollow(n)
               \/ MarkerSwept(n)
        PROVE  G
    BY <1>1, <2>2 DEF RecoverBegin, HookConsult, PeerConsult, StandbyDown,
       StandbyUp, Connect, Refollow, MarkerSwept
  <2>3. CASE WorkerStep
    BY <1>1, <2>3 DEF WorkerStep, SweepStart, SweepEnd, WorkerConsult, WorkerDrop,
       WorkerMarkDone, RescheduleWrite, BackoffEnds
  <2>4. CASE HookStep \/ PeerDrop \/ DbFails \/ DbBack \/ Crash
             \/ \E i \in Intent : RescheduleRead(i)
    BY <1>1, <1>3, <2>4 DEF HookStep, HookProbe, HookDrop, HookMark, PeerDrop, DbFails,
       DbBack, Crash, RescheduleRead
  <2>5. QED
    BY <2>1, <2>2, <2>3, <2>4 DEF Next
<1>7. QED
  BY <1>4, <1>5, <1>6 DEF OtherOK

-----------------------------------------------------------------------------
(* The bound on the intents.                                               *)
LEMMA OwingFacts ==
  ASSUME TypeOK
  PROVE  /\ IsFiniteSet(Op) /\ IsFiniteSet(Owing) /\ Cardinality(Owing) \in Nat
         /\ \A S \in SUBSET Owing :
              Cardinality(S) \in Nat /\ Cardinality(S) <= Cardinality(Owing)
         /\ Cardinality(Owing) <= Cardinality({i \in Op : Live(i)})
         /\ Cardinality({i \in Op : Live(i)}) \in Nat
<1> DEFINE L == {i \in Op : Live(i)}
<1>1. IsFiniteSet(Op)
  BY Shape, FS_Interval
<1>2. IsFiniteSet(L) /\ L \subseteq Op
  BY <1>1, FS_Subset
<1>3. Owing \subseteq L
  BY DEF Owing, Live
<1>4. IsFiniteSet(Owing) /\ Cardinality(Owing) <= Cardinality(L)
  BY <1>2, <1>3, FS_Subset
<1>5. \A S \in SUBSET Owing : IsFiniteSet(S) /\ Cardinality(S) <= Cardinality(Owing)
  BY <1>4, FS_Subset
<1>6. \A S : IsFiniteSet(S) => Cardinality(S) \in Nat
  BY FS_CardinalityType
<1>7. QED
  BY <1>1, <1>2, <1>4, <1>5, <1>6

(* Who may yet queue an intent, after a step.                              *)
LEMMA OwingStep ==
  ASSUME IInv, Next
  PROVE  \/ Owing' \subseteq Owing
         \/ \E n \in Standby : RecoverBegin(n)
<1>1. TypeOK /\ journal \in [Op -> InflightOp] /\ task \in [Op -> Stage]
  BY Shape DEF IInv
<1>2. ASSUME NEW i \in Op, NEW e \in InflightOp, NEW s \in Stage, Move(i, e, s),
             s \in {"abandon", "gone"} \/ i \in Owing
      PROVE  Owing' \subseteq Owing
  <2>1. Op' = Op /\ task'[i] = s /\ \A j \in Op : j # i => task'[j] = task[j]
    BY <1>1, <1>2, MoveFacts
  <2>2. QED
    BY <1>2, <2>1 DEF Owing
<1>3. ASSUME UNCHANGED <<journal, task>> PROVE Owing' \subseteq Owing
  BY <1>3 DEF Owing, Op
<1>4. ASSUME NEW i \in Op, NEW e \in InflightOp, Move(i, e, task[i])
      PROVE  Owing' \subseteq Owing
  BY <1>1, <1>2, <1>4 DEF Owing
<1>5. ASSUME NEW n \in Standby, Consults(n) PROVE Owing' \subseteq Owing
  <2>1. ASSUME NEW i \in Op, Discharge(i) PROVE Owing' \subseteq Owing
    <3> DEFINE e == [journal[i] EXCEPT !.discharged = TRUE]
    <3>1. journal[i] \in InflightOp
      BY <1>1
    <3>2. e \in InflightOp
      BY <3>1, EntryFacts
    <3>3. Move(i, e, task[i])
      BY <2>1 DEF Discharge
    <3> HIDE DEF e
    <3>4. QED
      BY <1>4, <3>2, <3>3
  <2>2. UNCHANGED <<journal, task>> \/ \E i \in Op : Discharge(i)
    BY <1>1, <1>5, ConsultMove DEF Consults
  <2>3. QED
    BY <1>3, <2>1, <2>2
<1>6. ASSUME NEW i \in Op, RecoverStep(i) \/ AbandonOp(i) \/ GraceEnds(i)
      PROVE  Owing' \subseteq Owing
  <2> DEFINE e == journal[i]
             done == [e EXCEPT !.status = "Done", !.fresh = TRUE]
             given == [e EXCEPT !.status = "Abandoned"]
             taken == [e EXCEPT !.status = "Abandoned", !.operator = TRUE]
             old == [e EXCEPT !.fresh = FALSE]
  <2>1. e \in InflightOp /\ done \in InflightOp /\ given \in InflightOp
        /\ taken \in InflightOp /\ old \in InflightOp
    <3>1. e \in InflightOp
      BY <1>1
    <3>2. QED
      BY <3>1, EntryFacts
  <2>2. i \in Owing <=> task[i] \notin {"abandon", "gone"}
    BY DEF Owing
  <2>3. CASE RecoverStep(i)
    <3>1. \E f \in {e, done, given}, s \in Stage :
            Move(i, f, s) /\ (s \in {"abandon", "gone"} \/ i \in Owing)
      BY <1>1, <2>2, <2>3, Moves DEF RecoverStep, Stage
    <3> HIDE DEF e, done, given
    <3>2. QED
      BY <1>2, <2>1, <3>1
  <2>4. CASE AbandonOp(i) \/ GraceEnds(i)
    <3>1. Move(i, taken, task[i]) \/ Move(i, old, task[i])
      BY <1>1, <2>4, Moves
    <3> HIDE DEF taken, old
    <3>2. QED
      BY <1>4, <2>1, <3>1
  <2>5. QED
    BY <1>6, <2>3, <2>4
<1>7. CASE Crash
  BY <1>1, <1>7, CrashFacts DEF Owing
<1>8. QED
  BY <1>1, <1>3, <1>5, <1>6, <1>7, JournalKinds

LEMMA BudgetStep ==
  ASSUME IInv, Next
  PROVE  BudgetInv' /\ Len(queue') <= MaxIntents
<1> DEFINE L == {i \in Op : Live(i)}
<1>1. TypeOK /\ BudgetInv
  BY DEF IInv
<1>2. Len(queue) \in Nat /\ MaxIntents \in Nat
  BY <1>1, Shape, Constants
<1>3. /\ Cardinality(Owing) \in Nat /\ IsFiniteSet(Owing)
      /\ \A S \in SUBSET Owing :
           Cardinality(S) \in Nat /\ Cardinality(S) <= Cardinality(Owing)
      /\ Cardinality(Owing) <= Cardinality(L) /\ Cardinality(L) \in Nat
  BY <1>1, OwingFacts
<1>4. HookOwes \in {0, 1} /\ HookOwes' \in {0, 1}
      /\ (HookOwes = 1 => Busy("hook"))
  BY DEF HookOwes, Busy
<1>5. HookOwes' = 1 => HookOwes = 1 \/ \E n \in Standby : HookConsult(n)
  BY HandlerStep DEF HandlerEffects, HookOwes
<1>6. Room => Len(queue) + Cardinality(L) + (IF Busy("hook") THEN 1 ELSE 0) < MaxIntents
  BY DEF Room
<1>7. BudgetInv <=> Len(queue) + Cardinality(Owing) + HookOwes <= MaxIntents
  BY DEF BudgetInv
<1>8. BudgetInv' <=> Len(queue') + Cardinality(Owing') + HookOwes' <= MaxIntents
  BY DEF BudgetInv
<1>9. ASSUME NEW n \in Standby, RecoverBegin(n)
      PROVE  BudgetInv' /\ Len(queue') <= MaxIntents
  <2> DEFINE k == Len(journal) + 1
  <2>1. Room /\ queue' = queue /\ handler' = handler
    BY <1>9 DEF RecoverBegin
  <2>2. k \notin Op /\ Op' = Op \cup {k} /\ task'[k] = "create"
        /\ \A j \in Op : task'[j] = task[j]
    BY <1>1, <1>9, BeginFacts
  <2> HIDE DEF k
  <2>3. Owing' = Owing \cup {k} /\ k \notin Owing
    BY <2>2 DEF Owing
  <2>4. Cardinality(Owing') = Cardinality(Owing) + 1
    BY <1>3, <2>3, FS_AddElement
  <2>5. HookOwes' = HookOwes
    BY <2>1 DEF HookOwes
  <2>6. Len(queue) + Cardinality(L) + HookOwes < MaxIntents
    BY <1>2, <1>3, <1>4, <1>6, <2>1
  <2> HIDE DEF L
  <2>7. QED
    BY <1>2, <1>3, <1>4, <1>8, <2>1, <2>4, <2>5, <2>6
<1>10. CASE Owing' \subseteq Owing
  <2>1. Cardinality(Owing') \in Nat /\ Cardinality(Owing') <= Cardinality(Owing)
    BY <1>3, <1>10
  <2>2. ASSUME NEW n \in Standby, HookConsult(n)
        PROVE  BudgetInv' /\ Len(queue') <= MaxIntents
    <3>1. Room /\ ~Busy("hook") /\ queue' = queue
      BY <2>2 DEF HookConsult
    <3>2. Len(queue) + Cardinality(L) < MaxIntents
      BY <1>2, <1>3, <1>6, <3>1
    <3> HIDE DEF L
    <3>3. QED
      BY <1>2, <1>3, <1>4, <1>8, <2>1, <3>1, <3>2
  <2>3. ASSUME NEW i \in Op, RecoverCleanup(i)
        PROVE  BudgetInv' /\ Len(queue') <= MaxIntents
    <3>1. task[i] = "cleanup" /\ Move(i, journal[i], "abandon")
      BY <1>1, <2>3, Moves
    <3>2. journal[i] \in InflightOp /\ journal[i].target \in Standby
      BY <1>1, Shape
    <3>3. Op' = Op /\ task'[i] = "abandon"
      BY <1>1, <3>1, <3>2, MoveFacts DEF Stage
    <3>4. i \in Owing /\ i \notin Owing'
      BY <3>1, <3>3 DEF Owing
    <3>5. Owing' \in SUBSET (Owing \ {i})
      BY <1>10, <3>4
    <3>6. IsFiniteSet(Owing \ {i}) /\ Cardinality(Owing \ {i}) = Cardinality(Owing) - 1
      BY <1>3, <3>4, FS_RemoveElement
    <3>7. Cardinality(Owing') <= Cardinality(Owing) - 1
      BY <3>5, <3>6, FS_Subset
    <3>8. HookOwes' = HookOwes
      BY <2>3 DEF RecoverCleanup, HookOwes
    <3>9. queue' = queue \/ queue' = Queued(journal[i].target)
      BY <2>3 DEF RecoverCleanup
    <3>10. Len(queue') \in Nat /\ Len(queue') <= Len(queue) + 1
      BY <1>1, <1>2, <3>2, <3>9, QueuedFacts
    <3>11. QED
      BY <1>1, <1>2, <1>3, <1>4, <1>7, <1>8, <2>1, <3>7, <3>8, <3>10
  <2>4. CASE HookDrop
    <3>1. handler["hook"].node \in Standby
      BY <2>4 DEF IInv, SawInv, Busy, HookDrop
    <3>2. queue' = queue \/ queue' = Queued(handler["hook"].node)
      BY <2>4 DEF HookDrop
    <3>3. Len(queue') \in Nat /\ Len(queue') <= Len(queue) + 1
      BY <1>1, <1>2, <3>1, <3>2, QueuedFacts
    <3>4. handler["hook"].at = "drop" /\ handler'["hook"].at = "mark"
      BY <1>1, <2>4 DEF HookDrop, TypeOK, Handler
    <3>5. HookOwes = 1 /\ HookOwes' = 0
      BY <3>4 DEF HookOwes
    <3>6. QED
      BY <1>1, <1>2, <1>3, <1>7, <1>8, <2>1, <3>3, <3>5
  <2>5. CASE /\ ~HookDrop /\ ~(\E i \in Op : RecoverCleanup(i))
             /\ ~(\E n \in Standby : HookConsult(n))
    <3>1. Len(queue') = Len(queue)
      BY <2>5, QueueStep DEF QueueEffects
    <3>2. HookOwes' <= HookOwes
      BY <1>4, <1>5, <2>5
    <3>3. QED
      BY <1>1, <1>2, <1>3, <1>4, <1>7, <1>8, <2>1, <3>1, <3>2
  <2>6. QED
    BY <2>2, <2>3, <2>4, <2>5
<1>11. QED
  BY <1>9, <1>10, OwingStep

(* Types.                                                                  *)
LEMMA TypeStep ==
  ASSUME IInv, Next
  PROVE  TypeOK'
<1>1. JournalOK' /\ HandlerOK' /\ OtherOK'
  BY OpsStep, HandlerStep, OtherStep DEF HandlerEffects
<1>2. SlotsOK' /\ QueueOK' /\ Len(queue') <= MaxIntents
  BY SlotStep, QueueStep, BudgetStep DEF SlotEffects, QueueEffects
<1>3. QED
  BY <1>1, <1>2 DEF TypeOK, JournalOK, SlotsOK, HandlerOK, QueueOK, OtherOK

-----------------------------------------------------------------------------
(* The window of a slot, from its creation by a recovery to its use.       *)

(* No step lets an active slot wait for anybody.                           *)
LEMMA ActiveNotWaiting ==
  ASSUME IInv, Next,
         \A m \in Standby : slot[m] = "active" /\ slot'[m] = "active" =>
           window'[m] = 0
  PROVE  \A m \in Standby : slot'[m] = "active" => window'[m] = 0
<1>1. SUFFICES ASSUME NEW m \in Standby, slot'[m] = "active", slot[m] # "active"
               PROVE  window'[m] = 0
  OBVIOUS
<1>2. Connect(m)
  BY <1>1, SlotStep DEF SlotEffects
<1>3. window \in [Standby -> Nat]
  BY DEF IInv, TypeOK
<1>4. QED
  BY <1>2, <1>3 DEF Connect

(* A change of one operation and of its slot's window keeps WindowInv when *)
(* the slot waits for it only while it owns the slot.                      *)
OwnsEntry(e) ==
  \/ e.status = "InProgress"
  \/ e.status = "Done" /\ e.fresh /\ ~e.discharged

LEMMA WindowMove ==
  ASSUME IInv, Next, NEW i \in Op, NEW e \in InflightOp, NEW s \in Stage,
         Move(i, e, s), NEW w,
         window' = [window EXCEPT ![journal[i].target] = w],
         w \in {window[journal[i].target], 0, i},
         e.target = journal[i].target, journal[i].operator => e.operator,
         w = i => OwnsEntry(e),
         w = i /\ window[journal[i].target] # i =>
           journal[i].status = "InProgress" /\ slot'[journal[i].target] # "active",
         s \in {"create", "abandon"} => w # i,
         s \in {"copy", "configure", "complete", "cleanup"} =>
           e.operator \/ w \in {0, i}
  PROVE  WindowInv'
<1> DEFINE n == journal[i].target
           Open == {"copy", "configure", "complete", "cleanup"}
<1>1. TypeOK /\ OpsInv /\ WindowInv /\ window \in [Standby -> Nat]
  BY DEF IInv, TypeOK
<1>2. /\ Op' = Op /\ journal'[i] = e /\ task'[i] = s
      /\ \A j \in Op : j # i => journal'[j] = journal[j] /\ task'[j] = task[j]
  BY <1>1, MoveFacts
<1>3. n \in Standby /\ \A j \in Op : j # 0
  BY <1>1, Shape
<1>4. window'[n] = w /\ \A m \in Standby : m # n => window'[m] = window[m]
  BY <1>1, <1>3
<1>5. \A j \in Op : journal'[j].target = journal[j].target /\ journal[j].target \in Standby
  BY <1>1, <1>2, Shape
<1>6. \A m \in Standby : slot'[m] = "active" => window'[m] = 0
  <2>1. \A m \in Standby : slot[m] = "active" /\ slot'[m] = "active" =>
          window'[m] = 0
    BY <1>1, <1>3, <1>4 DEF WindowInv
  <2>2. QED
    BY <2>1, ActiveNotWaiting
<1>7. \A m \in Standby : window'[m] # 0 =>
        /\ window'[m] \in Op /\ journal'[window'[m]].target = m
        /\ OwnsEntry(journal'[window'[m]])
  <2>1. SUFFICES ASSUME NEW m \in Standby, window'[m] # 0
                 PROVE  /\ window'[m] \in Op /\ journal'[window'[m]].target = m
                        /\ OwnsEntry(journal'[window'[m]])
    OBVIOUS
  <2>2. CASE window'[m] = i /\ m = n
    BY <1>2, <1>4, <2>2
  <2>3. CASE window'[m] # i
    <3>1. window'[m] = window[m]
      BY <1>4, <2>1, <2>3
    <3>2. window[m] \in Op /\ journal[window[m]].target = m
          /\ OwnsEntry(journal[window[m]])
      BY <1>1, <2>1, <3>1 DEF WindowInv, Owns, OwnsEntry
    <3>3. QED
      BY <1>2, <2>3, <3>1, <3>2
  <2>4. CASE window'[m] = i /\ m # n
    <3>1. window[m] = i
      BY <1>4, <2>4
    <3>2. journal[i].target = m
      BY <1>1, <2>1, <2>4, <3>1 DEF WindowInv
    <3>3. QED
      BY <2>4, <3>2
  <2>5. QED
    BY <2>2, <2>3, <2>4
<1>8. \A j \in Op : task'[j] \in {"create", "abandon"} =>
        window'[journal'[j].target] # j
  <2>1. SUFFICES ASSUME NEW j \in Op, task'[j] \in {"create", "abandon"}
                 PROVE  window'[journal[j].target] # j
    BY <1>5
  <2>2. CASE j = i
    BY <1>2, <1>4, <2>1, <2>2
  <2>3. CASE j # i
    <3>1. window[journal[j].target] # j
      BY <1>1, <1>2, <2>1, <2>3 DEF WindowInv
    <3>2. QED
      BY <1>3, <1>4, <1>5, <2>3, <3>1
  <2>4. QED
    BY <2>2, <2>3
<1>9. \A j \in Op : task'[j] \in Open =>
        journal'[j].operator \/ window'[journal'[j].target] \in {0, j}
  <2>1. SUFFICES ASSUME NEW j \in Op, task'[j] \in Open, ~journal'[j].operator
                 PROVE  window'[journal[j].target] \in {0, j}
    BY <1>5
  <2>2. CASE j = i
    BY <1>2, <1>4, <2>1, <2>2
  <2>3. CASE j # i
    <3>1. task[j] \in Open /\ ~journal[j].operator
      BY <1>2, <2>1, <2>3
    <3>2. window[journal[j].target] \in {0, j}
      BY <1>1, <3>1 DEF WindowInv
    <3>3. journal[j].status = "InProgress"
      BY <1>1, <3>1 DEF OpsInv, Running
    <3>4. CASE journal[j].target = n
      <4>1. journal[i].status # "InProgress"
        BY <1>1, <2>3, <3>3, <3>4 DEF OpsInv
      <4>2. w \in {window[n], 0}
        BY <4>1
      <4>3. QED
        BY <1>4, <3>2, <3>4, <4>2
    <3>5. CASE journal[j].target # n
      BY <1>4, <1>5, <3>2, <3>5
    <3>6. QED
      BY <3>4, <3>5
  <2>4. QED
    BY <2>2, <2>3
<1>10. QED
  BY <1>2, <1>6, <1>7, <1>8, <1>9 DEF WindowInv, Owns, OwnsEntry

(* The slot does not wait for the operation that moves.                    *)
LEMMA WindowLeft ==
  ASSUME IInv, Next, NEW i \in Op, NEW e \in InflightOp, NEW s \in Stage,
         Move(i, e, s), NEW w,
         window' = [window EXCEPT ![journal[i].target] = w],
         w = window[journal[i].target] \/ w = 0, w # i,
         e.target = journal[i].target, journal[i].operator => e.operator,
         s \in {"copy", "configure", "complete", "cleanup"} => e.operator \/ w = 0
  PROVE  WindowInv'
<1>1. w \in {window[journal[i].target], 0, i}
  OBVIOUS
<1>2. s \in {"copy", "configure", "complete", "cleanup"} => e.operator \/ w \in {0, i}
  OBVIOUS
<1>3. QED
  BY <1>1, <1>2, WindowMove

LEMMA WindowKinds ==
  ASSUME Next
  PROVE  \/ UNCHANGED window
         \/ \E n \in Standby : Connect(n)
         \/ \E i \in Op : RecoverCreate(i) \/ RecoverCleanup(i) \/ AbandonOp(i)
                          \/ GraceEnds(i)
<1>1. ASSUME NEW n \in Standby,
             \/ RecoverBegin(n) \/ HookConsult(n) \/ PeerConsult(n)
             \/ StandbyDown(n) \/ StandbyUp(n) \/ Refollow(n) \/ MarkerSwept(n)
      PROVE  UNCHANGED window
  BY <1>1 DEF RecoverBegin, HookConsult, PeerConsult, StandbyDown, StandbyUp,
     Refollow, MarkerSwept
<1>2. CASE WorkerStep
  BY <1>2 DEF WorkerStep, SweepStart, SweepEnd, WorkerConsult, WorkerDrop,
     WorkerMarkDone, RescheduleWrite, BackoffEnds
<1>3. ASSUME NEW i \in Op,
             \/ RecoverCopy(i) \/ RecoverConfigure(i) \/ RecoverComplete(i)
             \/ RecoverStart(i) \/ RecoverAbandon(i)
      PROVE  UNCHANGED window
  BY <1>3 DEF RecoverCopy, RecoverConfigure, RecoverComplete, RecoverStart,
     RecoverAbandon
<1>4. CASE HookStep \/ PeerDrop \/ DbFails \/ DbBack \/ Crash
           \/ \E i \in Intent : RescheduleRead(i)
  BY <1>4 DEF HookStep, HookProbe, HookDrop, HookMark, PeerDrop, DbFails, DbBack,
     Crash, RescheduleRead
<1>5. QED
  BY <1>1, <1>2, <1>3, <1>4 DEF Next, RecoverStep

LEMMA WindowStep ==
  ASSUME IInv, Next
  PROVE  WindowInv'
<1>1. TypeOK /\ OpsInv /\ WindowInv /\ window \in [Standby -> Nat]
      /\ slot \in [Standby -> SlotState]
  BY DEF IInv, TypeOK, SlotState
<1>2. journal \in [Op -> InflightOp] /\ task \in [Op -> Stage]
      /\ \A i \in Op : i # 0 /\ i \in Nat /\ journal[i].target \in Standby
  BY <1>1, Shape
<1>3. slot' \in [Standby -> SlotState]
  BY SlotStep DEF SlotEffects, SlotsOK, SlotState
<1>4. \A n \in Standby : window = [window EXCEPT ![n] = window[n]]
  BY <1>1
<1>5. ASSUME NEW i \in Op, window[journal[i].target] = i
      PROVE  OwnsEntry(journal[i])
  BY <1>1, <1>2, <1>5 DEF WindowInv, Owns, OwnsEntry
<1>6. ASSUME NEW i \in Op, RecoverStep(i) \/ AbandonOp(i) \/ GraceEnds(i)
      PROVE  WindowInv'
  <2> DEFINE e == journal[i]
             n == e.target
             done == [e EXCEPT !.status = "Done", !.fresh = TRUE]
             given == [e EXCEPT !.status = "Abandoned"]
             taken == [e EXCEPT !.status = "Abandoned", !.operator = TRUE]
             old == [e EXCEPT !.fresh = FALSE]
             clear == IF window[n] = i THEN 0 ELSE window[n]
  <2>1. e \in InflightOp /\ n \in Standby /\ i # 0
    BY <1>2
  <2>2. /\ task[i] \in Running => \/ e.status = "InProgress"
                                  \/ e.status = "Abandoned" /\ e.operator
        /\ e.discharged => e.status = "Done"
    BY <1>1 DEF OpsInv
  <2>3. /\ task[i] \in {"create", "abandon"} => window[n] # i
        /\ task[i] \in {"copy", "configure", "complete", "cleanup"} =>
             e.operator \/ window[n] \in {0, i}
        /\ slot[n] = "active" => window[n] = 0
    BY <1>1, <2>1 DEF WindowInv
  <2>4. window = [window EXCEPT ![n] = window[n]]
    BY <1>4, <2>1
  <2>5. window[n] = i => OwnsEntry(e)
    BY <1>5
  <2>6. clear # i /\ clear \in {window[n], 0}
        /\ (window[n] \in {0, i} => clear = 0)
    BY <2>1
  <2>7. CASE RecoverCreate(i)
    <3>1. CASE Move(i, e, "copy") /\ db
      <4> DEFINE w == IF e.status = "InProgress" /\ slot'[n] = "idle"
                      THEN i ELSE window[n]
      <4>1. window' = [window EXCEPT ![n] = w] /\ slot'[n] # "none"
            /\ (slot[n] = "active" <=> slot'[n] = "active") /\ task[i] = "create"
        BY <1>1, <2>1, <2>7, <3>1 DEF RecoverCreate, SlotState
      <4>2. slot'[n] \in {"idle", "active"}
        BY <1>3, <2>1, <4>1 DEF SlotState
      <4>3. w = i => e.status = "InProgress" /\ slot'[n] # "active"
        BY <2>3, <4>1
      <4>4. e.operator \/ w \in {0, i}
        BY <2>2, <2>3, <4>1, <4>2 DEF Running
      <4>5. w \in {window[n], 0, i}
        OBVIOUS
      <4> HIDE DEF w
      <4>6. QED
        BY <2>1, <3>1, <4>1, <4>3, <4>4, <4>5, WindowMove DEF Stage, OwnsEntry
    <3>2. CASE Move(i, e, "abandon") /\ UNCHANGED <<slot, window>>
      <4> DEFINE w == window[n]
                 s == "abandon"
      <4>1. window' = [window EXCEPT ![n] = w] /\ (w = window[n] \/ w = 0) /\ w # i
        BY <1>1, <2>3, <2>4, <2>7, <3>2 DEF RecoverCreate
      <4>2. s \in Stage /\ Move(i, e, s)
            /\ s \notin {"copy", "configure", "complete", "cleanup"}
        BY <3>2 DEF Stage
      <4> HIDE DEF w, s
      <4>3. QED
        BY <2>1, <4>1, <4>2, WindowLeft
    <3>3. QED
      BY <1>1, <2>7, <3>1, <3>2, Moves
  <2>8. ASSUME NEW s \in {"configure", "cleanup", "complete", "gone"}, Move(i, e, s),
               task[i] \in {"copy", "configure", "start"},
               task[i] = "start" => s = "gone", window' = window
        PROVE  WindowInv'
    BY <2>1, <2>3, <2>4, <2>5, <2>8, WindowMove DEF Stage
  <2>9. CASE RecoverCopy(i) \/ RecoverConfigure(i) \/ RecoverStart(i)
    <3>1. window' = window
      BY <2>9 DEF RecoverCopy, RecoverConfigure, RecoverStart
    <3>2. QED
      BY <1>1, <2>8, <2>9, <3>1, Moves
  <2>10. CASE RecoverComplete(i)
    <3>1. task[i] = "complete" /\ Move(i, done, "start")
          /\ window' = [window EXCEPT ![n] = window[n]]
      BY <1>1, <2>4, <2>10, Moves DEF RecoverComplete
    <3>2. done \in InflightOp /\ done.target = n /\ done.operator = e.operator
          /\ done.status = "Done" /\ done.fresh /\ done.discharged = e.discharged
      BY <2>1, EntryFacts
    <3>3. OwnsEntry(done)
      BY <2>2, <3>1, <3>2 DEF OwnsEntry, Running
    <3> HIDE DEF done
    <3>4. QED
      BY <3>1, <3>2, <3>3, WindowMove DEF Stage
  <2>11. CASE RecoverCleanup(i)
    <3>1. Move(i, e, "abandon") /\ window' = [window EXCEPT ![n] = clear]
      BY <1>1, <2>1, <2>11, Moves DEF RecoverCleanup
    <3> HIDE DEF clear
    <3>2. "abandon" \in Stage
      BY DEF Stage
    <3>3. QED
      BY <2>1, <2>6, <3>1, <3>2, WindowLeft
  <2>12. CASE RecoverAbandon(i)
    <3>1. task[i] = "abandon" /\ Move(i, given, "gone")
          /\ window' = [window EXCEPT ![n] = window[n]]
      BY <1>1, <2>4, <2>12, Moves DEF RecoverAbandon
    <3>2. given \in InflightOp /\ given.target = n /\ given.operator = e.operator
      BY <2>1, EntryFacts
    <3> HIDE DEF given
    <3> DEFINE w == window[n]
               s == "gone"
    <3>3. window' = [window EXCEPT ![n] = w] /\ (w = window[n] \/ w = 0) /\ w # i
      BY <2>3, <3>1
    <3>4. s \in Stage /\ Move(i, given, s)
          /\ s \notin {"copy", "configure", "complete", "cleanup"}
      BY <3>1 DEF Stage
    <3> HIDE DEF w, s
    <3>5. QED
      BY <3>2, <3>3, <3>4, WindowLeft
  <2>13. CASE AbandonOp(i)
    <3>1. Move(i, taken, task[i]) /\ window' = [window EXCEPT ![n] = clear]
      BY <1>1, <2>1, <2>13, Moves DEF AbandonOp
    <3>2. taken \in InflightOp /\ taken.target = n /\ taken.operator
      BY <2>1, EntryFacts
    <3> HIDE DEF clear, taken
    <3>3. task[i] \in Stage
      BY <1>2
    <3>4. QED
      BY <2>6, <3>1, <3>2, <3>3, WindowLeft
  <2>14. CASE GraceEnds(i)
    <3>1. Move(i, old, task[i]) /\ window' = [window EXCEPT ![n] = clear]
      BY <1>1, <2>1, <2>14, Moves DEF GraceEnds
    <3>2. old \in InflightOp /\ old.target = n /\ old.operator = e.operator
      BY <2>1, EntryFacts
    <3> HIDE DEF clear, old
    <3>3. task[i] \in Stage
          /\ (task[i] \in {"copy", "configure", "complete", "cleanup"} =>
                old.operator \/ clear = 0)
      BY <1>2, <2>3, <2>6, <3>2
    <3>4. QED
      BY <2>6, <3>1, <3>2, <3>3, WindowLeft
  <2>15. QED
    BY <1>6, <2>7, <2>9, <2>10, <2>11, <2>12, <2>13, <2>14 DEF RecoverStep
<1>7. ASSUME NEW n \in Standby, RecoverBegin(n) PROVE WindowInv'
  <2> DEFINE k == Len(journal) + 1
  <2>1. k \notin Op /\ Op' = Op \cup {k} /\ task'[k] = "create"
        /\ journal'[k] = [target |-> n, status |-> "InProgress", fresh |-> FALSE,
                          discharged |-> FALSE, operator |-> FALSE]
        /\ \A j \in Op : journal'[j] = journal[j] /\ task'[j] = task[j]
    BY <1>1, <1>7, BeginFacts
  <2>2. k # 0
    BY <1>1, Shape
  <2> HIDE DEF k
  <2>3. UNCHANGED <<window, slot>>
    BY <1>7 DEF RecoverBegin
  <2>4. window[n] # k
    BY <1>1, <2>1, <2>2 DEF WindowInv
  <2>5. \A m \in Standby : window'[m] # 0 =>
          /\ window'[m] \in Op' /\ journal'[window'[m]].target = m
          /\ Owns(window[m])'
    BY <1>1, <2>1, <2>3 DEF WindowInv, Owns
  <2>6. QED
    BY <1>1, <2>1, <2>3, <2>4, <2>5 DEF WindowInv
<1>8. CASE Crash
  <2>1. Op' = Op /\ journal' = journal /\ \A i \in Op : task'[i] = "gone"
    BY <1>1, <1>8, CrashFacts
  <2>2. UNCHANGED <<window, slot>>
    BY <1>8 DEF Crash
  <2>3. QED
    BY <1>1, <2>1, <2>2 DEF WindowInv, Owns
<1>9. ASSUME UNCHANGED <<journal, task>>,
             UNCHANGED window \/ \E n \in Standby : Connect(n)
      PROVE  WindowInv'
  <2>1. \A m \in Standby : window'[m] \in {0, window[m]}
    BY <1>1, <1>9 DEF Connect
  <2>2. \A m \in Standby : slot'[m] = "active" => window'[m] = 0
    BY <1>1, <2>1, ActiveNotWaiting DEF WindowInv
  <2>3. Op' = Op
    BY <1>9 DEF Op
  <2>4. \A m \in Standby : window'[m] # 0 =>
          /\ window'[m] \in Op /\ journal[window'[m]].target = m
          /\ OwnsEntry(journal[window'[m]])
    BY <1>1, <2>1 DEF WindowInv, Owns, OwnsEntry
  <2>5. \A i \in Op : task[i] \in {"create", "abandon"} =>
          window'[journal[i].target] # i
    BY <1>1, <1>2, <2>1 DEF WindowInv
  <2>6. \A i \in Op :
          task[i] \in {"copy", "configure", "complete", "cleanup"} =>
            journal[i].operator \/ window'[journal[i].target] \in {0, i}
    BY <1>1, <1>2, <2>1 DEF WindowInv
  <2>7. QED
    BY <1>9, <2>2, <2>3, <2>4, <2>5, <2>6 DEF WindowInv, Owns, OwnsEntry
<1>10. ASSUME NEW i \in Op, Discharge(i), journal[i].status = "Done",
              slot[journal[i].target] = "active", UNCHANGED window
       PROVE  WindowInv'
  <2> DEFINE e == [journal[i] EXCEPT !.discharged = TRUE]
  <2>1. journal[i] \in InflightOp /\ journal[i].target \in Standby /\ i # 0
    BY <1>2
  <2>2. e \in InflightOp /\ e.target = journal[i].target
        /\ e.operator = journal[i].operator
    BY <2>1, EntryFacts
  <2>3. Move(i, e, task[i]) /\ task[i] \in Stage
    BY <1>2, <1>10 DEF Discharge
  <2>4. window[journal[i].target] = 0
    BY <1>1, <1>10, <2>1 DEF WindowInv
  <2>5. window' = [window EXCEPT ![journal[i].target] = 0]
    BY <1>4, <1>10, <2>1, <2>4
  <2> HIDE DEF e
  <2>6. QED
    BY <2>1, <2>2, <2>3, <2>5, WindowLeft
<1>11. ASSUME NEW n \in Standby, Consults(n), UNCHANGED window
       PROVE  WindowInv'
  <2>1. \/ UNCHANGED <<journal, task>>
        \/ \E i \in Op : /\ Discharge(i)
                         /\ journal[i].target = n /\ journal[i].status = "Done"
                         /\ slot[n] = "active"
    BY <1>1, <1>11, ConsultMove DEF Consults
  <2>2. QED
    BY <1>9, <1>10, <1>11, <2>1
<1>12. ASSUME NEW n \in Standby, Connect(n) PROVE WindowInv'
  BY <1>9, <1>12 DEF Connect
<1>13. QED
  BY <1>1, <1>6, <1>7, <1>8, <1>9, <1>11, <1>12, JournalKinds, WindowKinds
  DEF RecoverStep

-----------------------------------------------------------------------------
(* Who answers for a slot.                                                 *)

(* What a step may do to the operations that answer.                       *)
OpEffects ==
  /\ Op \subseteq Op'
  /\ \A i \in Op :
       /\ journal'[i].target = journal[i].target
       /\ journal[i].operator => journal'[i].operator
       /\ Answering(i) =>
            Answering(i)' \/ RecoverComplete(i) \/ RecoverCleanup(i)
  /\ \A i \in Op' : task'[i] = "complete" =>
       i \in Op /\ (task[i] = "complete" \/ RecoverConfigure(i))

LEMMA OpMove ==
  ASSUME IInv, NEW i \in Op, NEW e \in InflightOp, NEW s \in Stage, Move(i, e, s),
         e.target = journal[i].target, journal[i].operator => e.operator,
         Answering(i) => \/ e.operator
                         \/ e.status = "InProgress" /\ s \notin {"create", "abandon"}
                         \/ RecoverComplete(i) \/ RecoverCleanup(i),
         s = "complete" => task[i] = "complete" \/ RecoverConfigure(i)
  PROVE  OpEffects
<1>1. /\ Op' = Op /\ journal'[i] = e /\ task'[i] = s
      /\ \A j \in Op : j # i => journal'[j] = journal[j] /\ task'[j] = task[j]
  BY MoveFacts DEF IInv
<1>2. \A j \in Op : /\ journal'[j].target = journal[j].target
                    /\ journal[j].operator => journal'[j].operator
  BY <1>1
<1>3. \A j \in Op : Answering(j) =>
        Answering(j)' \/ RecoverComplete(j) \/ RecoverCleanup(j)
  <2>1. SUFFICES ASSUME NEW j \in Op, Answering(j)
                 PROVE  Answering(j)' \/ RecoverComplete(j) \/ RecoverCleanup(j)
    OBVIOUS
  <2>2. CASE j = i
    BY <1>1, <2>1, <2>2 DEF Answering
  <2>3. CASE j # i
    BY <1>1, <2>1, <2>3 DEF Answering
  <2>4. QED
    BY <2>2, <2>3
<1>4. \A j \in Op : task'[j] = "complete" => task[j] = "complete" \/ RecoverConfigure(j)
  BY <1>1
<1>5. QED
  BY <1>1, <1>2, <1>3, <1>4 DEF OpEffects

LEMMA OpStep ==
  ASSUME IInv, Next
  PROVE  OpEffects
<1>1. TypeOK /\ OpsInv
  BY DEF IInv
<1>2. journal \in [Op -> InflightOp] /\ task \in [Op -> Stage]
  BY <1>1, Shape
<1>3. ASSUME UNCHANGED <<journal, task>> PROVE OpEffects
  BY <1>3 DEF OpEffects, Op, Answering
<1>4. ASSUME NEW i \in Op, Discharge(i) PROVE OpEffects
  <2> DEFINE e == [journal[i] EXCEPT !.discharged = TRUE]
  <2>1. journal[i] \in InflightOp
    BY <1>2
  <2>2. e \in InflightOp /\ e.target = journal[i].target
        /\ e.operator = journal[i].operator /\ e.status = journal[i].status
    BY <2>1, EntryFacts
  <2>3. Move(i, e, task[i]) /\ task[i] \in Stage
    BY <1>2, <1>4 DEF Discharge
  <2> HIDE DEF e
  <2>4. Answering(i) => \/ e.operator
                        \/ e.status = "InProgress" /\ task[i] \notin {"create", "abandon"}
    BY <2>2 DEF Answering
  <2>5. QED
    BY <2>2, <2>3, <2>4, OpMove
<1>5. ASSUME NEW n \in Standby, Consults(n) PROVE OpEffects
  <2>1. UNCHANGED <<journal, task>> \/ \E i \in Op : Discharge(i)
    BY <1>1, <1>5, ConsultMove DEF Consults
  <2>2. QED
    BY <1>3, <1>4, <2>1
<1>6. ASSUME NEW n \in Standby, RecoverBegin(n) PROVE OpEffects
  <2> DEFINE k == Len(journal) + 1
  <2>1. k \notin Op /\ Op' = Op \cup {k} /\ task'[k] = "create"
        /\ \A j \in Op : journal'[j] = journal[j] /\ task'[j] = task[j]
    BY <1>1, <1>6, BeginFacts
  <2> HIDE DEF k
  <2>2. QED
    BY <2>1 DEF OpEffects, Answering
<1>7. CASE Crash
  <2>1. Op' = Op /\ journal' = journal /\ \A i \in Op : task'[i] = "gone"
    BY <1>1, <1>7, CrashFacts
  <2>2. QED
    BY <2>1 DEF OpEffects, Answering
<1>8. ASSUME NEW i \in Op, RecoverStep(i) \/ AbandonOp(i) \/ GraceEnds(i)
      PROVE  OpEffects
  <2> DEFINE e == journal[i]
             done == [e EXCEPT !.status = "Done", !.fresh = TRUE]
             given == [e EXCEPT !.status = "Abandoned"]
             taken == [e EXCEPT !.status = "Abandoned", !.operator = TRUE]
             old == [e EXCEPT !.fresh = FALSE]
  <2>1. e \in InflightOp /\ task[i] \in Stage
    BY <1>2
  <2>2. Answering(i) <=> \/ e.operator
                         \/ e.status = "InProgress" /\ task[i] \notin {"create", "abandon"}
    BY DEF Answering
  <2>3. ASSUME NEW s \in Stage, Move(i, e, s),
               \/ s \notin {"create", "abandon"}
               \/ task[i] \in {"create", "abandon"} \/ RecoverCleanup(i),
               s = "complete" => RecoverConfigure(i)
        PROVE  OpEffects
    BY <2>1, <2>2, <2>3, OpMove
  <2>4. CASE RecoverCreate(i) \/ RecoverCopy(i) \/ RecoverConfigure(i)
             \/ RecoverStart(i) \/ RecoverCleanup(i)
    <3>1. /\ RecoverCreate(i) => task[i] = "create"
          /\ \E s \in Stage :
               /\ Move(i, e, s) /\ (s = "abandon" => RecoverCreate(i) \/ RecoverCleanup(i))
               /\ s = "complete" => RecoverConfigure(i)
               /\ s # "create"
      BY <1>1, <2>4, Moves DEF Stage
    <3>2. QED
      BY <2>3, <3>1
  <2>5. CASE RecoverComplete(i)
    <3>1. Move(i, done, "start")
      BY <1>1, <2>5, Moves
    <3>2. done \in InflightOp /\ done.target = e.target /\ done.operator = e.operator
      BY <2>1, EntryFacts
    <3> HIDE DEF done
    <3>3. "start" \in Stage
      BY DEF Stage
    <3>4. QED
      BY <2>5, <3>1, <3>2, <3>3, OpMove
  <2>6. CASE RecoverAbandon(i)
    <3>1. Move(i, given, "gone") /\ task[i] = "abandon"
      BY <1>1, <2>6, Moves
    <3>2. given \in InflightOp /\ given.target = e.target /\ given.operator = e.operator
      BY <2>1, EntryFacts
    <3>3. "gone" \in Stage /\ (Answering(i) => given.operator)
      BY <2>2, <3>1, <3>2 DEF Stage
    <3> HIDE DEF given
    <3>4. QED
      BY <3>1, <3>2, <3>3, OpMove
  <2>7. CASE AbandonOp(i)
    <3>1. Move(i, taken, task[i])
      BY <1>1, <2>7, Moves
    <3>2. taken \in InflightOp /\ taken.target = e.target /\ taken.operator
      BY <2>1, EntryFacts
    <3> HIDE DEF taken
    <3>3. QED
      BY <2>1, <3>1, <3>2, OpMove
  <2>8. CASE GraceEnds(i)
    <3>1. Move(i, old, task[i])
      BY <1>1, <2>8, Moves
    <3>2. old \in InflightOp /\ old.target = e.target /\ old.operator = e.operator
          /\ old.status = e.status
      BY <2>1, EntryFacts
    <3>3. Answering(i) => \/ old.operator
                          \/ old.status = "InProgress" /\ task[i] \notin {"create", "abandon"}
      BY <2>2, <3>2
    <3> HIDE DEF old
    <3>4. QED
      BY <2>1, <3>1, <3>2, <3>3, OpMove
  <2>9. QED
    BY <1>8, <2>4, <2>5, <2>6, <2>7, <2>8 DEF RecoverStep
<1>9. QED
  BY <1>1, <1>3, <1>5, <1>6, <1>7, <1>8, JournalKinds

(* A recovery that works on a slot answers for it.                         *)
LEMMA Working ==
  ASSUME IInv, NEW i \in Op, task[i] \in Running
  PROVE  journal[i].operator \/ journal[i].status = "InProgress"
  BY DEF IInv, OpsInv

LEMMA OrphanStep ==
  ASSUME IInv, Next
  PROVE  OrphanInv'
<1>1. TypeOK /\ OpsInv /\ OrphanInv /\ SweepInv
  BY DEF IInv
<1>2. journal \in [Op -> InflightOp] /\ task \in [Op -> Stage]
      /\ \A i \in Op : journal[i].target \in Standby
  BY <1>1, Shape
<1>3. SlotEffects /\ QueueEffects /\ OpEffects
  BY SlotStep, QueueStep, OpStep
<1>4. \A n \in Standby : ByOperator(n) => ByOperator(n)'
  BY <1>3 DEF OpEffects, ByOperator
<1>5. \A n \in Standby : ByOperator(n) => Answered(n)
  BY DEF ByOperator, Answered, Answering
<1>6. \A n \in Standby : ByOperator(n)' => Answered(n)'
  BY DEF ByOperator, Answered, Answering
<1>7. ASSUME NEW n \in Standby, NEW i \in Op, journal[i].target = n,
             NEW s \in {"copy", "configure", "cleanup"}, Move(i, journal[i], s),
             task[i] \in Running
      PROVE  Answered(n)'
  <2>1. s \in Stage /\ journal[i] \in InflightOp
    BY <1>2, <1>7 DEF Stage
  <2>2. Op' = Op /\ journal'[i] = journal[i] /\ task'[i] = s
    BY <1>1, <1>7, <2>1, MoveFacts
  <2>3. Answering(i)'
    BY <1>7, <2>2, Working DEF Answering
  <2>4. \E j \in Op' : journal'[j].target = n /\ Answering(j)'
    BY <1>7, <2>2, <2>3
  <2>5. QED
    BY <2>4 DEF Answered
<1>8. ASSUME NEW n \in Standby, slot'[n] # "none", ~standby'[n].ready
      PROVE  Answered(n)'
  <2>1. CASE slot[n] = "none"
    <3>1. PICK i \in Op : RecoverCreate(i) /\ journal[i].target = n
      BY <1>3, <1>8, <2>1 DEF SlotEffects
    <3>2. Move(i, journal[i], "copy") /\ task[i] = "create"
      BY <1>1, <1>8, <2>1, <3>1, Moves
    <3>3. QED
      BY <1>7, <3>1, <3>2 DEF Running
  <2>2. CASE standby[n].ready
    <3>1. PICK i \in Op : RecoverCopy(i) /\ journal[i].target = n
      BY <1>3, <1>8, <2>2 DEF SlotEffects
    <3>2. task[i] = "copy" /\ (Move(i, journal[i], "cleanup")
                               \/ Move(i, journal[i], "configure"))
      BY <1>1, <3>1, Moves
    <3>3. QED
      BY <1>7, <3>1, <3>2 DEF Running
  <2>3. CASE slot[n] # "none" /\ ~standby[n].ready
    <3>1. Answered(n)
      BY <1>1, <2>3 DEF OrphanInv, Pinning
    <3>2. ASSUME NEW i \in Intent, queue[i].target = n, Standing(i)
          PROVE  Answered(n)'
      <4>1. i \in Intent' /\ queue'[i].target = n /\ Standing(i)'
        BY <1>3, <1>8, <3>2 DEF QueueEffects
      <4>2. QED
        BY <4>1 DEF Answered
    <3>3. ASSUME NEW i \in Op, journal[i].target = n, Answering(i)
          PROVE  Answered(n)'
      <4>1. CASE Answering(i)'
        <5>1. i \in Op' /\ journal'[i].target = n
          BY <1>3, <3>3 DEF OpEffects
        <5>2. QED
          BY <4>1, <5>1 DEF Answered
      <4>2. CASE RecoverComplete(i)
        <5>1. task[i] = "complete"
          BY <4>2 DEF RecoverComplete
        <5>2. ByOperator(n)
          BY <1>1, <2>3, <3>3, <5>1 DEF OrphanInv
        <5>3. QED
          BY <1>4, <1>6, <5>2
      <4>3. CASE RecoverCleanup(i)
        <5>1. queue' = Queued(n) /\ worker' = worker
          <6>1. slot \in [Standby -> {"none", "idle", "active"}]
            BY <1>1 DEF TypeOK
          <6>2. QED
            BY <1>8, <3>3, <4>3, <6>1 DEF RecoverCleanup, Dropped
        <5>2. PICK k \in Intent' : k \notin Intent
              /\ queue'[k].target = n /\ queue'[k].status = "Pending"
          BY <1>1, <5>1, QueuedFacts
        <5>3. worker.at = "mark" => k # Current
          BY <1>1, <5>2, CurrentIntent DEF SweepInv
        <5>4. worker'.at = worker.at /\ Current' = Current
          BY <5>1 DEF Current, Todo
        <5>5. Standing(k)'
          BY <5>2, <5>3, <5>4 DEF Standing
        <5>6. QED
          BY <5>2, <5>5 DEF Answered
      <4>4. QED
        BY <1>3, <3>3, <4>1, <4>2, <4>3 DEF OpEffects
    <3>4. QED
      BY <3>1, <3>2, <3>3 DEF Answered
  <2>4. QED
    BY <2>1, <2>2, <2>3
<1>9. ASSUME NEW i \in Op', task'[i] = "complete"
      PROVE  standby'[journal'[i].target].ready \/ ByOperator(journal[i].target)'
  <2> DEFINE n == journal[i].target
  <2>1. i \in Op /\ journal'[i].target = n
        /\ (task[i] = "complete" \/ RecoverConfigure(i))
    BY <1>3, <1>9 DEF OpEffects
  <2>2. n \in Standby
    BY <1>2, <2>1
  <2>3. CASE task[i] = "complete" /\ ByOperator(n)
    BY <1>4, <2>1, <2>2, <2>3 DEF ByOperator
  <2>4. CASE task[i] = "complete" /\ standby[n].ready /\ ~standby'[n].ready
    <3>1. PICK j \in Op : RecoverCopy(j) /\ journal[j].target = n
      BY <1>3, <2>2, <2>4 DEF SlotEffects
    <3>2. task[j] = "copy"
      BY <3>1 DEF RecoverCopy
    <3>3. journal[i].operator \/ journal[j].operator
      BY <1>1, <2>1, <2>4, <3>1, <3>2, Working DEF OpsInv, Running
    <3>4. ByOperator(n)
      BY <2>1, <3>1, <3>3 DEF ByOperator
    <3>5. QED
      BY <1>4, <2>1, <2>2, <3>4 DEF ByOperator
  <2>5. CASE RecoverConfigure(i)
    <3>1. task[i] = "configure" /\ (Move(i, journal[i], "complete")
                                    \/ Move(i, journal[i], "cleanup"))
      BY <1>1, <2>1, <2>5, Moves
    <3>2. standby'[n].ready
      <4>1. task'[i] # "cleanup"
        BY <1>9
      <4>2. standby \in [Standby -> [up : BOOLEAN, ready : BOOLEAN]]
        BY <1>1 DEF TypeOK
      <4>3. QED
        BY <1>2, <2>1, <2>2, <2>5, <4>1, <4>2 DEF RecoverConfigure
    <3>3. QED
      BY <2>1, <3>2
  <2>6. QED
    BY <1>1, <2>1, <2>3, <2>4, <2>5 DEF OrphanInv
<1>10. \A i \in Op' : task'[i] = "complete" =>
         standby'[journal'[i].target].ready \/ ByOperator(journal[i].target)'
  BY <1>9
<1>11. QED
  BY <1>8, <1>10 DEF OrphanInv, Pinning

-----------------------------------------------------------------------------
LEMMA InitIInv ==
  ASSUME Init
  PROVE  IInv
<1>1. /\ journal = <<>> /\ task = <<>> /\ queue = <<>>
      /\ slot = [n \in Standby |-> "active"]
      /\ standby = [n \in Standby |-> [up |-> TRUE, ready |-> TRUE]]
      /\ db = TRUE
      /\ worker = Asleep /\ retry = NoRetry
      /\ window = [n \in Standby |-> 0]
      /\ handler = [h \in {"hook", "peer"} |-> Free]
      /\ reported = {} /\ markers = {}
      /\ faults = MaxFaults
  BY DEF Init
<1>2. Op = {} /\ Intent = {} /\ Len(journal) = 0 /\ Len(queue) = 0 /\ Len(task) = 0
  BY <1>1 DEF Op, Intent
<1>3. worker.at = "sleep" /\ worker.saw = 0 /\ worker.todo = <<>> /\ Todo = {}
  BY <1>1 DEF Asleep, Todo
<1>4. TypeOK
  <2>1. JournalOK
    BY <1>1, <1>2, Constants DEF JournalOK
  <2>2. SlotsOK
    BY <1>1 DEF SlotsOK
  <2>3. HandlerOK
    BY <1>1 DEF HandlerOK, Handler, Free
  <2>4. worker \in Worker
    BY <1>1, <1>3 DEF Worker, Asleep
  <2>5. QueueOK
    BY <1>1, <1>2, <1>3, <2>4, Constants DEF QueueOK, NoRetry
  <2>6. OtherOK
    BY <1>1, Constants DEF OtherOK
  <2>7. QED
    BY <1>2, <2>1, <2>2, <2>3, <2>5, <2>6, TypeParts, Constants
<1>5. OpsInv /\ SweepInv
  BY <1>1, <1>2, <1>3 DEF OpsInv, SweepInv, NoRetry
<1>6. BudgetInv
  <2>1. Owing = {} /\ HookOwes = 0
    BY <1>1, <1>2 DEF Owing, HookOwes, Free
  <2>2. Cardinality({}) = 0
    BY FS_EmptySet
  <2>3. QED
    BY <1>2, <2>1, <2>2, Constants DEF BudgetInv
<1>7. WindowInv /\ SawInv /\ OrphanInv
  BY <1>1, <1>2, <1>3 DEF WindowInv, SawInv, OrphanInv, Busy, Free, Pinning
<1>8. QED
  BY <1>4, <1>5, <1>6, <1>7 DEF IInv

LEMMA NextIInv ==
  ASSUME IInv, Next
  PROVE  IInv'
<1>1. TypeOK' /\ OpsInv' /\ SweepInv' /\ BudgetInv'
  BY TypeStep, OpsStep, QueueStep, BudgetStep DEF QueueEffects
<1>2. WindowInv' /\ SawInv' /\ OrphanInv'
  BY WindowStep, SawStep, OrphanStep
<1>3. QED
  BY <1>1, <1>2 DEF IInv

LEMMA StutterIInv ==
  ASSUME IInv, UNCHANGED vars
  PROVE  IInv'
<1>1. UNCHANGED <<journal, slot, db, queue, worker, retry, window,
                  standby, task, handler, reported, markers, faults>>
  BY DEF vars
<1>2. TypeOK'
  BY <1>1 DEF IInv, TypeOK, Todo, Intent, Worker, Handler
<1>3. OpsInv' /\ SweepInv'
  BY <1>1 DEF IInv, OpsInv, SweepInv, Op, Intent, Todo
<1>4. BudgetInv' /\ WindowInv'
  BY <1>1 DEF IInv, BudgetInv, WindowInv, Owing, HookOwes, Owns, Op
<1>5. SawInv'
  BY <1>1 DEF IInv, SawInv, Busy
<1>6. OrphanInv'
  BY <1>1 DEF IInv, OrphanInv, Pinning, Answered, Answering, Standing, ByOperator,
              Op, Intent, Current, Todo
<1>7. QED
  BY <1>2, <1>3, <1>4, <1>5, <1>6 DEF IInv

(* IInv holds in every reachable state.                                    *)
THEOREM Invariant == Spec => []IInv
<1>1. Init => IInv
  BY InitIInv
<1>2. IInv /\ [Next]_vars => IInv'
  BY NextIInv, StutterIInv
<1>3. QED
  BY <1>1, <1>2, PTL DEF Spec

(* A file says of every slot whose standby cannot start why it is there:   *)
(* an operation in progress or abandoned by the operator, or a queued drop *)
(* that is not done, unless the worker left a drop to an owner             *)
(* (recovery_first_stage, cleanup_slot_after_failure, process_drop_slot).  *)
THEOREM SlotsAreNotForgotten == Spec => []OrphanWasYielded
<1>1. ASSUME IInv PROVE OrphanWasYielded
  <2>1. TypeOK /\ OrphanInv
    BY <1>1 DEF IInv
  <2>2. ASSUME NEW n \in Standby, Orphaned(n)
        PROVE  \E i \in Intent : queue[i].target = n /\ queue[i].yielded
    <3>1. Answered(n)
      BY <2>1, <2>2 DEF OrphanInv, Pinning, Orphaned
    <3>2. ~\E i \in Op : journal[i].target = n /\ Answering(i)
      BY <2>2 DEF Orphaned, Recorded, Answering
    <3>3. PICK i \in Intent : queue[i].target = n /\ Standing(i)
      BY <3>1, <3>2 DEF Answered
    <3>4. queue[i].yielded
      BY <2>2, <3>3 DEF Orphaned, Recorded, Standing
    <3>5. QED
      BY <3>3, <3>4
  <2>3. QED
    BY <2>1, <2>2 DEF OrphanWasYielded
<1>2. QED
  BY <1>1, Invariant, PTL

(* What drops a slot while it waits for a recovery: the recovery's own     *)
(* clean-up, that of one the operator abandoned, or a request that found   *)
(* no owner before the slot was created for this recovery.                 *)
LEMMA WindowStepProtected ==
  ASSUME IInv, Next, NEW n \in Standby, Drops(n), window[n] # 0
  PROVE  WindowDrop(n)
<1>1. TypeOK /\ WindowInv /\ SawInv
  BY DEF IInv
<1>2. slot \in [Standby -> SlotState] /\ slot[n] # "none" /\ slot'[n] = "none"
  BY <1>1 DEF TypeOK, SlotState, Drops
<1>3. \A i \in Op : journal[i].target \in Standby /\ journal[i] \in InflightOp
  BY <1>1, Shape
<1>4. handler \in [{"hook", "peer"} -> Handler]
  BY <1>1 DEF TypeOK
<1>5. ASSUME NEW m, slot' = Dropped(m) PROVE m = n
  BY <1>2, <1>5 DEF Dropped
<1>6. ASSUME NEW i \in Op, RecoverStep(i) PROVE WindowDrop(n)
  <2>1. CASE RecoverCleanup(i)
    <3>1. task[i] = "cleanup" /\ Move(i, journal[i], "abandon")
      BY <1>1, <2>1, Moves
    <3>2. task'[i] = "abandon"
      BY <1>1, <1>3, <3>1, MoveFacts DEF Stage
    <3>3. journal[i].target = n
      BY <1>2, <1>5, <2>1 DEF RecoverCleanup
    <3>4. journal[i].operator \/ window[n] \in {0, i}
      BY <1>1, <3>1, <3>3 DEF WindowInv
    <3>5. QED
      BY <3>1, <3>2, <3>4 DEF WindowDrop
  <2>2. CASE RecoverCreate(i)
    BY <1>2, <1>3, <2>2 DEF RecoverCreate
  <2>3. CASE ~RecoverCleanup(i) /\ ~RecoverCreate(i)
    BY <1>2, <1>6, <2>3 DEF RecoverStep, RecoverCopy, RecoverConfigure,
       RecoverComplete, RecoverStart, RecoverAbandon
  <2>4. QED
    BY <2>1, <2>2, <2>3
<1>7. ASSUME NEW h \in {"hook", "peer"}, handler[h].at = "drop",
             handler'[h].at # "drop", slot' = Dropped(handler[h].node)
      PROVE  WindowDrop(n)
  <2>1. handler[h].node = n /\ handler[h].saw = 0 /\ h \in DOMAIN handler
    BY <1>1, <1>4, <1>5, <1>7 DEF SawInv
  <2>2. QED
    BY <1>7, <2>1 DEF WindowDrop
<1>8. CASE HookDrop
  <2>1. handler["hook"].at = "drop" /\ slot' = Dropped(handler["hook"].node)
    BY <1>2, <1>8 DEF HookDrop
  <2>2. handler'["hook"].at = "mark"
    BY <1>4, <1>8 DEF HookDrop, Handler
  <2>3. QED
    BY <1>7, <2>1, <2>2
<1>9. CASE PeerDrop
  <2>1. handler["peer"].at = "drop" /\ slot' = Dropped(handler["peer"].node)
    BY <1>2, <1>9 DEF PeerDrop
  <2>2. handler'["peer"].at = "free"
    BY <1>4, <1>9 DEF PeerDrop, Free
  <2>3. QED
    BY <1>7, <2>1, <2>2
<1>10. CASE WorkerStep
  <2>1. WorkerDrop
    BY <1>2, <1>10 DEF WorkerStep, SweepStart, SweepEnd, WorkerConsult,
                       WorkerMarkDone, RescheduleWrite, BackoffEnds
  <2>2. slot' = Dropped(queue[Current].target) /\ worker.at = "drop"
        /\ worker' = [worker EXCEPT !.at = "mark"]
    BY <1>2, <2>1 DEF WorkerDrop
  <2>3. worker'.at = "mark"
    BY <1>1, <2>2 DEF TypeOK, Worker
  <2>4. queue[Current].target = n /\ worker.saw = 0
    BY <1>1, <1>5, <2>2 DEF SawInv
  <2>5. QED
    BY <2>2, <2>3, <2>4 DEF WindowDrop
<1>11. ~\E m \in Standby :
          \/ RecoverBegin(m) \/ HookConsult(m) \/ PeerConsult(m)
          \/ StandbyUp(m) \/ MarkerSwept(m)
  BY <1>2 DEF RecoverBegin, HookConsult, PeerConsult, StandbyUp, MarkerSwept
<1>12. ~\E m \in Standby : StandbyDown(m) \/ Connect(m) \/ Refollow(m)
  BY <1>2 DEF StandbyDown, Connect, Refollow
<1>13. ~(HookProbe \/ HookMark \/ DbFails \/ DbBack \/ Crash
         \/ \E i \in Intent : RescheduleRead(i))
  BY <1>2 DEF HookProbe, HookMark, DbFails, DbBack, Crash, RescheduleRead
<1>14. ~\E i \in Op : AbandonOp(i) \/ GraceEnds(i)
  BY <1>2 DEF AbandonOp, GraceEnds
<1>15. QED
  BY <1>6, <1>8, <1>9, <1>10, <1>11, <1>12, <1>13, <1>14 DEF Next, HookStep

(* No request that comes in takes away a slot that waits for a recovery,   *)
(* whichever path it comes by (owner_of_slot_observing and its callers in  *)
(* failover, PeerServer::drop_slot and process_drop_slot).                 *)
THEOREM WindowIsProtected == Spec => WindowProtected
<1>1. IInv /\ [Next]_vars =>
        [\A n \in Standby : Drops(n) /\ window[n] # 0 => WindowDrop(n)]_vars
  BY WindowStepProtected
<1>2. QED
  BY <1>1, Invariant, PTL DEF Spec, WindowProtected

=============================================================================
