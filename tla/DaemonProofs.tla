---------------------------- MODULE DaemonProofs ----------------------------
(***************************************************************************)
(* Proofs about Daemon: SIGTERM ends the agent in time and without a false *)
(* failure, and /healthz never calls healthy what was not recently seen    *)
(* up, for every set of subsystems, every time-out (with Grace below       *)
(* StopLimit) and every number of faults.                                  *)
(***************************************************************************)
EXTENDS Daemon, TLAPS

(* Where serve can be, by what systemd takes the unit for.  Of an agent    *)
(* that had reported READY when SIGTERM came, the time since is 0 until    *)
(* serve wakes, and no more than the time it has drained afterwards.       *)
PhaseInv ==
  /\ unit = "activating" =>
       stage \in {"membership", "verify", "coldstart", "beat"}
  /\ unit = "active" => stage \in {"serving", "draining"}
  /\ unit = "deactivating" /\ ~early =>
       /\ stage \in {"serving", "draining"}
       /\ stage = "serving" => token /\ timer = 0
       /\ stage = "draining" => timer <= drain

(* A subsystem that failed is a cause, and one that returned was told to.  *)
CauseInv ==
  /\ \A t \in Task : /\ task[t] = "failed" => cause
                     /\ task[t] = "returned" => token
  /\ outcome = "err" => cause
  /\ outcome = "killed" => early /\ stage = "off"

(* A snapshot that shows pgpool up is no younger than pgpool's last life.  *)
SnapInv ==
  /\ verified => verdict # "none"
  /\ pool = "up" => sinceUp = 0
  /\ snap.up => sinceUp <= snap.age

IInv == TypeOK /\ PhaseInv /\ CauseInv /\ SnapInv

-----------------------------------------------------------------------------
LEMMA Constants ==
  /\ {Grace, StopLimit, StartLimit, StaleAfter, Gap, MaxFailures} \subseteq Nat \ {0}
  /\ StageDelay \in Nat /\ MaxFaults \in Nat /\ Grace < StopLimit
  BY DaemonAssumption

LEMMA MaxLimit == /\ Max({StartLimit, StopLimit}) \in Nat
                  /\ 0 \in 0 .. Max({StartLimit, StopLimit})
                  /\ StartLimit <= Max({StartLimit, StopLimit})
                  /\ StopLimit <= Max({StartLimit, StopLimit})
<1> DEFINE S == {StartLimit, StopLimit}
<1>1. \E x \in S : \A y \in S : x >= y
  BY Constants
<1>2. Max(S) \in S /\ \A y \in S : Max(S) >= y
  BY <1>1 DEF Max
<1>3. QED
  BY <1>2, Constants

LEMMA IncType == ASSUME NEW b \in Nat, NEW n \in 0 .. b
                 PROVE  Inc(n, b) \in 0 .. b /\ n <= Inc(n, b)
  BY DEF Inc

LEMMA ResetType == NewSupervisor \in Supervisor /\ NoSnapshot \in Snapshot
                   /\ ~NewSupervisor.on /\ ~NewSupervisor.waiting /\ ~NoSnapshot.up
  BY Constants DEF NewSupervisor, Supervisor, NoSnapshot, Snapshot

LEMMA InitIInv == Init => IInv
<1> SUFFICES ASSUME Init PROVE IInv
  OBVIOUS
<1> USE Constants, MaxLimit, ResetType DEF Init
<1>1. TypeOK
  <2>1. timer \in 0 .. Max({StartLimit, StopLimit}) /\ drain \in 0 .. Grace
        /\ faults \in 0 .. MaxFaults /\ sinceUp \in 0 .. StaleAfter
    OBVIOUS
  <2>2. {token, verified, pg, early, cause} \subseteq BOOLEAN
    BY Zenon
  <2>3. sup \in Supervisor /\ snap \in Snapshot /\ pool \in {"down", "queued", "up"}
        /\ task \in [Task -> {"off", "running", "hung", "returned", "failed"}]
    OBVIOUS
  <2>4. stage = "off" /\ unit = "inactive" /\ ~token /\ ~verified
        /\ ~sup.on /\ ~sup.waiting
    BY Zenon
  <2>5. QED
    BY <2>1, <2>2, <2>3, <2>4 DEF TypeOK
<1>2. PhaseInv /\ CauseInv
  BY DEF PhaseInv, CauseInv
<1>3. SnapInv
  BY DEF SnapInv
<1>4. QED
  BY <1>1, <1>2, <1>3 DEF IInv

-----------------------------------------------------------------------------
(* The parts of the type invariant.                                        *)
NamesOK ==
  /\ unit \in {"inactive", "restart", "activating", "active", "deactivating"}
  /\ term \in {"none", "operator", "systemd"}
  /\ stage \in {"off", "membership", "verify", "coldstart", "beat", "serving",
                "draining"}
  /\ verdict \in {"none", "Confirmed", "NotApplicable", "Refused"}
  /\ outcome \in {"none", "ok", "err", "killed"}
  /\ pool \in {"down", "queued", "up"}
ClocksOK ==
  /\ timer \in 0 .. Max({StartLimit, StopLimit}) /\ drain \in 0 .. Grace
  /\ sinceUp \in 0 .. StaleAfter /\ faults \in 0 .. MaxFaults
RecordsOK ==
  /\ sup \in Supervisor /\ snap \in Snapshot
  /\ task \in [Task -> {"off", "running", "hung", "returned", "failed"}]
FlagsOK == {token, verified, pg, early, cause} \subseteq BOOLEAN
OffOK ==
  /\ (stage = "off") <=> (unit \in {"inactive", "restart"})
  /\ (stage = "off") => ~token /\ ~verified /\ ~sup.on /\ ~sup.waiting

LEMMA TypeParts ==
  TypeOK <=> NamesOK /\ ClocksOK /\ RecordsOK /\ FlagsOK /\ OffOK
  BY DEF TypeOK, NamesOK, ClocksOK, RecordsOK, FlagsOK, OffOK

(* What the supervisor writes is a supervisor.                             *)
LEMMA SupervisorFacts ==
  ASSUME sup \in Supervisor
  PROVE  /\ [sup EXCEPT !.on = TRUE] \in Supervisor
         /\ [sup EXCEPT !.failures = 0] \in Supervisor
         /\ [sup EXCEPT !.since = 0, !.waiting = TRUE] \in Supervisor
         /\ \A ok \in BOOLEAN :
              [sup EXCEPT !.waiting = FALSE, !.on = TRUE,
                 !.failures = IF ok THEN @ ELSE Inc(@, MaxFailures)] \in Supervisor
<1>1. 0 \in 0 .. MaxFailures /\ 0 \in 0 .. Gap
  BY Constants
<1>2. [sup EXCEPT !.on = TRUE] \in Supervisor
  BY DEF Supervisor
<1>3. [sup EXCEPT !.failures = 0] \in Supervisor
  BY <1>1 DEF Supervisor
<1>4. [sup EXCEPT !.since = 0, !.waiting = TRUE] \in Supervisor
  BY <1>1 DEF Supervisor
<1>5. ASSUME NEW ok \in BOOLEAN
      PROVE  [sup EXCEPT !.waiting = FALSE, !.on = TRUE,
                !.failures = IF ok THEN @ ELSE Inc(@, MaxFailures)] \in Supervisor
  <2> DEFINE f == IF ok THEN sup.failures ELSE Inc(sup.failures, MaxFailures)
  <2>1. f \in 0 .. MaxFailures
    BY Constants, IncType DEF Supervisor
  <2>2. [sup EXCEPT !.waiting = FALSE, !.on = TRUE,
           !.failures = IF ok THEN @ ELSE Inc(@, MaxFailures)]
        = [sup EXCEPT !.waiting = FALSE, !.on = TRUE, !.failures = f]
    BY DEF Supervisor
  <2> HIDE DEF f
  <2>3. [sup EXCEPT !.waiting = FALSE, !.on = TRUE, !.failures = f] \in Supervisor
    BY <2>1 DEF Supervisor
  <2>4. QED
    BY <2>2, <2>3
<1>6. QED
  BY <1>2, <1>3, <1>4, <1>5

(* build_snapshot: a new one, which shows pgpool up only if it is.         *)
LEMMA SnapshotFacts ==
  ASSUME FlagsOK, NEW s \in Snapshots
  PROVE  s \in Snapshot /\ s.age = 0 /\ (s.up => pool = "up")
<1>1. s.age = 0 /\ s.up \in {FALSE, pool = "up"} /\ s.pg \in {FALSE, pg}
  BY DEF Snapshots, ProbePgpool, ProbePostgres
<1>2. s.up \in BOOLEAN /\ s.pg \in BOOLEAN /\ (s.up => pool = "up")
  BY <1>1, Zenon DEF FlagsOK
<1>3. 0 \in 0 .. StaleAfter
  BY Constants
<1>4. s = [age |-> s.age, up |-> s.up, pg |-> s.pg]
  BY DEF Snapshots
<1>5. QED
  BY <1>1, <1>2, <1>3, <1>4 DEF Snapshot

(* The names of states, verdicts and outcomes.                             *)
LEMMA NamesStep == ASSUME IInv, Next PROVE NamesOK'
<1> USE DEF process, role, health
<1>1. /\ NamesOK /\ ClocksOK /\ RecordsOK /\ FlagsOK /\ OffOK
      /\ PhaseInv /\ CauseInv /\ SnapInv
  BY TypeParts DEF IInv
<1>2. CASE Boot
  BY <1>1, <1>2 DEF Boot, Snapshots, Spawned, ProbePgpool, ProbePostgres,
     NamesOK
<1>3. CASE BootFails
  BY <1>1, <1>3 DEF BootFails, Fault, NamesOK
<1>4. CASE EnsureMembership
  BY <1>1, <1>4 DEF EnsureMembership, NamesOK
<1>5. CASE VerifyPrimary
  BY <1>1, <1>5 DEF VerifyPrimary, Verdicts, NamesOK
<1>6. CASE ColdStartReconcile
  BY <1>1, <1>6 DEF ColdStartReconcile, Ready, Eligible, NamesOK
<1>7. CASE StartupBeat
  BY <1>1, <1>7 DEF StartupBeat, Ready, Attempt, StartPgpool, Fault, NamesOK
<1>8. CASE RefusesToServe
  BY <1>1, <1>8 DEF RefusesToServe, Ended, Fault, NamesOK
<1>9. CASE SupervisorTick
  BY <1>1, <1>9 DEF SupervisorTick, Attempt, StartPgpool, NamesOK
<1>10. CASE SupervisorReturns
  BY <1>1, <1>10 DEF SupervisorReturns, NamesOK
<1>11. CASE JobEnds
  BY <1>1, <1>11 DEF JobEnds, Ready, Fault, NamesOK
<1>12. CASE PgpoolDies
  BY <1>1, <1>12 DEF PgpoolDies, Fault, NamesOK
<1>13. CASE ProbeOnce
  BY <1>1, <1>13 DEF ProbeOnce, Snapshots, ProbePgpool, ProbePostgres,
     NamesOK
<1>14. ASSUME NEW t \in Task, TaskFails(t) PROVE NamesOK'
  BY <1>1, <1>14 DEF TaskFails, Fault, NamesOK
<1>15. ASSUME NEW t \in Task, TaskHangs(t) PROVE NamesOK'
  BY <1>1, <1>15 DEF TaskHangs, Fault, NamesOK
<1>16. ASSUME NEW t \in Task, TaskReturns(t) PROVE NamesOK'
  BY <1>1, <1>16 DEF TaskReturns, NamesOK
<1>17. CASE OperatorStops
  BY <1>1, <1>17 DEF OperatorStops, Sigterm, Fault, NamesOK
<1>18. CASE StartTimesOut
  BY <1>1, <1>18 DEF StartTimesOut, Sigterm, NamesOK
<1>19. CASE StopTimesOut
  BY <1>1, <1>19 DEF StopTimesOut, Ended, NamesOK
<1>20. CASE Wakes
  BY <1>1, <1>20 DEF Wakes, JoinOutcome, Joinable, NamesOK
<1>21. CASE Exit
  BY <1>1, <1>21 DEF Exit, Ended, NamesOK
<1>22. CASE Tick
  BY <1>1, <1>22 DEF Tick, Due, DrainOver, NamesOK
<1>23. QED
  BY <1>2, <1>3, <1>4, <1>5, <1>6, <1>7, <1>8, <1>9, <1>10, <1>11, <1>12,
     <1>13, <1>14, <1>15, <1>16, <1>17, <1>18, <1>19, <1>20, <1>21, <1>22
     DEF Next, Startup

(* Clocks and counters stay in range: time stands still while a step that  *)
(* ends a wait is due.                                                     *)
LEMMA ClocksStep == ASSUME IInv, Next PROVE ClocksOK'
<1> USE Constants, MaxLimit, IncType DEF process, role, health
<1>1. /\ NamesOK /\ ClocksOK /\ RecordsOK /\ FlagsOK /\ OffOK
      /\ PhaseInv /\ CauseInv /\ SnapInv
  BY TypeParts DEF IInv
<1>2. CASE Boot
  BY <1>1, <1>2 DEF Boot, Snapshots, Spawned, ProbePgpool, ProbePostgres,
     ClocksOK
<1>3. CASE BootFails
  BY <1>1, <1>3 DEF BootFails, Fault, ClocksOK
<1>4. CASE EnsureMembership
  BY <1>1, <1>4 DEF EnsureMembership, ClocksOK
<1>5. CASE VerifyPrimary
  BY <1>1, <1>5 DEF VerifyPrimary, Verdicts, ClocksOK
<1>6. CASE ColdStartReconcile
  <2>1. (timer' = timer \/ timer' = 0) /\ UNCHANGED <<drain, sinceUp, faults>>
    BY <1>6 DEF ColdStartReconcile, Ready
  <2>2. timer' \in 0 .. Max({StartLimit, StopLimit})
    BY <1>1, <2>1 DEF ClocksOK
  <2>3. QED
    BY <1>1, <2>1, <2>2, Zenon DEF ClocksOK
<1>7. CASE StartupBeat
  BY <1>1, <1>7 DEF StartupBeat, Ready, Attempt, StartPgpool, Fault,
     ClocksOK
<1>8. CASE RefusesToServe
  BY <1>1, <1>8 DEF RefusesToServe, Ended, Fault, ClocksOK
<1>9. CASE SupervisorTick
  BY <1>1, <1>9 DEF SupervisorTick, Attempt, StartPgpool, ClocksOK
<1>10. CASE SupervisorReturns
  BY <1>1, <1>10 DEF SupervisorReturns, ClocksOK
<1>11. CASE JobEnds
  BY <1>1, <1>11 DEF JobEnds, Ready, Fault, ClocksOK
<1>12. CASE PgpoolDies
  BY <1>1, <1>12 DEF PgpoolDies, Fault, ClocksOK
<1>13. CASE ProbeOnce
  BY <1>1, <1>13 DEF ProbeOnce, Snapshots, ProbePgpool, ProbePostgres,
     ClocksOK
<1>14. ASSUME NEW t \in Task, TaskFails(t) PROVE ClocksOK'
  BY <1>1, <1>14 DEF TaskFails, Fault, ClocksOK
<1>15. ASSUME NEW t \in Task, TaskHangs(t) PROVE ClocksOK'
  BY <1>1, <1>15 DEF TaskHangs, Fault, ClocksOK
<1>16. ASSUME NEW t \in Task, TaskReturns(t) PROVE ClocksOK'
  BY <1>1, <1>16 DEF TaskReturns, ClocksOK
<1>17. CASE OperatorStops
  BY <1>1, <1>17 DEF OperatorStops, Sigterm, Fault, ClocksOK
<1>18. CASE StartTimesOut
  BY <1>1, <1>18 DEF StartTimesOut, Sigterm, ClocksOK
<1>19. CASE StopTimesOut
  BY <1>1, <1>19 DEF StopTimesOut, Ended, ClocksOK
<1>20. CASE Wakes
  BY <1>1, <1>20 DEF Wakes, JoinOutcome, Joinable, ClocksOK
<1>21. CASE Exit
  BY <1>1, <1>21 DEF Exit, Ended, ClocksOK
<1>22. CASE Tick
  BY <1>1, <1>22 DEF Tick, Due, DrainOver, ClocksOK
<1>23. QED
  BY <1>2, <1>3, <1>4, <1>5, <1>6, <1>7, <1>8, <1>9, <1>10, <1>11, <1>12,
     <1>13, <1>14, <1>15, <1>16, <1>17, <1>18, <1>19, <1>20, <1>21, <1>22
     DEF Next, Startup

(* The supervisor, the snapshot and the subsystems.                        *)
LEMMA RecordsStep == ASSUME IInv, Next PROVE RecordsOK'
<1> USE Constants, ResetType, IncType DEF process, role, health
<1>1. /\ NamesOK /\ ClocksOK /\ RecordsOK /\ FlagsOK /\ OffOK
      /\ PhaseInv /\ CauseInv /\ SnapInv
  BY TypeParts DEF IInv
<1>2. CASE Boot
  <2>1. snap' \in Snapshot
    BY <1>1, <1>2, SnapshotFacts DEF Boot
  <2>2. QED
    BY <1>1, <1>2, <2>1 DEF Boot, Spawned, RecordsOK
<1>3. CASE BootFails
  BY <1>1, <1>3 DEF BootFails, Fault, RecordsOK, Supervisor, Snapshot
<1>4. CASE EnsureMembership
  BY <1>1, <1>4 DEF EnsureMembership, RecordsOK, Supervisor, Snapshot
<1>5. CASE VerifyPrimary
  BY <1>1, <1>5 DEF VerifyPrimary, Verdicts, RecordsOK, Supervisor, Snapshot
<1>6. CASE ColdStartReconcile
  BY <1>1, <1>6 DEF ColdStartReconcile, Ready, Eligible, RecordsOK,
     Supervisor, Snapshot
<1>7. CASE StartupBeat
  <2>1. \/ sup' = [sup EXCEPT !.on = TRUE]
        \/ sup' = [sup EXCEPT !.since = 0, !.waiting = TRUE]
    BY <1>7 DEF StartupBeat, Attempt
  <2>2. UNCHANGED <<task, snap>>
    BY <1>7 DEF StartupBeat
  <2>3. QED
    BY <1>1, <2>1, <2>2, SupervisorFacts DEF RecordsOK
<1>8. CASE RefusesToServe
  BY <1>1, <1>8 DEF RefusesToServe, Ended, Fault, RecordsOK, Supervisor,
     Snapshot
<1>9. CASE SupervisorTick
  <2>1. \/ sup' = [sup EXCEPT !.failures = 0]
        \/ sup' = [sup EXCEPT !.since = 0, !.waiting = TRUE]
    BY <1>9 DEF SupervisorTick, Attempt
  <2>2. UNCHANGED <<task, snap>>
    BY <1>9 DEF SupervisorTick
  <2>3. QED
    BY <1>1, <2>1, <2>2, SupervisorFacts DEF RecordsOK
<1>10. CASE SupervisorReturns
  BY <1>1, <1>10 DEF SupervisorReturns, RecordsOK, Supervisor, Snapshot
<1>11. CASE JobEnds
  <2>1. PICK ok \in BOOLEAN :
          sup' = IF ~sup.waiting THEN sup
                 ELSE [sup EXCEPT !.waiting = FALSE, !.on = TRUE,
                         !.failures = IF ok THEN @ ELSE Inc(@, MaxFailures)]
    BY <1>11 DEF JobEnds
  <2>2. UNCHANGED <<task, snap>>
    BY <1>11 DEF JobEnds
  <2>3. QED
    BY <1>1, <2>1, <2>2, SupervisorFacts DEF RecordsOK
<1>12. CASE PgpoolDies
  BY <1>1, <1>12 DEF PgpoolDies, Fault, RecordsOK, Supervisor, Snapshot
<1>13. CASE ProbeOnce
  <2>1. snap' \in Snapshot
    BY <1>1, <1>13, SnapshotFacts DEF ProbeOnce
  <2>2. QED
    BY <1>1, <1>13, <2>1 DEF ProbeOnce, RecordsOK
<1>14. ASSUME NEW t \in Task, TaskFails(t) PROVE RecordsOK'
  BY <1>1, <1>14 DEF TaskFails, Fault, RecordsOK, Supervisor, Snapshot
<1>15. ASSUME NEW t \in Task, TaskHangs(t) PROVE RecordsOK'
  BY <1>1, <1>15 DEF TaskHangs, Fault, RecordsOK, Supervisor, Snapshot
<1>16. ASSUME NEW t \in Task, TaskReturns(t) PROVE RecordsOK'
  BY <1>1, <1>16 DEF TaskReturns, RecordsOK, Supervisor, Snapshot
<1>17. CASE OperatorStops
  BY <1>1, <1>17 DEF OperatorStops, Sigterm, Fault, RecordsOK, Supervisor,
     Snapshot
<1>18. CASE StartTimesOut
  BY <1>1, <1>18 DEF StartTimesOut, Sigterm, RecordsOK, Supervisor, Snapshot
<1>19. CASE StopTimesOut
  BY <1>1, <1>19 DEF StopTimesOut, Ended, RecordsOK, Supervisor, Snapshot
<1>20. CASE Wakes
  BY <1>1, <1>20 DEF Wakes, JoinOutcome, Joinable, RecordsOK, Supervisor,
     Snapshot
<1>21. CASE Exit
  BY <1>1, <1>21 DEF Exit, Ended, RecordsOK, Supervisor, Snapshot
<1>22. CASE Tick
  BY <1>1, <1>22 DEF Tick, Due, DrainOver, RecordsOK, Supervisor, Snapshot
<1>23. QED
  BY <1>2, <1>3, <1>4, <1>5, <1>6, <1>7, <1>8, <1>9, <1>10, <1>11, <1>12,
     <1>13, <1>14, <1>15, <1>16, <1>17, <1>18, <1>19, <1>20, <1>21, <1>22
     DEF Next, Startup

(* The flags.                                                              *)
LEMMA FlagsStep == ASSUME IInv, Next PROVE FlagsOK'
<1> USE DEF process, role, health
<1>1. /\ NamesOK /\ ClocksOK /\ RecordsOK /\ FlagsOK /\ OffOK
      /\ PhaseInv /\ CauseInv /\ SnapInv
  BY TypeParts DEF IInv
<1>2. CASE Boot
  BY <1>1, <1>2 DEF Boot, Snapshots, Spawned, ProbePgpool, ProbePostgres,
     FlagsOK
<1>3. CASE BootFails
  BY <1>1, <1>3 DEF BootFails, Fault, FlagsOK
<1>4. CASE EnsureMembership
  BY <1>1, <1>4 DEF EnsureMembership, FlagsOK
<1>5. CASE VerifyPrimary
  BY <1>1, <1>5 DEF VerifyPrimary, Verdicts, FlagsOK
<1>6. CASE ColdStartReconcile
  BY <1>1, <1>6 DEF ColdStartReconcile, Ready, Eligible, FlagsOK
<1>7. CASE StartupBeat
  BY <1>1, <1>7 DEF StartupBeat, Ready, Attempt, StartPgpool, Fault, FlagsOK
<1>8. CASE RefusesToServe
  BY <1>1, <1>8 DEF RefusesToServe, Ended, Fault, FlagsOK
<1>9. CASE SupervisorTick
  BY <1>1, <1>9 DEF SupervisorTick, Attempt, StartPgpool, FlagsOK
<1>10. CASE SupervisorReturns
  BY <1>1, <1>10 DEF SupervisorReturns, FlagsOK
<1>11. CASE JobEnds
  BY <1>1, <1>11 DEF JobEnds, Ready, Fault, FlagsOK
<1>12. CASE PgpoolDies
  BY <1>1, <1>12 DEF PgpoolDies, Fault, FlagsOK
<1>13. CASE ProbeOnce
  BY <1>1, <1>13 DEF ProbeOnce, Snapshots, ProbePgpool, ProbePostgres,
     FlagsOK
<1>14. ASSUME NEW t \in Task, TaskFails(t) PROVE FlagsOK'
  BY <1>1, <1>14 DEF TaskFails, Fault, FlagsOK
<1>15. ASSUME NEW t \in Task, TaskHangs(t) PROVE FlagsOK'
  BY <1>1, <1>15 DEF TaskHangs, Fault, FlagsOK
<1>16. ASSUME NEW t \in Task, TaskReturns(t) PROVE FlagsOK'
  BY <1>1, <1>16 DEF TaskReturns, FlagsOK
<1>17. CASE OperatorStops
  BY <1>1, <1>17 DEF OperatorStops, Sigterm, Fault, FlagsOK
<1>18. CASE StartTimesOut
  BY <1>1, <1>18 DEF StartTimesOut, Sigterm, FlagsOK
<1>19. CASE StopTimesOut
  BY <1>1, <1>19 DEF StopTimesOut, Ended, FlagsOK
<1>20. CASE Wakes
  BY <1>1, <1>20 DEF Wakes, JoinOutcome, Joinable, FlagsOK
<1>21. CASE Exit
  BY <1>1, <1>21 DEF Exit, Ended, FlagsOK
<1>22. CASE Tick
  BY <1>1, <1>22 DEF Tick, Due, DrainOver, FlagsOK
<1>23. QED
  BY <1>2, <1>3, <1>4, <1>5, <1>6, <1>7, <1>8, <1>9, <1>10, <1>11, <1>12,
     <1>13, <1>14, <1>15, <1>16, <1>17, <1>18, <1>19, <1>20, <1>21, <1>22
     DEF Next, Startup

(* The process is gone exactly when its unit is at rest, and leaves        *)
(* nothing behind.                                                         *)
LEMMA OffStep == ASSUME IInv, Next PROVE OffOK'
<1> USE ResetType DEF process, role, health
<1>1. /\ NamesOK /\ ClocksOK /\ RecordsOK /\ FlagsOK /\ OffOK
      /\ PhaseInv /\ CauseInv /\ SnapInv
  BY TypeParts DEF IInv
<1>2. CASE Boot
  BY <1>1, <1>2 DEF Boot, Snapshots, Spawned, ProbePgpool, ProbePostgres,
     OffOK, NamesOK, RecordsOK, PhaseInv, Supervisor
<1>3. CASE BootFails
  BY <1>1, <1>3 DEF BootFails, Fault, OffOK, NamesOK, RecordsOK, PhaseInv,
     Supervisor
<1>4. CASE EnsureMembership
  BY <1>1, <1>4 DEF EnsureMembership, OffOK, NamesOK, RecordsOK, PhaseInv,
     Supervisor
<1>5. CASE VerifyPrimary
  BY <1>1, <1>5 DEF VerifyPrimary, Verdicts, OffOK, NamesOK, RecordsOK,
     PhaseInv, Supervisor
<1>6. CASE ColdStartReconcile
  BY <1>1, <1>6 DEF ColdStartReconcile, Ready, Eligible, OffOK, NamesOK,
     RecordsOK, PhaseInv, Supervisor
<1>7. CASE StartupBeat
  BY <1>1, <1>7 DEF StartupBeat, Ready, Attempt, StartPgpool, Fault, OffOK,
     NamesOK, RecordsOK, PhaseInv, Supervisor
<1>8. CASE RefusesToServe
  BY <1>1, <1>8 DEF RefusesToServe, Ended, Fault, OffOK, NamesOK, RecordsOK,
     PhaseInv, Supervisor
<1>9. CASE SupervisorTick
  BY <1>1, <1>9 DEF SupervisorTick, Attempt, StartPgpool, OffOK, NamesOK,
     RecordsOK, PhaseInv, Supervisor
<1>10. CASE SupervisorReturns
  BY <1>1, <1>10 DEF SupervisorReturns, OffOK, NamesOK, RecordsOK, PhaseInv,
     Supervisor
<1>11. CASE JobEnds
  BY <1>1, <1>11 DEF JobEnds, Ready, Fault, OffOK, NamesOK, RecordsOK,
     PhaseInv, Supervisor
<1>12. CASE PgpoolDies
  BY <1>1, <1>12 DEF PgpoolDies, Fault, OffOK, NamesOK, RecordsOK, PhaseInv,
     Supervisor
<1>13. CASE ProbeOnce
  BY <1>1, <1>13 DEF ProbeOnce, Snapshots, ProbePgpool, ProbePostgres,
     OffOK, NamesOK, RecordsOK, PhaseInv, Supervisor
<1>14. ASSUME NEW t \in Task, TaskFails(t) PROVE OffOK'
  BY <1>1, <1>14 DEF TaskFails, Fault, OffOK, NamesOK, RecordsOK, PhaseInv,
     Supervisor
<1>15. ASSUME NEW t \in Task, TaskHangs(t) PROVE OffOK'
  BY <1>1, <1>15 DEF TaskHangs, Fault, OffOK, NamesOK, RecordsOK, PhaseInv,
     Supervisor
<1>16. ASSUME NEW t \in Task, TaskReturns(t) PROVE OffOK'
  BY <1>1, <1>16 DEF TaskReturns, OffOK, NamesOK, RecordsOK, PhaseInv,
     Supervisor
<1>17. CASE OperatorStops
  BY <1>1, <1>17 DEF OperatorStops, Sigterm, Fault, OffOK, NamesOK,
     RecordsOK, PhaseInv, Supervisor
<1>18. CASE StartTimesOut
  BY <1>1, <1>18 DEF StartTimesOut, Sigterm, OffOK, NamesOK, RecordsOK,
     PhaseInv, Supervisor
<1>19. CASE StopTimesOut
  BY <1>1, <1>19 DEF StopTimesOut, Ended, OffOK, NamesOK, RecordsOK,
     PhaseInv, Supervisor
<1>20. CASE Wakes
  BY <1>1, <1>20 DEF Wakes, JoinOutcome, Joinable, OffOK, NamesOK,
     RecordsOK, PhaseInv, Supervisor
<1>21. CASE Exit
  BY <1>1, <1>21 DEF Exit, Ended, OffOK, NamesOK, RecordsOK, PhaseInv,
     Supervisor
<1>22. CASE Tick
  BY <1>1, <1>22 DEF Tick, Due, DrainOver, OffOK, NamesOK, RecordsOK,
     PhaseInv, Supervisor
<1>23. QED
  BY <1>2, <1>3, <1>4, <1>5, <1>6, <1>7, <1>8, <1>9, <1>10, <1>11, <1>12,
     <1>13, <1>14, <1>15, <1>16, <1>17, <1>18, <1>19, <1>20, <1>21, <1>22
     DEF Next, Startup

(* The phases of the unit follow those of serve.                           *)
LEMMA PhaseStep == ASSUME IInv, Next PROVE PhaseInv'
<1> USE Constants DEF process, role, health
<1>1. /\ NamesOK /\ ClocksOK /\ RecordsOK /\ FlagsOK /\ OffOK
      /\ PhaseInv /\ CauseInv /\ SnapInv
  BY TypeParts DEF IInv
<1>2. CASE Boot
  BY <1>1, <1>2 DEF Boot, Snapshots, Spawned, ProbePgpool, ProbePostgres,
     PhaseInv, NamesOK, ClocksOK, OffOK
<1>3. CASE BootFails
  BY <1>1, <1>3 DEF BootFails, Fault, PhaseInv, NamesOK, ClocksOK, OffOK
<1>4. CASE EnsureMembership
  BY <1>1, <1>4 DEF EnsureMembership, PhaseInv, NamesOK, ClocksOK, OffOK
<1>5. CASE VerifyPrimary
  BY <1>1, <1>5 DEF VerifyPrimary, Verdicts, PhaseInv, NamesOK, ClocksOK,
     OffOK
<1>6. CASE ColdStartReconcile
  BY <1>1, <1>6 DEF ColdStartReconcile, Ready, Eligible, PhaseInv, NamesOK,
     ClocksOK, OffOK
<1>7. CASE StartupBeat
  BY <1>1, <1>7 DEF StartupBeat, Ready, Attempt, StartPgpool, Fault,
     PhaseInv, NamesOK, ClocksOK, OffOK
<1>8. CASE RefusesToServe
  BY <1>1, <1>8 DEF RefusesToServe, Ended, Fault, PhaseInv, NamesOK,
     ClocksOK, OffOK
<1>9. CASE SupervisorTick
  BY <1>1, <1>9 DEF SupervisorTick, Attempt, StartPgpool, PhaseInv, NamesOK,
     ClocksOK, OffOK
<1>10. CASE SupervisorReturns
  BY <1>1, <1>10 DEF SupervisorReturns, PhaseInv, NamesOK, ClocksOK, OffOK
<1>11. CASE JobEnds
  BY <1>1, <1>11 DEF JobEnds, Ready, Fault, PhaseInv, NamesOK, ClocksOK,
     OffOK
<1>12. CASE PgpoolDies
  BY <1>1, <1>12 DEF PgpoolDies, Fault, PhaseInv, NamesOK, ClocksOK, OffOK
<1>13. CASE ProbeOnce
  BY <1>1, <1>13 DEF ProbeOnce, Snapshots, ProbePgpool, ProbePostgres,
     PhaseInv, NamesOK, ClocksOK, OffOK
<1>14. ASSUME NEW t \in Task, TaskFails(t) PROVE PhaseInv'
  BY <1>1, <1>14 DEF TaskFails, Fault, PhaseInv, NamesOK, ClocksOK, OffOK
<1>15. ASSUME NEW t \in Task, TaskHangs(t) PROVE PhaseInv'
  BY <1>1, <1>15 DEF TaskHangs, Fault, PhaseInv, NamesOK, ClocksOK, OffOK
<1>16. ASSUME NEW t \in Task, TaskReturns(t) PROVE PhaseInv'
  BY <1>1, <1>16 DEF TaskReturns, PhaseInv, NamesOK, ClocksOK, OffOK
<1>17. CASE OperatorStops
  <2>1. /\ unit' = "deactivating" /\ timer' = 0 /\ token' = TRUE
        /\ unit \in {"activating", "active"} /\ stage' = stage
    BY <1>17 DEF OperatorStops, Sigterm
  <2>2. early' <=> unit = "activating"
    BY <1>17 DEF OperatorStops, Sigterm
  <2>3. unit = "active" => stage \in {"serving", "draining"}
    BY <1>1 DEF PhaseInv
  <2>4. stage' = "draining" /\ ~early' => timer' <= drain'
    BY <1>1, <1>17 DEF OperatorStops, Sigterm, ClocksOK
  <2>5. QED
    BY <2>1, <2>2, <2>3, <2>4 DEF PhaseInv
<1>18. CASE StartTimesOut
  BY <1>1, <1>18 DEF StartTimesOut, Sigterm, PhaseInv, NamesOK, ClocksOK,
     OffOK
<1>19. CASE StopTimesOut
  BY <1>1, <1>19 DEF StopTimesOut, Ended, PhaseInv, NamesOK, ClocksOK, OffOK
<1>20. CASE Wakes
  BY <1>1, <1>20 DEF Wakes, JoinOutcome, Joinable, PhaseInv, NamesOK,
     ClocksOK, OffOK
<1>21. CASE Exit
  BY <1>1, <1>21 DEF Exit, Ended, PhaseInv, NamesOK, ClocksOK, OffOK
<1>22. CASE Tick
  BY <1>1, <1>22 DEF Tick, Due, DrainOver, PhaseInv, NamesOK, ClocksOK,
     OffOK
<1>23. QED
  BY <1>2, <1>3, <1>4, <1>5, <1>6, <1>7, <1>8, <1>9, <1>10, <1>11, <1>12,
     <1>13, <1>14, <1>15, <1>16, <1>17, <1>18, <1>19, <1>20, <1>21, <1>22
     DEF Next, Startup

(* Failures have causes; nothing but a kill that came early is a kill.     *)
LEMMA CauseStep == ASSUME IInv, Next PROVE CauseInv'
<1> USE Constants DEF process, role, health
<1>1. /\ NamesOK /\ ClocksOK /\ RecordsOK /\ FlagsOK /\ OffOK
      /\ PhaseInv /\ CauseInv /\ SnapInv
  BY TypeParts DEF IInv
<1>2. CASE Boot
  BY <1>1, <1>2 DEF Boot, Snapshots, Spawned, ProbePgpool, ProbePostgres,
     CauseInv, RecordsOK, OffOK, FlagsOK
<1>3. CASE BootFails
  BY <1>1, <1>3 DEF BootFails, Fault, CauseInv, RecordsOK, OffOK, FlagsOK
<1>4. CASE EnsureMembership
  BY <1>1, <1>4 DEF EnsureMembership, CauseInv, RecordsOK, OffOK, FlagsOK
<1>5. CASE VerifyPrimary
  BY <1>1, <1>5 DEF VerifyPrimary, Verdicts, CauseInv, RecordsOK, OffOK,
     FlagsOK
<1>6. CASE ColdStartReconcile
  BY <1>1, <1>6 DEF ColdStartReconcile, Ready, Eligible, CauseInv,
     RecordsOK, OffOK, FlagsOK
<1>7. CASE StartupBeat
  BY <1>1, <1>7 DEF StartupBeat, Ready, Attempt, StartPgpool, Fault,
     CauseInv, RecordsOK, OffOK, FlagsOK
<1>8. CASE RefusesToServe
  BY <1>1, <1>8 DEF RefusesToServe, Ended, Fault, CauseInv, RecordsOK,
     OffOK, FlagsOK
<1>9. CASE SupervisorTick
  BY <1>1, <1>9 DEF SupervisorTick, Attempt, StartPgpool, CauseInv,
     RecordsOK, OffOK, FlagsOK
<1>10. CASE SupervisorReturns
  BY <1>1, <1>10 DEF SupervisorReturns, CauseInv, RecordsOK, OffOK, FlagsOK
<1>11. CASE JobEnds
  BY <1>1, <1>11 DEF JobEnds, Ready, Fault, CauseInv, RecordsOK, OffOK,
     FlagsOK
<1>12. CASE PgpoolDies
  BY <1>1, <1>12 DEF PgpoolDies, Fault, CauseInv, RecordsOK, OffOK, FlagsOK
<1>13. CASE ProbeOnce
  BY <1>1, <1>13 DEF ProbeOnce, Snapshots, ProbePgpool, ProbePostgres,
     CauseInv, RecordsOK, OffOK, FlagsOK
<1>14. ASSUME NEW t \in Task, TaskFails(t) PROVE CauseInv'
  BY <1>1, <1>14 DEF TaskFails, Fault, CauseInv, RecordsOK, OffOK, FlagsOK
<1>15. ASSUME NEW t \in Task, TaskHangs(t) PROVE CauseInv'
  BY <1>1, <1>15 DEF TaskHangs, Fault, CauseInv, RecordsOK, OffOK, FlagsOK
<1>16. ASSUME NEW t \in Task, TaskReturns(t) PROVE CauseInv'
  BY <1>1, <1>16 DEF TaskReturns, CauseInv, RecordsOK, OffOK, FlagsOK
<1>17. CASE OperatorStops
  BY <1>1, <1>17 DEF OperatorStops, Sigterm, Fault, CauseInv, RecordsOK,
     OffOK, FlagsOK
<1>18. CASE StartTimesOut
  BY <1>1, <1>18 DEF StartTimesOut, Sigterm, CauseInv, RecordsOK, OffOK,
     FlagsOK
<1>19. CASE StopTimesOut
  <2>1. early
    <3>1. unit = "deactivating" /\ timer >= StopLimit
      BY <1>19 DEF StopTimesOut
    <3>2. SUFFICES ASSUME ~early PROVE FALSE
      OBVIOUS
    <3>3. \/ stage = "serving" /\ timer = 0
          \/ stage = "draining" /\ timer <= drain
      BY <1>1, <3>1, <3>2 DEF PhaseInv
    <3>4. QED
      BY <1>1, <3>1, <3>3 DEF ClocksOK
  <2>2. /\ outcome' = "killed" /\ stage' = "off" /\ UNCHANGED <<early, cause>>
        /\ task' = [t \in Task |-> "off"]
    BY <1>19 DEF StopTimesOut, Ended
  <2>3. QED
    BY <2>1, <2>2 DEF CauseInv
<1>20. CASE Wakes
  BY <1>1, <1>20 DEF Wakes, JoinOutcome, Joinable, CauseInv, RecordsOK,
     OffOK, FlagsOK
<1>21. CASE Exit
  BY <1>1, <1>21 DEF Exit, Ended, CauseInv, RecordsOK, OffOK, FlagsOK
<1>22. CASE Tick
  BY <1>1, <1>22 DEF Tick, Due, DrainOver, CauseInv, RecordsOK, OffOK,
     FlagsOK
<1>23. QED
  BY <1>2, <1>3, <1>4, <1>5, <1>6, <1>7, <1>8, <1>9, <1>10, <1>11, <1>12,
     <1>13, <1>14, <1>15, <1>16, <1>17, <1>18, <1>19, <1>20, <1>21, <1>22
     DEF Next, Startup

(* A snapshot ages no slower than the time since pgpool was last up.       *)
LEMMA SnapStep == ASSUME IInv, Next PROVE SnapInv'
<1> USE Constants, ResetType DEF process, role, health
<1>1. /\ NamesOK /\ ClocksOK /\ RecordsOK /\ FlagsOK /\ OffOK
      /\ PhaseInv /\ CauseInv /\ SnapInv
  BY TypeParts DEF IInv
<1>2. CASE Boot
  <2>1. snap' \in Snapshots /\ UNCHANGED <<verified, verdict, pool, sinceUp>>
    BY <1>2 DEF Boot
  <2>2. snap' \in Snapshot /\ snap'.age = 0 /\ (snap'.up => pool = "up")
    BY <1>1, <2>1, SnapshotFacts
  <2>3. snap'.up => sinceUp' <= snap'.age
    BY <1>1, <2>1, <2>2 DEF SnapInv
  <2>4. QED
    BY <1>1, <2>1, <2>3 DEF SnapInv
<1>3. CASE BootFails
  BY <1>1, <1>3 DEF BootFails, Fault, SnapInv, Snapshot, RecordsOK,
     ClocksOK, OffOK
<1>4. CASE EnsureMembership
  BY <1>1, <1>4 DEF EnsureMembership, SnapInv, Snapshot, RecordsOK,
     ClocksOK, OffOK
<1>5. CASE VerifyPrimary
  BY <1>1, <1>5 DEF VerifyPrimary, Verdicts, SnapInv, Snapshot, RecordsOK,
     ClocksOK, OffOK
<1>6. CASE ColdStartReconcile
  BY <1>1, <1>6 DEF ColdStartReconcile, Ready, Eligible, SnapInv, Snapshot,
     RecordsOK, ClocksOK, OffOK
<1>7. CASE StartupBeat
  BY <1>1, <1>7 DEF StartupBeat, Ready, Attempt, StartPgpool, Fault,
     SnapInv, Snapshot, RecordsOK, ClocksOK, OffOK
<1>8. CASE RefusesToServe
  BY <1>1, <1>8 DEF RefusesToServe, Ended, Fault, SnapInv, Snapshot,
     RecordsOK, ClocksOK, OffOK
<1>9. CASE SupervisorTick
  BY <1>1, <1>9 DEF SupervisorTick, Attempt, StartPgpool, SnapInv, Snapshot,
     RecordsOK, ClocksOK, OffOK
<1>10. CASE SupervisorReturns
  BY <1>1, <1>10 DEF SupervisorReturns, SnapInv, Snapshot, RecordsOK,
     ClocksOK, OffOK
<1>11. CASE JobEnds
  BY <1>1, <1>11 DEF JobEnds, Ready, Fault, SnapInv, Snapshot, RecordsOK,
     ClocksOK, OffOK
<1>12. CASE PgpoolDies
  BY <1>1, <1>12 DEF PgpoolDies, Fault, SnapInv, Snapshot, RecordsOK,
     ClocksOK, OffOK
<1>13. CASE ProbeOnce
  <2>1. snap' \in Snapshots /\ UNCHANGED <<verified, verdict, pool, sinceUp>>
    BY <1>13 DEF ProbeOnce
  <2>2. snap' \in Snapshot /\ snap'.age = 0 /\ (snap'.up => pool = "up")
    BY <1>1, <2>1, SnapshotFacts
  <2>3. snap'.up => sinceUp' <= snap'.age
    BY <1>1, <2>1, <2>2 DEF SnapInv
  <2>4. QED
    BY <1>1, <2>1, <2>3 DEF SnapInv
<1>14. ASSUME NEW t \in Task, TaskFails(t) PROVE SnapInv'
  BY <1>1, <1>14 DEF TaskFails, Fault, SnapInv, Snapshot, RecordsOK,
     ClocksOK, OffOK
<1>15. ASSUME NEW t \in Task, TaskHangs(t) PROVE SnapInv'
  BY <1>1, <1>15 DEF TaskHangs, Fault, SnapInv, Snapshot, RecordsOK,
     ClocksOK, OffOK
<1>16. ASSUME NEW t \in Task, TaskReturns(t) PROVE SnapInv'
  BY <1>1, <1>16 DEF TaskReturns, SnapInv, Snapshot, RecordsOK, ClocksOK,
     OffOK
<1>17. CASE OperatorStops
  BY <1>1, <1>17 DEF OperatorStops, Sigterm, Fault, SnapInv, Snapshot,
     RecordsOK, ClocksOK, OffOK
<1>18. CASE StartTimesOut
  BY <1>1, <1>18 DEF StartTimesOut, Sigterm, SnapInv, Snapshot, RecordsOK,
     ClocksOK, OffOK
<1>19. CASE StopTimesOut
  BY <1>1, <1>19 DEF StopTimesOut, Ended, SnapInv, Snapshot, RecordsOK,
     ClocksOK, OffOK
<1>20. CASE Wakes
  BY <1>1, <1>20 DEF Wakes, JoinOutcome, Joinable, SnapInv, Snapshot,
     RecordsOK, ClocksOK, OffOK
<1>21. CASE Exit
  BY <1>1, <1>21 DEF Exit, Ended, SnapInv, Snapshot, RecordsOK, ClocksOK,
     OffOK
<1>22. CASE Tick
  <2>1. /\ snap' = [snap EXCEPT !.age = Inc(@, StaleAfter)]
        /\ sinceUp' = IF pool = "up" THEN 0 ELSE Inc(sinceUp, StaleAfter)
        /\ UNCHANGED <<verified, verdict, pool>>
    BY <1>22 DEF Tick
  <2>2. /\ snap'.up = snap.up /\ snap'.age = Inc(snap.age, StaleAfter)
        /\ snap.age \in 0 .. StaleAfter /\ sinceUp \in 0 .. StaleAfter
    BY <1>1, <2>1 DEF RecordsOK, ClocksOK, Snapshot
  <2>3. snap'.up => sinceUp' <= snap'.age
    BY <1>1, <2>1, <2>2 DEF SnapInv, Inc
  <2>4. QED
    BY <1>1, <2>1, <2>3 DEF SnapInv
<1>23. QED
  BY <1>2, <1>3, <1>4, <1>5, <1>6, <1>7, <1>8, <1>9, <1>10, <1>11, <1>12,
     <1>13, <1>14, <1>15, <1>16, <1>17, <1>18, <1>19, <1>20, <1>21, <1>22
     DEF Next, Startup

LEMMA NextIInv == IInv /\ [Next]_vars => IInv'
<1> SUFFICES ASSUME IInv, [Next]_vars PROVE IInv'
  OBVIOUS
<1>1. CASE Next
  <2>1. TypeOK'
    BY <1>1, NamesStep, ClocksStep, RecordsStep, FlagsStep, OffStep, TypeParts
    DEF TypeOK, NamesOK, ClocksOK, RecordsOK, FlagsOK, OffOK
  <2>2. QED
    BY <1>1, <2>1, PhaseStep, CauseStep, SnapStep DEF IInv
<1>2. CASE UNCHANGED vars
  BY <1>2 DEF vars, IInv, TypeOK, PhaseInv, CauseInv, SnapInv
<1>3. QED
  BY <1>1, <1>2

LEMMA Invariant == Spec => []IInv
  BY InitIInv, NextIInv, PTL DEF Spec

(* serve's select and drain: an agent that SIGTERM finds serving ends by   *)
(* itself before TimeoutStopSec, whatever hangs in it, and an agent in     *)
(* good order never ends as a failure, whichever of the token and the      *)
(* returning subsystems serve notices first.                               *)
THEOREM SigtermEndsWell == Spec => []EndsWell
<1>1. IInv => EndsWell
  BY DEF IInv, CauseInv, EndsWell, FailureHasCause, KilledOnlyBeforeReady
<1>2. QED
  BY <1>1, Invariant, PTL

(* handle_healthz: 200 only after this process has checked PostgreSQL's    *)
(* role, and only if pgpool was up less than STALE_AFTER ago, however      *)
(* slowly snapshots are taken.                                             *)
THEOREM HealthIsNeverStale == Spec => []HealthyIsRecent
<1>1. IInv => HealthyIsRecent
  <2> SUFFICES ASSUME IInv, HandleHealthz
               PROVE  verdict # "none" /\ sinceUp < StaleAfter
    BY DEF HealthyIsRecent
  <2>1. verified /\ snap.up /\ snap.age < StaleAfter
    BY DEF HandleHealthz, ComputeHealth
  <2>2. sinceUp <= snap.age /\ verdict # "none"
    BY <2>1 DEF IInv, SnapInv
  <2>3. sinceUp \in Nat /\ snap.age \in Nat /\ StaleAfter \in Nat
    BY Constants DEF IInv, TypeOK, Snapshot
  <2>4. QED
    BY <2>1, <2>2, <2>3
<1>2. QED
  BY <1>1, Invariant, PTL
=============================================================================
