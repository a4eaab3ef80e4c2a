------------------------------- MODULE Daemon -------------------------------
(***************************************************************************)
(* The agent's process on one host: pg_agentd's start-up and shutdown      *)
(* (agentd/main.rs, Agent::serve), the health snapshots and /healthz       *)
(* (healthz.rs), the pgpool supervisor (pgpool_supervisor.rs), the systemd *)
(* jobs they wait for (systemd.rs) and the unit they run under             *)
(* (packaging/pg_agentd.service: Type=notify, Before=pgpool2.service,      *)
(* Restart=on-failure, TimeoutStartSec, TimeoutStopSec).                   *)
(*                                                                         *)
(* One unit of time is the supervisor's TICK.  Time passes only when no    *)
(* step of the agent is due; the supervisor, the snapshotter and the jobs  *)
(* of systemd take their steps at any moment.  The verdict of the primary  *)
(* check is any that the state of PostgreSQL allows (HaCluster derives it  *)
(* from the peers' answers), and an agent started without the supervisor   *)
(* is one whose verdict forbids it.                                        *)
(***************************************************************************)
EXTENDS Integers, FiniteSetsExt

CONSTANTS Task,         \* the subsystems of serve, but for the supervisor
          Grace,        \* SHUTDOWN_GRACE
          StopLimit,    \* TimeoutStopSec
          StartLimit,   \* TimeoutStartSec
          StaleAfter,   \* STALE_AFTER
          Gap,          \* MIN_ATTEMPT_GAP
          MaxFailures,  \* MAX_CONSECUTIVE_FAILURES
          StageDelay,   \* bound: time the steps before READY take
          MaxFaults     \* bound: failures, hung tasks, stops and pgpool deaths

ASSUME DaemonAssumption ==
  /\ {Grace, StopLimit, StartLimit, StaleAfter, Gap, MaxFailures}
       \subseteq Nat \ {0}
  /\ StageDelay \in Nat /\ MaxFaults \in Nat
  /\ Grace < StopLimit

VARIABLES unit,     \* systemd's view of pg_agentd
          timer,    \* how long the unit has been in that state
          term,     \* who sent SIGTERM: "none", "operator" or "systemd"
          stage,    \* where serve is
          drain,    \* how long it has drained
          token,    \* the cancellation token
          verdict,  \* of the primary check
          verified, \* startup_verified
          task,     \* state of each subsystem
          outcome,  \* how the process ended
          pg,       \* PostgreSQL runs
          pool,     \* pgpool's unit: "down", "queued" (a start job) or "up"
          sup,      \* the supervisor
          snap,     \* the last health snapshot
          sinceUp,  \* history: how long ago pgpool was last up
          early,    \* history: SIGTERM came before READY
          cause,    \* history: something in this process failed
          faults

vars == <<unit, timer, term, stage, drain, token, verdict, verified, task,
          outcome, pg, pool, sup, snap, sinceUp, early, cause, faults>>

process == <<unit, timer, term, stage, drain, token, task, outcome, early, cause>>
role == <<verdict, verified, pg>>
health == <<snap, sinceUp>>

Inc(n, bound) == IF n < bound THEN n + 1 ELSE n

(* PgpoolSupervisor::new: no attempt yet, so none is under cooldown.       *)
NewSupervisor == [on |-> FALSE, failures |-> 0, since |-> Gap, waiting |-> FALSE]
NoSnapshot == [age |-> StaleAfter, up |-> FALSE, pg |-> FALSE]

(* Mutant: a unit that systemd knows counts as running.                    *)
PgpoolLoaded == TRUE

(* unit_running: a unit that is being started counts as running.           *)
PgpoolRunning == pool # "down"

(* Both probes are bounded.  A pgpool that is up may know no backend that  *)
(* is up, or answer too late.                                              *)
ProbePostgres == {FALSE, pg}
ProbePgpool == {FALSE, pool = "up"}

(* build_snapshot.                                                         *)
Snapshots == [age : {0}, up : ProbePgpool, pg : ProbePostgres]
-----------------------------------------------------------------------------
Init ==
  /\ unit = "inactive" /\ timer = 0 /\ term = "none"
  /\ stage = "off" /\ drain = 0 /\ token = FALSE
  /\ verdict = "none" /\ verified = FALSE
  /\ task = [t \in Task |-> "off"]
  /\ outcome = "none"
  /\ pg \in BOOLEAN /\ pool \in {"down", "up"}
  /\ sup = NewSupervisor /\ snap = NoSnapshot
  /\ sinceUp = IF pool = "up" THEN 0 ELSE StaleAfter
  /\ early = FALSE /\ cause = FALSE
  /\ faults = 0

(* serve's JoinSet.                                                        *)
Spawned == [t \in Task |-> "running"]

Fault == faults < MaxFaults /\ faults' = faults + 1

(* The process is gone.  Restart=on-failure restarts it unless it ended    *)
(* well or was stopped by its operator.                                    *)
Ended(result) ==
  /\ outcome' = result
  /\ stage' = "off" /\ drain' = 0
  /\ unit' = IF term = "operator" \/ (result = "ok" /\ term # "systemd")
             THEN "inactive" ELSE "restart"
  /\ timer' = 0
  /\ task' = [t \in Task |-> "off"]
  /\ token' = FALSE /\ verified' = FALSE /\ verdict' = "none"
  /\ sup' = NewSupervisor /\ snap' = NoSnapshot

(* run_serve and the first part of serve: the listeners are bound, one     *)
(* snapshot is taken and the subsystems are spawned.                       *)
Boot ==
  /\ unit \in {"inactive", "restart"}
  /\ unit' = "activating" /\ timer' = 0 /\ term' = "none"
  /\ stage' = "membership" /\ outcome' = "none"
  /\ task' = Spawned
  /\ snap' \in Snapshots
  /\ early' = FALSE /\ cause' = FALSE
  /\ UNCHANGED <<drain, token, role, pool, sup, sinceUp, faults>>

(* validate-env, load_config or a bind fails.                              *)
BootFails ==
  /\ unit \in {"inactive", "restart"} /\ Fault
  /\ outcome' = "err" /\ unit' = "restart" /\ timer' = 0 /\ term' = "none"
  /\ early' = FALSE /\ cause' = TRUE
  /\ UNCHANGED <<stage, drain, token, role, task, pool, sup, health>>

(* ensure_membership, whatever comes of it.                                *)
EnsureMembership ==
  /\ stage = "membership"
  /\ stage' = "verify"
  /\ UNCHANGED <<unit, timer, term, drain, token, role, task, outcome, pool,
                 sup, health, early, cause, faults>>

(* verify_primary_with_retries: nothing to verify without PostgreSQL.      *)
Verdicts == IF pg THEN {"Confirmed", "NotApplicable", "Refused"}
            ELSE {"NotApplicable"}

(* Phantom, SplitBrain and Unverifiable stop PostgreSQL.                   *)
VerifyPrimary ==
  /\ stage = "verify"
  /\ verdict' \in Verdicts
  /\ pg' = (pg /\ verdict' # "Refused")
  /\ verified' = TRUE /\ stage' = "coldstart"
  /\ UNCHANGED <<unit, timer, term, drain, token, task, outcome, pool, sup,
                 health, early, cause, faults>>

(* stop_postgres_with_retry fails: the agent refuses to become ready.      *)
RefusesToServe ==
  /\ stage = "verify" /\ "Refused" \in Verdicts /\ Fault
  /\ cause' = TRUE
  /\ Ended("err")
  /\ UNCHANGED <<term, pg, pool, sinceUp, early>>

Eligible == verdict # "Refused"

Ready ==
  /\ stage' = "serving"
  /\ unit' = IF unit = "activating" THEN "active" ELSE unit
  /\ timer' = IF unit = "activating" THEN 0 ELSE timer

(* cold_start_reconcile may start PostgreSQL; then the HA loop is spawned, *)
(* and the supervisor takes its first beat if the verdict allows it.       *)
ColdStartReconcile ==
  /\ stage = "coldstart"
  /\ pg' \in {pg, TRUE}
  /\ IF Eligible THEN stage' = "beat" /\ UNCHANGED <<unit, timer>> ELSE Ready
  /\ UNCHANGED <<term, drain, token, verdict, verified, task, outcome, pool,
                 sup, health, early, cause, faults>>
-----------------------------------------------------------------------------
(* The supervisor.                                                         *)

(* StartUnit puts a start job in systemd's queue.                          *)
StartPgpool == pool' = "queued"

(* attempt_start awaits the job.                                           *)
Attempt ==
  /\ StartPgpool
  /\ sup' = [sup EXCEPT !.since = 0, !.waiting = TRUE]

(* ensure_running_once, awaited before READY.  A status that cannot be     *)
(* read is logged.                                                         *)
StartupBeat ==
  /\ stage = "beat" /\ ~sup.waiting
  /\ \/ PgpoolRunning /\ Ready /\ sup' = [sup EXCEPT !.on = TRUE]
          /\ UNCHANGED <<pool, faults>>
     \/ Fault /\ Ready /\ sup' = [sup EXCEPT !.on = TRUE] /\ UNCHANGED pool
     \/ ~PgpoolRunning /\ Attempt
          /\ UNCHANGED <<stage, unit, timer, faults>>
  /\ UNCHANGED <<term, drain, token, role, task, outcome, health, early, cause>>

(* The time since last_attempt.                                            *)
UnderCooldown == sup.since < Gap

(* tick_once.  The sleep may win over a token cancelled meanwhile.         *)
SupervisorTick ==
  /\ sup.on /\ ~sup.waiting
  /\ \/ PgpoolRunning /\ sup' = [sup EXCEPT !.failures = 0] /\ UNCHANGED pool
     \/ /\ ~PgpoolRunning /\ sup.failures < MaxFailures /\ ~UnderCooldown
        /\ Attempt
  /\ UNCHANGED <<process, role, health, faults>>

(* The start job leaves the queue: pgpool2 is ordered after pg_agentd, so  *)
(* never while pg_agentd is activating.  JobRemoved wakes the waiter.      *)
JobEnds ==
  /\ pool = "queued" /\ unit # "activating"
  /\ \E ok \in BOOLEAN :
       /\ IF ok THEN UNCHANGED faults ELSE Fault
       /\ pool' = IF ok THEN "up" ELSE "down"
       /\ sinceUp' = IF ok THEN 0 ELSE sinceUp
       /\ sup' = IF ~sup.waiting THEN sup
                 ELSE [sup EXCEPT !.waiting = FALSE, !.on = TRUE,
                         !.failures = IF ok THEN @ ELSE Inc(@, MaxFailures)]
  /\ IF stage = "beat" /\ sup.waiting THEN Ready ELSE UNCHANGED <<stage, unit, timer>>
  /\ UNCHANGED <<term, drain, token, role, task, outcome, snap, early, cause>>

PgpoolDies ==
  /\ pool = "up" /\ Fault
  /\ pool' = "down"
  /\ UNCHANGED <<process, role, sup, health>>
-----------------------------------------------------------------------------
(* Health.                                                                 *)

(* probe_once, by the snapshotter's task.                                  *)
ProbeOnce ==
  /\ stage # "off"
  /\ snap' \in Snapshots
  /\ UNCHANGED <<process, role, pool, sup, sinceUp, faults>>

(* Mutant: a snapshot of any age is good enough.                           *)
EverFresh == snap.up

(* compute_health: a snapshot that is fresh and shows a backend up.        *)
ComputeHealth == snap.age < StaleAfter /\ snap.up

(* handle_healthz answers 200.                                             *)
HandleHealthz == stage # "off" /\ verified /\ ComputeHealth
-----------------------------------------------------------------------------
(* Tasks, signals and the end.                                             *)

(* A subsystem returns early, fails or panics.                             *)
TaskFails(t) ==
  /\ task[t] = "running" /\ Fault
  /\ task' = [task EXCEPT ![t] = "failed"]
  /\ cause' = TRUE
  /\ UNCHANGED <<unit, timer, term, stage, drain, token, role, outcome, pool,
                 sup, health, early>>

(* A request in service keeps a server from returning.                     *)
TaskHangs(t) ==
  /\ task[t] = "running" /\ Fault
  /\ task' = [task EXCEPT ![t] = "hung"]
  /\ UNCHANGED <<unit, timer, term, stage, drain, token, role, outcome, pool,
                 sup, health, early, cause>>

(* Every subsystem watches the token.                                      *)
TaskReturns(t) ==
  /\ token /\ task[t] = "running"
  /\ task' = [task EXCEPT ![t] = "returned"]
  /\ UNCHANGED <<unit, timer, term, stage, drain, token, role, outcome, pool,
                 sup, health, early, cause, faults>>

(* So does the supervisor between two ticks.                               *)
SupervisorReturns ==
  /\ token /\ sup.on /\ ~sup.waiting
  /\ sup' = [sup EXCEPT !.on = FALSE]
  /\ UNCHANGED <<process, role, pool, health, faults>>

(* install_shutdown_handler: SIGTERM cancels the token and no more.        *)
Sigterm(who) ==
  /\ unit' = "deactivating" /\ timer' = 0
  /\ term' = who /\ token' = TRUE
  /\ early' = (unit = "activating")
  /\ UNCHANGED <<stage, drain, role, task, outcome, pool, sup, health, cause>>

OperatorStops ==
  /\ unit \in {"activating", "active"} /\ Fault
  /\ Sigterm("operator")

StartTimesOut ==
  /\ unit = "activating" /\ timer >= StartLimit
  /\ Sigterm("systemd") /\ UNCHANGED faults

(* SIGKILL.                                                                *)
StopTimesOut ==
  /\ unit = "deactivating" /\ timer >= StopLimit
  /\ Ended("killed")
  /\ UNCHANGED <<term, pg, pool, sinceUp, early, cause, faults>>

Joinable == {t \in Task : task[t] \in {"returned", "failed"}}

(* Mutant: a subsystem that returns is always unexpected.                  *)
AlwaysUnexpected(t) == "err"

(* serve's join_next arm.                                                  *)
JoinOutcome(t) == IF task[t] = "returned" /\ token THEN "ok" ELSE "err"

(* serve's select: the token is cancelled or a subsystem has ended, in     *)
(* either order when both are ready.                                       *)
Wakes ==
  /\ stage = "serving"
  /\ \/ token /\ outcome' = "ok" /\ UNCHANGED task
     \/ \E t \in Joinable : outcome' = JoinOutcome(t)
                              /\ task' = [task EXCEPT ![t] = "off"]
  /\ stage' = "draining" /\ token' = TRUE
  /\ UNCHANGED <<unit, timer, term, drain, role, pool, sup, health, early,
                 cause, faults>>

(* Every subsystem has returned, or SHUTDOWN_GRACE is over and the others  *)
(* are aborted.                                                            *)
DrainOver ==
  \/ drain >= Grace
  \/ ~sup.on /\ \A t \in Task : task[t] \notin {"running", "hung"}

Exit ==
  /\ stage = "draining" /\ DrainOver
  /\ Ended(outcome)
  /\ UNCHANGED <<term, pg, pool, sinceUp, early, cause, faults>>

Due ==
  \/ stage \in {"membership", "verify", "coldstart"} /\ timer >= StageDelay
       /\ unit = "activating"
  \/ stage = "beat" /\ ~sup.waiting
  \/ stage = "serving" /\ (token \/ Joinable # {})
  \/ stage = "draining" /\ DrainOver
  \/ unit = "activating" /\ timer >= StartLimit
  \/ unit = "deactivating" /\ timer >= StopLimit

Tick ==
  /\ ~Due
  /\ timer' = IF unit \in {"activating", "deactivating"} THEN timer + 1 ELSE 0
  /\ drain' = IF stage = "draining" THEN drain + 1 ELSE 0
  /\ sup' = [sup EXCEPT !.since = Inc(@, Gap)]
  /\ snap' = [snap EXCEPT !.age = Inc(@, StaleAfter)]
  /\ sinceUp' = IF pool = "up" THEN 0 ELSE Inc(sinceUp, StaleAfter)
  /\ UNCHANGED <<unit, term, stage, token, role, task, outcome, pool, early,
                 cause, faults>>

Startup == EnsureMembership \/ VerifyPrimary \/ ColdStartReconcile \/ StartupBeat

Next ==
  \/ Boot \/ BootFails \/ Startup \/ RefusesToServe
  \/ SupervisorTick \/ SupervisorReturns \/ JobEnds \/ PgpoolDies \/ ProbeOnce
  \/ \E t \in Task : TaskFails(t) \/ TaskHangs(t) \/ TaskReturns(t)
  \/ OperatorStops \/ StartTimesOut \/ StopTimesOut
  \/ Wakes \/ Exit \/ Tick

(* The process and systemd run.  A process that its operator stopped, or   *)
(* that ended well, is not owed a start.                                   *)
Fairness ==
  /\ WF_vars(unit = "restart" /\ Boot)
  /\ WF_vars(Startup) /\ WF_vars(Wakes) /\ WF_vars(Exit)
  /\ WF_vars(SupervisorTick) /\ WF_vars(JobEnds)
  /\ WF_vars(StartTimesOut) /\ WF_vars(StopTimesOut)
  /\ WF_vars(Tick)

Spec == Init /\ [][Next]_vars
FairSpec == Spec /\ Fairness
-----------------------------------------------------------------------------
Supervisor == [on : BOOLEAN, failures : 0 .. MaxFailures, since : 0 .. Gap,
               waiting : BOOLEAN]
Snapshot == [age : 0 .. StaleAfter, up : BOOLEAN, pg : BOOLEAN]

(* Types; nothing of a process outlives it.                                *)
TypeOK ==
  /\ unit \in {"inactive", "restart", "activating", "active", "deactivating"}
  /\ timer \in 0 .. Max({StartLimit, StopLimit})
  /\ drain \in 0 .. Grace
  /\ term \in {"none", "operator", "systemd"}
  /\ stage \in {"off", "membership", "verify", "coldstart", "beat", "serving",
                "draining"}
  /\ verdict \in {"none", "Confirmed", "NotApplicable", "Refused"}
  /\ task \in [Task -> {"off", "running", "hung", "returned", "failed"}]
  /\ outcome \in {"none", "ok", "err", "killed"}
  /\ pool \in {"down", "queued", "up"}
  /\ sup \in Supervisor /\ snap \in Snapshot /\ sinceUp \in 0 .. StaleAfter
  /\ {token, verified, pg, early, cause} \subseteq BOOLEAN
  /\ faults \in 0 .. MaxFaults
  /\ (stage = "off") <=> (unit \in {"inactive", "restart"})
  /\ (stage = "off") => ~token /\ ~verified /\ ~sup.on /\ ~sup.waiting

(* The process fails only when something in it failed: a SIGTERM of an     *)
(* agent in good order never ends as a failure, whichever of the token and *)
(* the returning subsystems serve notices first.  (A spurious failure      *)
(* would have systemd restart an agent that was stopped.)                  *)
FailureHasCause == outcome = "err" => cause

(* An agent that was serving when SIGTERM came ends by itself, whatever    *)
(* hangs in it: TimeoutStopSec kills only an agent stopped before READY,   *)
(* whose start-up does not look at the token.                              *)
KilledOnlyBeforeReady == outcome = "killed" => early

(* SIGTERM ends the process, in time and without a false failure (serve's  *)
(* select and drain): both of the above, in typed states.                  *)
EndsWell == TypeOK /\ FailureHasCause /\ KilledOnlyBeforeReady

(* /healthz answers 200 only when this process has checked PostgreSQL's    *)
(* role and pgpool was up less than STALE_AFTER ago, however slow the      *)
(* snapshotter is.                                                         *)
HealthyIsRecent ==
  HandleHealthz => verdict # "none" /\ sinceUp < StaleAfter

(* A pgpool that is down under a serving supervisor is started, or the     *)
(* supervisor has given up after MAX_CONSECUTIVE_FAILURES, or the agent    *)
(* stops serving.                                                          *)
PgpoolIsRestarted ==
  (stage = "serving" /\ sup.on /\ pool = "down")
    ~> (pool = "up" \/ sup.failures = MaxFailures \/ stage # "serving")

(* "a clean boot converges in milliseconds" (agent.rs, the start-up beat): *)
(* systemd never times out an agent that waits for pgpool to start.        *)
CleanBoot == ~(stage = "beat" /\ term = "systemd")
=============================================================================
