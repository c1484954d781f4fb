------------------------------- MODULE JobSystem -------------------------------
(***************************************************************************)
(* The whole job system: the API requests, the workers and the maintenance *)
(* loops over one table and one Redis, with the passing of time and the    *)
(* failures the program has to live with.                                  *)
(***************************************************************************)
EXTENDS Api, Executor, Maintenance

CONSTANTS
  FaultKinds,   \* which failures happen
  MaxFaults     \* bound: how many in all

ASSUME FaultsAssumption ==
  /\ FaultKinds \subseteq {"crash", "stop", "stall", "redis", "restart", "drop"}
  /\ MaxFaults \in Nat

VARIABLE faults  \* failures so far

vars == <<db, queueVars, workerVars, maintenanceVars, apiVars, faults>>

Init ==
  /\ db = [j \in Jobs |-> NoRow]
  /\ QueuesEmpty
  /\ WorkerInit
  /\ MaintenanceInit
  /\ ApiInit
  /\ faults = 0

-------------------------------------------------------------------------------
(* Time passes: a timestamp that lay ahead is reached.                     *)

Elapse(j, row) ==
  /\ db' = [db EXCEPT ![j] = row]
  /\ UNCHANGED <<queueVars, workerVars, maintenanceVars, apiVars>>

(* scheduled_at and next_run_at of a scheduled job are the same instant.   *)
ScheduleDue(j) ==
  /\ db[j].scheduled_at = "future"
  /\ Elapse(j, [db[j] EXCEPT !.scheduled_at = "past",
                             !.next_run_at = IF @ = "future" THEN "past" ELSE @])

BackoffOver(j) ==
  /\ db[j].status = "pending"
  /\ db[j].next_run_at = "future"
  /\ Elapse(j, [db[j] EXCEPT !.next_run_at = "past"])

(* Only the lease of a processing job is ever looked at.                   *)
LeaseOver(j) ==
  /\ db[j].status = "processing"
  /\ db[j].leased_until = "future"
  /\ Elapse(j, [db[j] EXCEPT !.leased_until = "past"])

OwnerAlive(j) == \E w \in Workers : db[j].worker_id = w /\ Alive(w)

(* The lease of a worker that is gone runs out.                            *)
LeaseExpires(j) == ~ OwnerAlive(j) /\ LeaseOver(j)

(* The lease of a worker that is alive runs out: its event loop, its host  *)
(* or its way to Postgres stood still for longer than the lease.  Without  *)
(* such a stall it cannot: the lease is taken at the claim for             *)
(* worker_lease_seconds, and job_timeout_seconds, which is shorter, ends   *)
(* the handler first even if no heartbeat renews the lease.                *)
Stall(j) == OwnerAlive(j) /\ LeaseOver(j)

Tick(j) == (ScheduleDue(j) \/ BackoffOver(j) \/ LeaseExpires(j)) /\ UNCHANGED faults

-------------------------------------------------------------------------------
Fault(kind) ==
  /\ kind \in FaultKinds
  /\ faults < MaxFaults
  /\ faults' = faults + 1

WorkerCrash(w) == Fault("crash") /\ Crash(w) /\ UNCHANGED <<maintenanceVars, apiVars>>

WorkerStop(w) == Fault("stop") /\ Stop(w) /\ UNCHANGED <<maintenanceVars, apiVars>>

WorkerStall(j) == Fault("stall") /\ Stall(j)

RedisRestart ==
  /\ Fault("redis")
  /\ RedisRestarted
  /\ UNCHANGED <<db, workerVars, maintenanceVars, apiVars>>

MaintenanceFails == Fault("restart") /\ MaintenanceRestart /\ UNCHANGED <<workerVars, apiVars>>

RequestFails(r) == Fault("drop") /\ Drop(r) /\ UNCHANGED <<workerVars, maintenanceVars>>

-------------------------------------------------------------------------------
Others == UNCHANGED <<maintenanceVars, apiVars, faults>>

Worker(w) == ExecutorStep(w) /\ Others

Heartbeat(w) == HeartbeatStep(w) /\ Others

Feeder == FeederStep /\ UNCHANGED <<workerVars, apiVars, faults>>
Reaper == ReaperStep /\ UNCHANGED <<workerVars, apiVars, faults>>
Scheduler == SchedulerStep /\ UNCHANGED <<workerVars, apiVars, faults>>

Request(r) == ApiStep(r) /\ UNCHANGED <<workerVars, maintenanceVars, faults>>

Failures ==
  \/ \E w \in Workers : WorkerCrash(w) \/ WorkerStop(w)
  \/ \E j \in Jobs : WorkerStall(j)
  \/ \E r \in Requests : RequestFails(r)
  \/ RedisRestart
  \/ MaintenanceFails

Next ==
  \/ \E r \in Requests : Request(r)
  \/ \E w \in Workers : Worker(w) \/ Heartbeat(w)
  \/ Feeder
  \/ Reaper
  \/ Scheduler
  \/ \E j \in Jobs : Tick(j)
  \/ Failures

Spec == Init /\ [][Next]_vars

(* The loops poll for ever, a live executor goes on, and time passes.      *)
(* Nothing makes a client call, a request end, a heartbeat come in time or *)
(* a failure happen.                                                       *)
Fairness ==
  /\ \A w \in Workers : WF_vars(Worker(w))
  /\ WF_vars(Feeder)
  /\ WF_vars(Reaper)
  /\ WF_vars(Scheduler)
  /\ \A j \in Jobs : WF_vars(Tick(j))

FairSpec == Spec /\ Fairness

-------------------------------------------------------------------------------
TypeOK ==
  /\ db \in [Jobs -> Row]
  /\ pendingQ \subseteq Jobs
  /\ scheduledQ \subseteq Jobs
  /\ proc \in [Workers -> {"up", "stopping", "exited", "dead"}]
  /\ task \in [Workers -> Task]
  /\ reports \in [Workers -> Nat]
  /\ holder \in [Workers -> Jobs \cup {NoJob}]
  /\ beat \in [Workers -> Beat]
  /\ \A w \in Workers : /\ task[w].pc # "idle" => task[w].job \in Jobs
                        /\ beat[w].pc # "idle" => beat[w].job \in Jobs
  /\ feeder \subseteq Jobs
  /\ reaper \subseteq Jobs
  /\ sched \in Sched
  /\ req \in [Requests -> Req]
  /\ calls \in 0..MaxCalls
  /\ faults \in 0..MaxFaults

-------------------------------------------------------------------------------
(* Safety under every race and every failure.                              *)

(* A processing job is accounted for: its row carries a lease the reaper   *)
(* can see and names the worker, and that worker is executing this very    *)
(* attempt of the job or its process is dead.  No finalizing write of a    *)
(* worker that lost the job, no late cancel or manual retry and no         *)
(* graceful shutdown leaves a job processing that nobody processes and     *)
(* the reaper cannot get back.  (claim_job, _complete_job, apply_failure,  *)
(* cancel_job, manual_retry, reap_expired_leases)                          *)
ProcessingOwned ==
  \A j \in Jobs : db[j].status = "processing" =>
    /\ db[j].leased_until # "null"
    /\ \E w \in Workers :
         /\ db[j].worker_id = w
         /\ \/ Runs(w, j) /\ task[w].row.attempt_count = db[j].attempt_count
            \/ proc[w] = "dead"

(* Even when two workers execute the same job at once (after a stall, or   *)
(* after a manual retry committed over a running attempt) they execute it  *)
(* as different attempts: the claim hands out every attempt number once.   *)
AttemptUnique ==
  \A j \in Jobs : \A v, w \in Workers :
    Runs(v, j) /\ Runs(w, j) /\ task[v].row.attempt_count = task[w].row.attempt_count
      => v = w

(* The lease holder the heartbeat reads never names a job the executor is  *)
(* done with: whatever the two loops interleave, process_one's finally     *)
(* clause and the heartbeat's own clearing leave no stale entry behind.    *)
HolderNamesTask ==
  \A w \in Workers : holder[w] # NoJob =>
    holder[w] = task[w].job /\ task[w].pc \in {"running", "dead_letter", "release"}

(* A job with scheduled_at in the future is never handed to a worker, not  *)
(* even when the scheduler's clock runs ahead of the database's or cancel, *)
(* scheduler and Redis restarts interleave.                                *)
NotBeforeSchedule ==
  \A j \in Jobs : db[j].scheduled_at = "future" =>
    /\ db[j].status \in {"scheduled", "cancelled"}
    /\ \A w \in Workers : ~ Runs(w, j)

-------------------------------------------------------------------------------
(* Safety when leases outlive handlers (no stall) and no two API requests  *)
(* on one job overlap.                                                     *)

(* One job is executed by one worker at a time: README, "guarantee that    *)
(* only one worker executes a job at a time".                              *)
ExclusiveExecution ==
  \A j \in Jobs : \A v, w \in Workers : Runs(v, j) /\ Runs(w, j) => v = w

(* A job is attempted at most max_attempts times, plus once for every      *)
(* worker that died: the reaper gives an attempt back without looking at   *)
(* max_attempts, and nothing else does.                                    *)
Dead == {w \in Workers : proc[w] = "dead"}

AttemptBudget ==
  \A j \in Jobs : db[j].attempt_count <= db[j].max_attempts + Cardinality(Dead)

(* What GET /jobs/{id} shows is true: a completed job shows 100, and from  *)
(* an attempt's first report on progress_pct is what it has reported last, *)
(* although every report commits over whatever the row has become and only *)
(* where it differs from the Job in memory (_report_progress,              *)
(* _complete_job).  Before its first report an attempt still shows the     *)
(* percentage of the one before: nothing resets it.                        *)
ProgressTruthful ==
  /\ \A j \in Jobs : db[j].status = "completed" => db[j].progress_pct = 100
  /\ \A w \in Workers, j \in Jobs :
       Runs(w, j) /\ reports[w] > 0 => db[j].progress_pct = Percent(reports[w])

(* Without crashes and manual retries the dead-letter list is the exact    *)
(* index of the failed jobs, up to its length limit: an entry is a failed  *)
(* job, listed once, and a failed job is listed, or its worker is about to *)
(* list it, unless the list is full.                                       *)
DeadLetterIndex ==
  /\ deadLetter \in Seq(Jobs)
  /\ Len(deadLetter) <= DeadLetterMaxLen
  /\ \A m, n \in 1..Len(deadLetter) : deadLetter[m] = deadLetter[n] => m = n
  /\ \A n \in 1..Len(deadLetter) : db[deadLetter[n]].status = "failed"
  /\ \A j \in Jobs : db[j].status = "failed" =>
       \/ \E n \in 1..Len(deadLetter) : deadLetter[n] = j
       \/ \E w \in Workers : task[w].pc = "dead_letter" /\ task[w].job = j
       \/ Len(deadLetter) = DeadLetterMaxLen

-------------------------------------------------------------------------------
(* Liveness, of FairSpec.                                                  *)

Settled == {"completed", "failed", "cancelled"}

(* Every submitted job settles for good, once the clients stop cancelling  *)
(* and retrying: through lost ZADDs, a Redis restart, crashed or stopped   *)
(* workers and an interrupted maintenance cycle, the feeder, the scheduler *)
(* and the reaper bring it back to a worker from the table alone; and an   *)
(* outcome that comes after the lease ran out does not leave it stuck.     *)
JobsSettle ==
  \A j \in Jobs : Exists(j) ~> [](db[j].status \in Settled)

(* An entry left in jobs:scheduled for a job that is no longer scheduled   *)
(* (a cancel that died before its ZREM, or a ZADD of the submission that   *)
(* came after it) does not stay there: the scheduler drops it when due.    *)
StaleScheduleDropped ==
  \A j \in Jobs :
    (j \in scheduledQ /\ db[j].status # "scheduled") ~> (j \notin scheduledQ)

(* Every id in jobs:pending is popped in the end, low priorities and ids   *)
(* of jobs that cannot be claimed any more included.                       *)
PendingDrained == \A j \in Jobs : (j \in pendingQ) ~> (j \notin pendingQ)

-------------------------------------------------------------------------------
(* Statements of the documentation the code does not keep (see README).    *)

(* PLAN.md: "Cancelled job not executed".                                  *)
CancelledNotExecuting ==
  \A j \in Jobs : db[j].status = "cancelled" => \A w \in Workers : ~ Runs(w, j)

(* manual_retry: "Clears the Redis dead-letter index for this job."  A     *)
(* retry that has not come to its LREM yet is given its time.              *)
DeadLetterOnlyFailed ==
  \A n \in 1..Len(deadLetter) :
    \/ db[deadLetter[n]].status = "failed"
    \/ \E r \in Requests : At(r, "lrem", deadLetter[n])
===============================================================================
