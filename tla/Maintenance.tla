------------------------------ MODULE Maintenance ------------------------------
(***************************************************************************)
(* The maintenance process: the feeder, the scheduler and the reaper, three *)
(* loops on one event loop, each working through a batch it selected before *)
(* with awaits in between.                                                  *)
(***************************************************************************)
EXTENDS JobStore, Dispatch, FiniteSets

CONSTANT BatchSize   \* _FEEDER_BATCH_SIZE, _SCHEDULER_BATCH_SIZE, _REAPER_BATCH_SIZE

ASSUME BatchAssumption == BatchSize \in Nat \ {0}

VARIABLES
  feeder,       \* jobs selected by the feeder and not yet sent to Redis
  reaper,       \* ids selected by the reaper and not yet looked at
  sched         \* where promote_due_scheduled stands

maintenanceVars == <<feeder, reaper, sched>>

Sched == [pc   : {"next", "scan", "promoted", "drop", "enqueue"},
          due  : SUBSET Jobs,         \* the jobs with scheduled_at <= moment
          todo : SUBSET Jobs,         \* the candidates left
          job  : Jobs \cup {NoJob}]   \* the candidate in hand

IdleSched == [pc |-> "next", due |-> {}, todo |-> {}, job |-> NoJob]

MaintenanceInit == feeder = {} /\ reaper = {} /\ sched = IdleSched

(* Mutant: the limit is off by one.                                        *)
FirstBatchShort(S) == {j \in S : Cardinality({i \in S : i < j}) < BatchSize - 1}

(* ORDER BY ... LIMIT, when the order is that of the job numbers ...       *)
FirstBatch(S) == {j \in S : Cardinality({i \in S : i < j}) < BatchSize}

(* ... and when it is an order of timestamps, which are not modelled.      *)
Batches(S) ==
  {T \in SUBSET S : Cardinality(T) = BatchSize \/ (T = S /\ Cardinality(S) < BatchSize)}

-------------------------------------------------------------------------------
(* promote_ready_jobs                                                      *)

(* Mutant: only jobs that never failed are looked for.                      *)
FeederReadyNoRetries(row) == row.status = "pending" /\ row.next_run_at = "null"

FeederReady(row) == Ready(row)

FeederSelect ==
  /\ feeder = {}
  /\ feeder' = FirstBatch({j \in Jobs : FeederReady(db[j])})
  /\ UNCHANGED <<db, queueVars, reaper, sched>>

FeederEnqueue(j) ==
  /\ j \in feeder
  /\ \A i \in feeder : j <= i
  /\ feeder' = feeder \ {j}
  /\ enqueue(j)
  /\ UNCHANGED <<db, reaper, sched>>

FeederStep == FeederSelect \/ \E j \in Jobs : FeederEnqueue(j)

-------------------------------------------------------------------------------
(* reap_expired_leases                                                     *)

ReaperSelect ==
  /\ reaper = {}
  /\ reaper' \in Batches({j \in Jobs : ReapWhere(db[j])})
  /\ UNCHANGED <<db, queueVars, feeder, sched>>

Reap(j) ==
  /\ j \in reaper
  /\ reaper' = reaper \ {j}
  /\ db' = IF ReapWhere(db[j]) THEN [db EXCEPT ![j] = ReapSet(@)] ELSE db
  /\ UNCHANGED <<queueVars, feeder, sched>>

ReaperStep == ReaperSelect \/ \E j \in Jobs : Reap(j)

-------------------------------------------------------------------------------
(* promote_due_scheduled                                                   *)

(* moment is read from the app's clock, which may run ahead: then a job    *)
(* the database still holds back looks due.                                *)
AheadOfTime ==
  IF ClockSkew THEN {j \in Jobs : db[j].scheduled_at = "future"} ELSE {}

(* A cycle at a moment when nothing at all is due changes nothing and is   *)
(* left out.                                                               *)
SchedulerReadRedis ==
  /\ sched.pc = "next"
  /\ sched.todo = {}
  /\ \E early \in SUBSET AheadOfTime :
       LET due == {j \in Jobs : db[j].scheduled_at = "past"} \cup early IN
       /\ due # {}
       /\ \E ids \in Batches(scheduledQ \cap due) :
            sched' = [pc |-> "scan", due |-> due, todo |-> ids, job |-> NoJob]
  /\ UNCHANGED <<db, queueVars, feeder, reaper>>

(* Mutant: no scan of the table, Redis alone is trusted.                    *)
SchedulerReadDbNever ==
  /\ sched.pc = "scan"
  /\ sched' = [sched EXCEPT !.pc = "next"]
  /\ UNCHANGED <<db, queueVars, feeder, reaper>>

SchedulerReadDb ==
  /\ sched.pc = "scan"
  /\ \E ids \in Batches({j \in sched.due : db[j].status = "scheduled"}) :
       sched' = [sched EXCEPT !.pc = "next", !.due = {}, !.todo = @ \cup ids]
  /\ UNCHANGED <<db, queueVars, feeder, reaper>>

(* The guarded UPDATE decides again, by the database's clock.              *)
Promote(j) ==
  /\ sched.pc = "next"
  /\ j \in sched.todo
  /\ IF PromoteWhere(db[j])
       THEN /\ db' = [db EXCEPT ![j] = PromoteSet(@)]
            /\ sched' = [sched EXCEPT !.pc = "promoted", !.todo = @ \ {j}, !.job = j]
       ELSE /\ sched' = [sched EXCEPT !.pc = "drop", !.todo = @ \ {j}, !.job = j]
            /\ UNCHANGED db
  /\ UNCHANGED <<queueVars, feeder, reaper>>

(* Mutant: a stale entry is left in Redis.                                  *)
SchedulerKeepStale(j) ==
  /\ sched.pc = "drop"
  /\ sched.job = j
  /\ sched' = [sched EXCEPT !.pc = "next", !.job = NoJob]
  /\ UNCHANGED <<db, queueVars, feeder, reaper>>

(* Cancelled or not yet due: the entry in Redis is dropped all the same.   *)
SchedulerDrop(j) ==
  /\ sched.pc = "drop"
  /\ sched.job = j
  /\ remove_scheduled(j)
  /\ sched' = [sched EXCEPT !.pc = "next", !.job = NoJob]
  /\ UNCHANGED <<db, feeder, reaper>>

SchedulerMove(j) ==
  /\ sched.pc = "promoted"
  /\ sched.job = j
  /\ remove_scheduled(j)
  /\ sched' = [sched EXCEPT !.pc = "enqueue"]
  /\ UNCHANGED <<db, feeder, reaper>>

SchedulerEnqueue(j) ==
  /\ sched.pc = "enqueue"
  /\ sched.job = j
  /\ enqueue(j)
  /\ sched' = [sched EXCEPT !.pc = "next", !.job = NoJob]
  /\ UNCHANGED <<db, feeder, reaper>>

SchedulerStep ==
  \/ SchedulerReadRedis
  \/ SchedulerReadDb
  \/ \E j \in Jobs : \/ Promote(j)
                     \/ SchedulerDrop(j)
                     \/ SchedulerMove(j)
                     \/ SchedulerEnqueue(j)

-------------------------------------------------------------------------------
(* The process dies in the middle of its batches and is started again:     *)
(* that somebody does so is an assumption on the deployment.               *)
MaintenanceRestart ==
  /\ feeder' = {}
  /\ reaper' = {}
  /\ sched' = IdleSched
  /\ UNCHANGED <<db, queueVars>>
===============================================================================
